---------------------------- MODULE KernelsProofs ----------------------------
(***************************************************************************)
(* Proofs about the kernels of all chats, for any number of chats, cells,  *)
(* operators, runs and faults and any limits.                              *)
(*                                                                         *)
(* The invariant is said again of one task and of one chat.  A step is     *)
(* taken by one task: Kept says that the other tasks keep their part of    *)
(* the invariant when the step respects their locks, so that each action   *)
(* only has to show what becomes of its own task and of the lease it       *)
(* touches.                                                                *)
(***************************************************************************)
EXTENDS Kernels, FiniteSetTheorems, TLAPS

USE DEF Booting, OnWorker, Automatic, Teardowns

(* What the victims of an eviction or a sweep are. *)
Victims == SUBSET [chat : Chat, gen : Nat \ {0}]

TaskRec == [pc : Pc, chat : Chat \cup {None}, gen : Nat, attempt : Nat,
            target : Chat \cup {None}, reason : Reason,
            victims : Victims,
            intent : {"none", "steer", "stop"}]

LeaseRec == [gen : Nat, dead : BOOLEAN, closing : BOOLEAN, reason : Reason,
             state : {"absent", "starting", "ready", "busy", "stopping"}]

Locking == {"draining", "replacing", "slot"} \cup Booting

(* The invariant of one cell. *)
CellOK(k) ==
  LET x == task[k] IN
  /\ x.pc \in {"idle", "done"} <=> x.chat = None
  /\ x.chat # None => run[x.chat]
  /\ x.pc \in Locking => boot_lock[x.chat] = k
  /\ x.pc \in {"slot", "reaping", "evicting"} \cup Teardowns => lease[x.chat].gen = 0
  /\ x.pc = "booting" => /\ lease[x.chat].gen # 0 /\ ~lease[x.chat].closing
                         /\ lease[x.chat].state = "starting"
  /\ x.pc \in {"draining", "replacing", "unbooting"}
       => x.gen # 0 /\ lease[x.chat].gen \in {0, x.gen}
  /\ x.pc \in {"queued"} \cup OnWorker =>
       /\ x.gen \in 1..generation[x.chat]
       /\ lease[x.chat].gen = x.gen => lease[x.chat].state # "starting"
  /\ phase # "up" /\ x.pc \in Booting
       => x.pc \in {"retiring", "booting", "unbooting"} /\ x.intent = "stop"
  /\ ledger[k] = "admitted" => phase = "down" \/ x.pc \in {"queued"} \cup OnWorker

(* The invariant of one teardown. *)
TeardownOK(t) ==
  LET x == task[t] IN
  /\ x.pc \in Teardowns =>
       x.target # None /\ x.gen # 0 /\ x.reason \in Automatic \cup {"restart", "shutdown"}
  /\ x.pc \in {"checkpoint", "retiring"} =>
       /\ boot_lock[x.target] = t /\ x.target # x.chat
       /\ lease[x.target].gen \in {0, x.gen}
       /\ x.reason \in Automatic => retirement[x.target] = t /\ ~run[x.target]
  /\ x.pc = "checkpoint" /\ x.reason \in Automatic => lease[x.target].gen = x.gen

(* The invariant of a closer of shutdown, named by its chat. *)
CloserOK(c) ==
  LET x == task[c] IN
  /\ phase \in {"up", "down"} => x.pc = "idle"
  /\ x.pc \in Teardowns =>
       x.target = c /\ x.reason = "shutdown" /\ x.victims = {} /\ lease[c].gen \in {0, x.gen}
  /\ x.pc = "done" => lease[c].gen = 0

TaskOK(t) ==
  /\ task[t] \in TaskRec
  /\ t \in Cell => CellOK(t)
  /\ t \in Op \cup Chat => task[t].chat = None /\ task[t].pc \in {"idle", "done"} \cup Teardowns
  /\ t \in Chat => CloserOK(t)
  /\ TeardownOK(t)
  /\ phase = "down" => task[t].pc \in {"idle", "done"}

(* The invariant of one chat. *)
LeaseOK(c) ==
  /\ generation[c] \in Nat /\ lease[c] \in LeaseRec
  /\ workers[c] = IF lease[c].gen = 0 THEN {} ELSE {lease[c].gen}
  /\ lease[c].gen = 0 => lease[c] = NoLease
  /\ lease[c].gen <= generation[c]
  /\ ~lease[c].closing => lease[c].reason = "none"
  /\ phase \in {"down", "closed"} => lease[c].gen = 0

Killer(k, c) == Closes(k, c) /\ task[k].pc = "dying" /\ task[k].intent = "stop"
Retirer(t, c) == Closes(t, c) /\ task[t].pc = "retiring" /\ task[t].reason \in Automatic

CloserWaits(c) ==
  /\ lease[c].closing => \E t \in Task : Closes(t, c)
  /\ lease[c].reason = "killed" => \E k \in Cell : Killer(k, c)
  /\ lease[c].reason \in Automatic => \E t \in Task : Retirer(t, c)

Maps ==
  /\ generation \in [Chat -> Nat] /\ workers \in [Chat -> SUBSET Nat]
  /\ lease \in [Chat -> LeaseRec] /\ run \in [Chat -> BOOLEAN]
  /\ retirement \in [Chat -> Task \cup {None}] /\ boot_lock \in [Chat -> Task \cup {None}]
  /\ task \in [Task -> TaskRec] /\ ledger \in [Cell -> {"none", "admitted", "recorded"}]
  /\ phase \in {"up", "stopping", "closed", "down"}

KInv ==
  /\ Maps /\ WithinCapacity
  /\ \A t \in Task : TaskOK(t)
  /\ \A c \in Chat : LeaseOK(c) /\ CloserWaits(c)

(* The process keeps its configuration. *)
Fixed == config \in Config /\ config' = config

(* The invariant of the configuration and of the queues for the boot locks. *)
Queued == config \in Config /\ ahead \in [Task -> SUBSET Task]

LEMMA Names ==
  /\ Cell \cap Op = {} /\ Cell \cap Chat = {} /\ Chat \cap Op = {}
  /\ None \notin Task /\ Cell \subseteq Task /\ Op \subseteq Task /\ Chat \subseteq Task
BY KernelsAssumption DEF Task

(* The invariant of the module, from its parts. *)
LEMMA PartsMakeInv ==
  KInv /\ Queued => KernelsInv /\ RunKeepsKernel /\ AdmittedIsRecorded
<1>. SUFFICES ASSUME KInv, Queued PROVE KernelsInv /\ RunKeepsKernel /\ AdmittedIsRecorded
  OBVIOUS
<1>1. KernelsTypeOK
  BY Names DEF KInv, Queued, Maps, TaskRec, Victims, LeaseRec, TaskOK, KernelsTypeOK
<1>2. LocksAreHeld
  BY Names DEF KInv, TaskOK, CellOK, TeardownOK, Locking, LocksAreHeld
<1>3. LeasesAreKnown
  <2>1. \A k \in Cell : CellOK(k)
    BY Names DEF KInv, TaskOK
  <2>2. \A t \in Task : TeardownOK(t)
    BY DEF KInv, TaskOK
  <2>3. \A c \in Chat : (lease[c].gen = 0 => lease[c] = NoLease) /\ lease[c].gen <= generation[c]
    BY DEF KInv, LeaseOK
  <2>. QED
    BY <2>1, <2>2, <2>3 DEF CellOK, TeardownOK, LeasesAreKnown
<1>4. ClosersWait
  BY DEF KInv, LeaseOK, CloserWaits, Killer, Retirer, ClosersWait
<1>5. NothingBootsAgain
  <2>1. phase = "down" => Live = {}
    BY DEF KInv, LeaseOK, Live
  <2>2. \A k \in Slots : k \in Cell /\ task[k].pc \in Booting /\ CellOK(k)
    BY Names DEF KInv, TaskOK, Slots
  <2>3. \A c \in Chat : CloserOK(c)
    BY Names DEF KInv, TaskOK
  <2>. QED
    BY <2>1, <2>2, <2>3 DEF KInv, TaskOK, CellOK, CloserOK, NothingBootsAgain
<1>6. OneWorkerPerChat /\ WithinCapacity
  BY DEF KInv, LeaseOK, OneWorkerPerChat
<1>7. ShutdownLeavesNothing
  BY DEF KInv, LeaseOK, Live, ShutdownLeavesNothing
<1>8. OnlyStopKills
  <2>1. ASSUME NEW c \in Chat, lease[c].reason = "killed"
        PROVE  \E k \in Executing(c, lease[c].gen) : task[k].intent = "stop"
    <3>1. PICK k \in Cell : Killer(k, c)
      BY <2>1 DEF KInv, CloserWaits
    <3>2. task[k].gen = lease[c].gen /\ task[k].chat = c
      BY <3>1 DEF Killer, Closes
    <3>. QED
      BY <3>1, <3>2 DEF Killer, Executing
  <2>. QED
    BY <2>1 DEF OnlyStopKills
<1>9. RunKeepsKernel
  <2>1. ASSUME NEW c \in Chat, lease[c].reason \in Automatic
        PROVE  ~run[c]
    <3>1. PICK t \in Task : Retirer(t, c)
      BY <2>1 DEF KInv, CloserWaits
    <3>2. TeardownOK(t)
      BY DEF KInv, TaskOK
    <3>. QED
      BY <3>1, <3>2 DEF Retirer, Closes, TeardownOK
  <2>. QED
    BY <2>1 DEF RunKeepsKernel
<1>10. AdmittedIsRecorded
  BY Names DEF KInv, TaskOK, CellOK, AdmittedIsRecorded
<1>. QED
  BY <1>1, <1>2, <1>3, <1>4, <1>5, <1>6, <1>7, <1>8, <1>9, <1>10 DEF KernelsInv

-----------------------------------------------------------------------------
(* What a step of the tasks T leaves of the others                         *)

(* The task keeps its place; an interrupt or a cancellation may reach it. *)
SameTask(t) ==
  /\ task'[t] \in TaskRec
  /\ task'[t].pc = task[t].pc /\ task'[t].chat = task[t].chat /\ task'[t].gen = task[t].gen
  /\ task'[t].target = task[t].target /\ task'[t].reason = task[t].reason
  /\ task'[t].victims = task[t].victims
  /\ \/ task'[t].intent \in {task[t].intent, "stop"}
     \/ task[t].pc \in {"running", "interrupting"}
  /\ t \in Cell => ledger'[t] \in {ledger[t], "recorded"}

(* What T does not hold it neither takes away nor takes over. *)
Locks(T) ==
  \A c \in Chat :
    /\ boot_lock'[c] = boot_lock[c] \/ boot_lock[c] \in T \cup {None}
    /\ retirement'[c] = retirement[c] \/ retirement[c] \in T \cup {None}

(* A lease changes its state, is closed for good, or is the next generation's. *)
Moves(c, T) ==
  \/ /\ lease'[c].gen = lease[c].gen
     /\ lease'[c].state = "starting" => lease[c].state = "starting"
     /\ \/ boot_lock[c] \in T \cup {None} \/ lease[c].state # "starting"
        \/ lease'[c].state = lease[c].state /\ lease'[c].closing = lease[c].closing
  \/ /\ lease[c].closing /\ lease'[c].gen = 0
     /\ \A t \in Task : ~(/\ task[t].pc = "checkpoint" /\ task[t].reason \in Automatic
                          /\ task[t].target = c)
  \/ boot_lock[c] \in T /\ phase = "up" /\ lease'[c].gen > generation[c]

RunMoves(c) ==
  \/ run'[c] = run[c]
  \/ run'[c] /\ retirement[c] = None
  \/ ~run'[c] /\ \A t \in Task : task[t].chat # c

PhaseMoves(t) ==
  \/ phase' = phase
  \/ phase = "down" /\ phase' = "up" /\ (t \in Cell => ledger'[t] # "admitted")
  \/ /\ phase \in {"up", "stopping"} /\ phase' \in {"stopping", "closed"}
     /\ t \in Cell /\ task[t].pc \in Booting =>
          task[t].pc \in {"retiring", "booting", "unbooting"} /\ task'[t].intent = "stop"

(* The other tasks keep their part of the invariant. *)
LEMMA Kept ==
  ASSUME KInv, NEW T, NEW t \in Task, t \notin T, SameTask(t), PhaseMoves(t), Locks(T),
         \A c \in Chat : Moves(c, T) /\ RunMoves(c)
                         /\ generation'[c] \in Nat /\ generation'[c] >= generation[c]
  PROVE  TaskOK(t)'
<1>. DEFINE x == task[t]
            y == task'[t]
<1>1. /\ x \in TaskRec /\ y \in TaskRec /\ t # None
      /\ y.pc = x.pc /\ y.chat = x.chat /\ y.gen = x.gen /\ y.target = x.target
      /\ y.reason = x.reason /\ y.victims = x.victims
  BY Names DEF KInv, TaskOK, SameTask
<1>2. y.intent \in {x.intent, "stop"} \/ x.pc \notin Booting
  BY DEF SameTask
<1>3. ASSUME NEW c \in Chat, boot_lock[c] = t
      PROVE  /\ boot_lock'[c] = t /\ lease'[c].gen \in {0, lease[c].gen}
             /\ lease[c].state = "starting" /\ ~lease[c].closing
                  => lease'[c].gen = lease[c].gen /\ lease'[c].state = "starting" /\ ~lease'[c].closing
  <2>1. boot_lock[c] \notin T \cup {None}
    BY <1>1, <1>3
  <2>. QED
    BY <1>3, <2>1 DEF Locks, Moves
<1>4. ASSUME NEW c \in Chat, retirement[c] = t
      PROVE  /\ retirement'[c] = t
             /\ ~run[c] => ~run'[c]
  <2>1. retirement[c] \notin T \cup {None}
    BY <1>1, <1>4
  <2>. QED
    BY <1>4, <2>1 DEF Locks, RunMoves
<1>5. ASSUME t \in Cell
      PROVE  CellOK(t)'
  <2>1. CellOK(t)
    BY <1>5 DEF KInv, TaskOK
  <2>2. x.chat \in Chat \cup {None}
    BY <1>1 DEF TaskRec
  <2>3. x.pc \in {"idle", "done"} <=> x.chat = None
    BY <2>1 DEF CellOK
  <2>4. x.chat # None => run'[x.chat]
    BY <2>1, <2>2 DEF CellOK, RunMoves
  <2>5. x.pc \in Locking =>
          /\ boot_lock[x.chat] = t /\ boot_lock'[x.chat] = t /\ x.chat \in Chat
          /\ lease'[x.chat].gen \in {0, lease[x.chat].gen}
    BY <1>3, <2>1, <2>2, <2>3 DEF CellOK, Locking
  <2>6. x.pc \in {"slot", "reaping", "evicting"} \cup Teardowns => lease'[x.chat].gen = 0
    BY <2>1, <2>5 DEF CellOK, Locking
  <2>7. x.pc = "booting" => /\ lease'[x.chat].gen # 0 /\ ~lease'[x.chat].closing
                            /\ lease'[x.chat].state = "starting"
    BY <1>3, <2>1, <2>5 DEF CellOK, Locking
  <2>8. x.pc \in {"draining", "replacing", "unbooting"}
          => x.gen # 0 /\ lease'[x.chat].gen \in {0, x.gen}
    BY <2>1, <2>5 DEF CellOK, Locking
  <2>9. x.pc \in {"queued"} \cup OnWorker =>
          /\ x.gen \in 1..generation'[x.chat]
          /\ lease'[x.chat].gen = x.gen => lease'[x.chat].state # "starting"
    <3>1. SUFFICES ASSUME x.pc \in {"queued"} \cup OnWorker
                   PROVE  /\ x.gen \in 1..generation'[x.chat]
                          /\ lease'[x.chat].gen = x.gen => lease'[x.chat].state # "starting"
      OBVIOUS
    <3>2. x.chat \in Chat
      BY <2>2, <2>3, <3>1
    <3>3. x.gen \in 1..generation[x.chat] /\ generation[x.chat] \in Nat
      BY <2>1, <3>1, <3>2 DEF CellOK, KInv, LeaseOK
    <3>4. generation'[x.chat] \in Nat /\ generation'[x.chat] >= generation[x.chat]
      BY <3>2
    <3>5. lease'[x.chat].gen = x.gen => lease'[x.chat].state # "starting"
      <4>1. lease[x.chat].gen = x.gen => lease[x.chat].state # "starting"
        BY <2>1, <3>1 DEF CellOK
      <4>2. Moves(x.chat, T)
        BY <3>2
      <4>3. x.gen # 0 /\ ~(x.gen > generation[x.chat])
        BY <3>3
      <4>. QED
        BY <4>1, <4>2, <4>3 DEF Moves
    <3>. QED
      BY <3>3, <3>4, <3>5
  <2>10. phase' # "up" /\ x.pc \in Booting
           => x.pc \in {"retiring", "booting", "unbooting"} /\ y.intent = "stop"
    <3>1. phase # "up" /\ x.pc \in Booting
            => x.pc \in {"retiring", "booting", "unbooting"} /\ y.intent = "stop"
      BY <1>2, <2>1 DEF CellOK
    <3>. QED
      BY <1>5, <3>1 DEF PhaseMoves
  <2>11. ledger'[t] = "admitted" => phase' = "down" \/ x.pc \in {"queued"} \cup OnWorker
    <3>1. ledger'[t] = "admitted" => phase = "down" \/ x.pc \in {"queued"} \cup OnWorker
      BY <1>5, <2>1 DEF CellOK, SameTask
    <3>. QED
      BY <1>5, <3>1 DEF PhaseMoves
  <2>. QED
    BY <1>1, <2>3, <2>4, <2>5, <2>6, <2>7, <2>8, <2>9, <2>10, <2>11 DEF CellOK
<1>6. TeardownOK(t)'
  <2>1. TeardownOK(t)
    BY DEF KInv, TaskOK
  <2>2. ASSUME x.pc \in {"checkpoint", "retiring"}
        PROVE  /\ x.target \in Chat /\ boot_lock'[x.target] = t
               /\ lease'[x.target].gen \in {0, x.gen}
               /\ x.reason \in Automatic => retirement'[x.target] = t /\ ~run'[x.target]
    <3>1. x.target \in Chat /\ boot_lock[x.target] = t /\ lease[x.target].gen \in {0, x.gen}
      BY <1>1, <2>1, <2>2 DEF TeardownOK, TaskRec
    <3>2. boot_lock'[x.target] = t /\ lease'[x.target].gen \in {0, x.gen}
      BY <1>3, <3>1
    <3>3. x.reason \in Automatic => retirement[x.target] = t /\ ~run[x.target]
      BY <2>1, <2>2 DEF TeardownOK
    <3>. QED
      BY <1>4, <3>1, <3>2, <3>3
  <2>3. ASSUME x.pc = "checkpoint", x.reason \in Automatic
        PROVE  lease'[x.target].gen = x.gen
    <3>1. x.target \in Chat /\ boot_lock[x.target] = t /\ lease[x.target].gen = x.gen
      BY <1>1, <2>1, <2>3 DEF TeardownOK, TaskRec
    <3>2. boot_lock[x.target] \notin T
      BY <3>1
    <3>. QED
      BY <2>3, <3>1, <3>2 DEF Moves
  <2>. QED
    BY <1>1, <2>1, <2>2, <2>3 DEF TeardownOK
<1>7. ASSUME t \in Chat
      PROVE  CloserOK(t)'
  <2>1. CloserOK(t)
    BY <1>7 DEF KInv, TaskOK
  <2>2. phase' \in {"up", "down"} => x.pc = "idle"
    BY <2>1 DEF PhaseMoves, CloserOK
  <2>3. ASSUME x.pc # "idle"
        PROVE  lease'[t].gen \in {0, lease[t].gen}
    BY <1>7, <2>1, <2>3 DEF Moves, CloserOK
  <2>. QED
    BY <1>1, <2>1, <2>2, <2>3 DEF CloserOK
<1>8. phase' = "down" => y.pc \in {"idle", "done"}
  BY <1>1 DEF KInv, TaskOK, PhaseMoves
<1>9. t \in Op \cup Chat => y.chat = None /\ y.pc \in {"idle", "done"} \cup Teardowns
  BY <1>1 DEF KInv, TaskOK
<1>. QED
  BY <1>1, <1>5, <1>6, <1>7, <1>8, <1>9 DEF TaskOK

(* Who waits for a close waits on, unless the lease is gone. *)
LEMMA WaitsOn ==
  ASSUME KInv, NEW T, NEW c \in Chat, \A t \in Task \ T : SameTask(t),
         lease[c].closing => \A t \in T : ~Closes(t, c),
         lease'[c].gen = lease[c].gen, lease'[c].closing = lease[c].closing,
         lease'[c].reason = lease[c].reason
  PROVE  CloserWaits(c)'
<1>1. CloserWaits(c) /\ LeaseOK(c)
  BY DEF KInv
<1>2. lease[c].reason # "none" => lease[c].closing
  BY <1>1 DEF LeaseOK
<1>3. ASSUME NEW t \in Task, Closes(t, c), lease[c].closing
      PROVE  /\ Closes(t, c)'
             /\ task'[t].pc = task[t].pc /\ task'[t].reason = task[t].reason
             /\ task[t].pc = "dying" /\ task[t].intent = "stop" => task'[t].intent = "stop"
  BY <1>3 DEF Closes, SameTask
<1>4. lease'[c].closing => \E t \in Task : Closes(t, c)'
  BY <1>1, <1>3 DEF CloserWaits
<1>5. ASSUME lease'[c].reason = "killed"
      PROVE  \E k \in Cell : Killer(k, c)'
  <2>1. PICK k \in Cell : Killer(k, c)
    BY <1>1, <1>5 DEF CloserWaits
  <2>2. k \in Task
    BY Names
  <2>. QED
    BY <1>2, <1>3, <1>5, <2>1, <2>2 DEF Killer
<1>6. ASSUME lease'[c].reason \in Automatic
      PROVE  \E t \in Task : Retirer(t, c)'
  <2>1. PICK t \in Task : Retirer(t, c)
    BY <1>1, <1>6 DEF CloserWaits
  <2>. QED
    BY <1>2, <1>3, <1>6, <2>1 DEF Retirer
<1>. QED
  BY <1>4, <1>5, <1>6 DEF CloserWaits

(* Closing and forgetting leases makes room. *)
LEMMA RoomStays ==
  ASSUME KInv, Fixed, \A c \in Chat : lease[c].gen = 0 => lease'[c].gen = 0
  PROVE  WithinCapacity'
<1>1. IsFiniteSet(Live) /\ Live' \subseteq Live
  <2>1. Live \subseteq Chat \cup Cell \cup Op
    BY DEF Live
  <2>2. Live' \subseteq Live
    BY DEF Live
  <2>. QED
    BY <2>1, <2>2, FS_Subset, KernelsAssumption
<1>2. Cardinality(Live') <= Cardinality(Live) /\ IsFiniteSet(Live')
  BY <1>1, FS_Subset
<1>3. Cardinality(Live') \in Nat /\ Cardinality(Live) \in Nat
  BY <1>1, <1>2, FS_CardinalityType
<1>4. Cardinality(Live) <= config.max_live_kernels /\ config.max_live_kernels \in Nat
  BY KernelsAssumption DEF KInv, WithinCapacity, Fixed
<1>. QED
  BY <1>2, <1>3, <1>4 DEF WithinCapacity, Fixed

(* What a step of the tasks T may do to the lease of c, the maps of leases and the runs  *)
(* staying as they are.                                                                  *)
LeaseChange(c, T) ==
  /\ \/ lease'[c] = lease[c]
     \/ /\ lease[c].gen # 0 /\ lease'[c].gen = lease[c].gen
        /\ ~lease'[c].closing => lease'[c].reason = "none"
        /\ Moves(c, T)
  /\ \/ /\ lease'[c].closing = lease[c].closing /\ lease'[c].reason = lease[c].reason
        /\ lease[c].closing => \A t \in T : ~Closes(t, c)
     \/ CloserWaits(c)'

(* A step of the tasks T. *)
LEMMA TaskStep ==
  ASSUME KInv, Fixed, Maps', NEW T, UNCHANGED <<generation, workers, run, phase>>, Locks(T),
         \A t \in Task \ T : SameTask(t),
         \A t \in T : TaskOK(t)',
         \A c \in Chat : LeaseChange(c, T)
  PROVE  KInv'
<1>0. /\ generation' = generation /\ workers' = workers /\ run' = run /\ phase' = phase
      /\ \A c \in Chat : generation[c] \in Nat
  BY DEF KInv, LeaseOK
<1>1. ASSUME NEW c \in Chat
      PROVE  lease'[c].gen = lease[c].gen /\ Moves(c, T)
  BY <1>1 DEF LeaseChange, Moves
<1>2. \A t \in Task : TaskOK(t)'
  <2>1. ASSUME NEW t \in Task \ T
        PROVE  TaskOK(t)'
    <3>1. PhaseMoves(t)
      BY <1>0 DEF PhaseMoves
    <3>2. \A c \in Chat : Moves(c, T) /\ RunMoves(c)
                          /\ generation'[c] \in Nat /\ generation'[c] >= generation[c]
      BY <1>0, <1>1 DEF RunMoves
    <3>3. SameTask(t)
      BY <2>1
    <3>. QED
      BY <2>1, <3>1, <3>2, <3>3, Kept
  <2>. QED
    BY <2>1
<1>3. ASSUME NEW c \in Chat
      PROVE  LeaseOK(c)'
  <2>1. LeaseOK(c) /\ lease'[c] \in LeaseRec
    BY DEF KInv, Maps
  <2>3. CASE lease'[c] = lease[c]
    BY <1>0, <2>1, <2>3 DEF LeaseOK
  <2>4. CASE lease'[c] # lease[c]
    <3>1. lease[c].gen # 0 /\ lease'[c].gen = lease[c].gen
          /\ (~lease'[c].closing => lease'[c].reason = "none")
      BY <2>4 DEF LeaseChange
    <3>. QED
      BY <1>0, <2>1, <3>1 DEF LeaseOK
  <2>. QED
    BY <2>3, <2>4
<1>4. ASSUME NEW c \in Chat
      PROVE  CloserWaits(c)'
  <2>1. CASE CloserWaits(c)'
    BY <2>1
  <2>2. CASE ~CloserWaits(c)'
    <3>1. /\ lease'[c].closing = lease[c].closing /\ lease'[c].reason = lease[c].reason
          /\ lease[c].closing => \A t \in T : ~Closes(t, c)
      BY <2>2 DEF LeaseChange
    <3>. QED
      BY <1>1, <3>1, WaitsOn
  <2>. QED
    BY <2>1, <2>2
<1>5. WithinCapacity'
  BY <1>1, RoomStays
<1>. QED
  BY <1>2, <1>3, <1>4, <1>5 DEF KInv

-----------------------------------------------------------------------------
(* Steps of one task                                                       *)

Holders == [Chat -> Task \cup {None}]
Ledger == [Cell -> {"none", "admitted", "recorded"}]

(* Only what t holds, or nobody, changes hands. *)
Hands(holder, after, t) ==
  after \in Holders /\ \A c \in Chat : after[c] = holder[c] \/ holder[c] \in {t, None}

LEMMA HandsOver ==
  ASSUME NEW holder \in Holders, NEW t \in Task
  PROVE  /\ Hands(holder, holder, t) /\ Hands(holder, Without(holder, t), t)
         /\ \A c \in Chat, v \in Task \cup {None} : holder[c] \in {t, None}
              => Hands(holder, [holder EXCEPT ![c] = v], t)
BY DEF Hands, Holders, Without

(* The task does not wait for a close that is still to come. *)
Leaves(t) ==
  \/ task[t].pc \notin {"replacing", "unbooting", "dying", "retiring"}
  \/ task[t].pc = "retiring" /\ Gone(task[t].target, task[t].gen)
  \/ task[t].pc # "retiring" /\ Gone(task[t].chat, task[t].gen)

LEMMA NoWitness ==
  ASSUME KInv, NEW t \in Task, Leaves(t), NEW c \in Chat, lease[c].closing
  PROVE  ~Closes(t, c)
<1>1. LeaseOK(c)
  BY DEF KInv
<1>2. lease[c].gen # 0
  BY <1>1 DEF LeaseOK, NoLease
<1>3. lease[c].gen \in workers[c]
  BY <1>1, <1>2 DEF LeaseOK
<1>. QED
  BY <1>3 DEF Leaves, Closes, Gone

LEMMA OneStep ==
  ASSUME KInv, Fixed, NEW t \in Task, UNCHANGED <<generation, workers, run, phase>>,
         lease' \in [Chat -> LeaseRec], task' \in [Task -> TaskRec], ledger' \in Ledger,
         Hands(boot_lock, boot_lock', t), Hands(retirement, retirement', t),
         \A u \in Task \ {t} : task'[u] = task[u],
         \A k \in Cell \ {t} : ledger'[k] = ledger[k],
         TaskOK(t)', \A c \in Chat : LeaseChange(c, {t})
  PROVE  KInv'
<1>0. /\ generation' = generation /\ workers' = workers /\ run' = run /\ phase' = phase
  OBVIOUS
<1>1. Maps'
  BY <1>0 DEF KInv, Maps, Hands, Holders, Ledger
<1>2. Locks({t})
  BY DEF Hands, Locks
<1>3. \A u \in Task \ {t} : SameTask(u)
  BY Names DEF SameTask
<1>. QED
  BY <1>1, <1>2, <1>3, TaskStep

LEMMA QuietStep ==
  ASSUME KInv, Fixed, NEW t \in Task, UNCHANGED <<generation, workers, lease, run, phase>>,
         task' \in [Task -> TaskRec], ledger' \in Ledger,
         Hands(boot_lock, boot_lock', t), Hands(retirement, retirement', t),
         \A u \in Task \ {t} : task'[u] = task[u],
         \A k \in Cell \ {t} : ledger'[k] = ledger[k],
         TaskOK(t)', Leaves(t)
  PROVE  KInv'
<1>0. /\ generation' = generation /\ workers' = workers /\ run' = run /\ phase' = phase
      /\ lease' = lease
  OBVIOUS
<1>1. \A c \in Chat : LeaseChange(c, {t})
  BY <1>0, NoWitness DEF LeaseChange
<1>2. lease' \in [Chat -> LeaseRec]
  BY <1>0 DEF KInv, Maps
<1>. QED
  BY <1>0, <1>1, <1>2, OneStep

LEMMA DoneRec == Done \in TaskRec /\ Done.pc = "done" /\ Done.chat = None
BY DEF Done, Idle, TaskRec, Victims, Pc, Reason

LEMMA DoneOK ==
  ASSUME KInv, NEW t \in Cell \cup Op, task'[t] = Done, t \in Cell => ledger'[t] # "admitted"
  PROVE  TaskOK(t)'
BY Names, DoneRec DEF TaskOK, CellOK, TeardownOK, Locking

(* A cell whose request is over, and that leaves evidence of it if it was admitted. *)
LEMMA EndsStep ==
  ASSUME KInv, Fixed, NEW k \in Cell, Ends(k), UNCHANGED <<generation, workers, run, phase>>,
         lease' \in [Chat -> LeaseRec], \A c \in Chat : LeaseChange(c, {k}),
         \/ ledger' = ledger /\ task[k].pc \notin {"idle", "done", "queued"} \cup OnWorker
         \/ Recorded(k)
  PROVE  KInv'
<1>0. /\ generation' = generation /\ workers' = workers /\ run' = run /\ phase' = phase
      /\ k \in Task
  BY Names
<1>1. /\ task' \in [Task -> TaskRec] /\ task'[k] = Done
      /\ \A u \in Task \ {k} : task'[u] = task[u]
  BY <1>0, DoneRec DEF Ends, KInv, Maps
<1>2. Hands(boot_lock, boot_lock', k) /\ Hands(retirement, retirement', k)
  BY <1>0, HandsOver DEF Ends, KInv, Maps, Holders
<1>3. ledger' \in Ledger /\ \A j \in Cell \ {k} : ledger'[j] = ledger[j]
  BY DEF Recorded, Ledger, KInv, Maps
<1>4. ledger'[k] # "admitted"
  BY <1>0 DEF Recorded, KInv, Maps, TaskOK, CellOK
<1>5. TaskOK(k)'
  BY <1>1, <1>4, DoneOK
<1>. QED
  BY <1>0, <1>1, <1>2, <1>3, <1>5, OneStep

LEMMA QuietEnds ==
  ASSUME KInv, Fixed, NEW k \in Cell, Ends(k), UNCHANGED <<generation, workers, lease, run, phase>>,
         Leaves(k),
         \/ ledger' = ledger /\ task[k].pc \notin {"idle", "done", "queued"} \cup OnWorker
         \/ Recorded(k)
  PROVE  KInv'
<1>0. /\ generation' = generation /\ workers' = workers /\ run' = run /\ phase' = phase
      /\ lease' = lease /\ k \in Task
  BY Names
<1>1. \A c \in Chat : LeaseChange(c, {k})
  BY <1>0, NoWitness DEF LeaseChange
<1>2. lease' \in [Chat -> LeaseRec]
  BY <1>0 DEF KInv, Maps
<1>. QED
  BY <1>0, <1>1, <1>2, EndsStep

-----------------------------------------------------------------------------
(* A cell that finds or boots its lease                                    *)

(* What is known of a task, and of a cell. *)
LEMMA Known ==
  ASSUME KInv
  PROVE  /\ \A t \in Task : task[t] \in TaskRec /\ TeardownOK(t)
         /\ \A k \in Cell : k \in Task /\ k # None /\ CellOK(k)
         /\ \A c \in Chat : LeaseOK(c) /\ lease[c] \in LeaseRec
         /\ boot_lock \in Holders /\ retirement \in Holders /\ ledger \in Ledger
BY Names DEF KInv, TaskOK, Maps, Holders, Ledger

LEMMA Typed ==
  ASSUME KInv
  PROVE  /\ task \in [Task -> TaskRec] /\ lease \in [Chat -> LeaseRec]
         /\ {"idle", "locking", "draining", "replacing", "slot", "queued", "done"} \subseteq Pc
         /\ Booting \subseteq Pc /\ OnWorker \subseteq Pc
         /\ {"none", "replaced", "boot_failed", "killed", "process_died", "restart", "shutdown"}
              \cup Automatic \subseteq Reason
BY DEF KInv, Maps, Pc, Reason

(* A task that only goes on. *)
LEMMA PlaceKept ==
  ASSUME KInv, NEW t \in Task, NEW p \in Pc, Goes(t, p)
  PROVE  /\ task' \in [Task -> TaskRec] /\ \A u \in Task \ {t} : task'[u] = task[u]
         /\ task'[t] \in TaskRec /\ task'[t].pc = p /\ task'[t].chat = task[t].chat
         /\ task'[t].gen = task[t].gen /\ task'[t].target = task[t].target
         /\ task'[t].reason = task[t].reason /\ task'[t].intent = task[t].intent
         /\ task'[t].victims = task[t].victims
<1>1. task' = [task EXCEPT ![t].pc = p] /\ task \in [Task -> TaskRec]
  BY Typed DEF Goes
<1>2. task'[t] \in TaskRec
  BY <1>1 DEF TaskRec
<1>. QED
  BY <1>1, <1>2 DEF TaskRec

LEMMA Step_execute ==
  ASSUME KInv, Fixed, NEW k \in Cell, NEW c \in Chat, execute(k, c)
  PROVE  KInv'
<1>0. /\ generation' = generation /\ workers' = workers /\ run' = run /\ phase' = phase
      /\ lease' = lease /\ retirement' = retirement /\ boot_lock' = boot_lock /\ ledger' = ledger
      /\ k \in Task /\ phase = "up" /\ run[c] /\ task[k].pc = "idle"
  BY Names DEF execute
<1>1. /\ task' = [task EXCEPT ![k].pc = "locking", ![k].chat = c]
      /\ task \in [Task -> TaskRec] /\ "locking" \in Pc
  BY Typed DEF execute
<1>2. task'[k].pc = "locking" /\ task'[k].chat = c
  BY <1>0, <1>1 DEF TaskRec
<1>3. task'[k] \in TaskRec
  BY <1>0, <1>1 DEF TaskRec
<1>4. task' \in [Task -> TaskRec] /\ \A u \in Task \ {k} : task'[u] = task[u]
  BY <1>1, <1>3
<1>5. TaskOK(k)'
  <2>1. CellOK(k)'
    BY <1>0, <1>2, Known, Names DEF CellOK, Locking
  <2>. QED
    BY <1>0, <1>2, <1>3, <2>1, Names DEF TaskOK, TeardownOK
<1>. QED
  BY <1>0, <1>2, <1>4, <1>5, QuietStep, HandsOver, Known DEF Leaves

LEMMA VictimsListed ==
  ASSUME KInv, NEW C \in SUBSET Candidates
  PROVE  {Victim(c) : c \in C} \in Victims
<1>1. ASSUME NEW c \in C
      PROVE  Victim(c) \in [chat : Chat, gen : Nat \ {0}]
  <2>1. c \in Chat /\ lease[c].gen # 0
    BY DEF Candidates, Live
  <2>2. lease[c].gen \in Nat
    BY <2>1, Known DEF LeaseRec
  <2>. QED
    BY <2>1, <2>2 DEF Victim
<1>. QED
  BY <1>1 DEF Victims

(* A task turns to the next of its victims. *)
LEMMA Selected ==
  ASSUME KInv, NEW t \in Task, NEW V \in Victims, NextOf(t, V)
  PROVE  /\ task' \in [Task -> TaskRec] /\ \A u \in Task \ {t} : task'[u] = task[u]
         /\ task'[t] \in TaskRec /\ task'[t].pc = "victim" /\ task'[t].chat = task[t].chat
         /\ task'[t].gen # 0 /\ task'[t].target \in Chat
         /\ task'[t].reason = "eviction" /\ task'[t].intent = task[t].intent
<1>1. PICK c \in Chat, g \in Nat \ {0}, W \in Victims :
        task' = [task EXCEPT ![t].pc = "victim", ![t].target = c, ![t].gen = g,
                             ![t].victims = W, ![t].reason = "eviction"]
  <2>1. PICK v \in V :
          task' = [task EXCEPT ![t].pc = "victim", ![t].target = v.chat, ![t].gen = v.gen,
                               ![t].victims = V \ {v}, ![t].reason = "eviction"]
    BY DEF NextOf
  <2>2. v.chat \in Chat /\ v.gen \in Nat \ {0} /\ V \ {v} \in Victims
    BY DEF Victims
  <2>. QED
    BY <2>1, <2>2
<1>2. task \in [Task -> TaskRec] /\ "victim" \in Pc /\ "eviction" \in Reason
  BY Typed
<1>3. /\ task'[t].pc = "victim" /\ task'[t].chat = task[t].chat /\ task'[t].gen = g
      /\ task'[t].target = c /\ task'[t].reason = "eviction"
      /\ task'[t].intent = task[t].intent
  BY <1>1, <1>2 DEF TaskRec
<1>4. task'[t] \in TaskRec
  <2>. DEFINE r == [task[t] EXCEPT !.pc = "victim", !.target = c, !.gen = g,
                                   !.victims = W, !.reason = "eviction"]
  <2>1. task'[t] = r
    BY <1>1, <1>2
  <2>2. task[t] \in TaskRec /\ c \in Chat /\ g \in Nat /\ W \in Victims
    BY <1>2
  <2>3. r \in TaskRec
    BY ONLY <1>2, <2>2 DEF TaskRec
  <2>. QED
    BY <2>1, <2>3
<1>. QED
  BY <1>1, <1>2, <1>3, <1>4

(* A cell or an operator, not the closer of a chat, does so. *)
LEMMA SelectedOK ==
  ASSUME KInv, NEW t \in Cell \cup Op, NEW V \in Victims, NextOf(t, V),
         phase # "down", run' = run, phase' = phase, lease' = lease, ledger' = ledger,
         t \in Cell => /\ phase = "up" /\ task[t].chat \in Chat
                       /\ boot_lock'[task[t].chat] = t
                       /\ task[t].pc \in {"reaping", "evicting"} \cup Teardowns
  PROVE  TaskOK(t)'
<1>0. /\ task'[t] \in TaskRec /\ task'[t].pc = "victim" /\ task'[t].chat = task[t].chat
      /\ task'[t].gen # 0 /\ task'[t].target \in Chat /\ task'[t].reason = "eviction"
  BY Selected, Names
<1>1. t \in Cell => CellOK(t)'
  BY <1>0, Known, Names DEF CellOK, Locking
<1>2. TeardownOK(t)'
  BY <1>0, Names DEF TeardownOK
<1>3. t \in Op \cup Chat => task[t].chat = None
  BY Names DEF KInv, TaskOK
<1>. QED
  BY <1>0, <1>1, <1>2, <1>3, Names DEF TaskOK

LEMMA Step_NextOf ==
  ASSUME KInv, Fixed, NEW k \in Cell, task[k].pc \in {"reaping", "evicting"},
         NEW V \in Victims, NextOf(k, V),
         UNCHANGED <<generation, workers, lease, run, retirement, boot_lock, ledger, phase>>
  PROVE  KInv'
<1>0. /\ generation' = generation /\ workers' = workers /\ run' = run /\ phase' = phase
      /\ lease' = lease /\ retirement' = retirement /\ boot_lock' = boot_lock /\ ledger' = ledger
      /\ k \in Task
  BY Names
<1>1. TaskOK(k)'
  <2>1. phase = "up" /\ task[k].chat \in Chat /\ boot_lock[task[k].chat] = k
    BY Known, Names DEF CellOK, Locking, TaskRec
  <2>. QED
    BY <1>0, <2>1, SelectedOK
<1>. QED
  BY <1>0, <1>1, Selected, QuietStep, HandsOver, Known DEF Leaves

LEMMA Step_reap_idle ==
  ASSUME KInv, Fixed, NEW k \in Cell, reap_idle(k)
  PROVE  KInv'
<1>0. /\ generation' = generation /\ workers' = workers /\ run' = run /\ phase' = phase
      /\ lease' = lease /\ retirement' = retirement /\ boot_lock' = boot_lock /\ ledger' = ledger
      /\ k \in Task /\ task[k].pc = "reaping" /\ "evicting" \in Pc
  BY Names, Typed DEF reap_idle
<1>1. ASSUME NEW C \in SUBSET Candidates, NextOf(k, {Victim(c) : c \in C})
      PROVE  KInv'
  BY <1>0, <1>1, VictimsListed, Step_NextOf
<1>2. CASE Goes(k, "evicting")
  <2>1. TaskOK(k)'
    <3>1. CellOK(k)'
      BY <1>2, <1>0, PlaceKept, Known, Names DEF CellOK, Locking
    <3>2. phase # "down"
      BY <1>0 DEF KInv, TaskOK
    <3>. QED
      BY <1>2, <1>0, <3>1, <3>2, PlaceKept, Names DEF TaskOK, TeardownOK
  <2>. QED
    BY <1>2, <1>0, <2>1, PlaceKept, QuietStep, HandsOver, Known DEF Leaves
<1>. QED
  BY <1>1, <1>2 DEF reap_idle

LEMMA Step_boot_slot ==
  ASSUME KInv, Fixed, NEW k \in Cell, boot_slot(k)
  PROVE  KInv'
<1>0. /\ generation' = generation /\ workers' = workers /\ run' = run /\ phase' = phase
      /\ lease' = lease /\ ledger' = ledger /\ k \in Task /\ task[k].pc = "slot"
  BY Names DEF boot_slot
<1>1. CASE phase # "up"
  BY <1>0, <1>1, QuietEnds DEF boot_slot, Leaves
<1>2. CASE phase = "up"
  <2>1. /\ task' = [task EXCEPT ![k].pc = "reaping", ![k].attempt = 1]
        /\ boot_lock' = boot_lock /\ retirement' = retirement
    BY <1>2 DEF boot_slot
  <2>2. task \in [Task -> TaskRec] /\ "reaping" \in Pc
    BY Typed
  <2>3. task'[k].pc = "reaping" /\ task'[k].chat = task[k].chat
    BY <1>0, <2>1, <2>2 DEF TaskRec
  <2>4. task'[k] \in TaskRec
    BY <1>0, <2>1, <2>2 DEF TaskRec
  <2>5. task' \in [Task -> TaskRec] /\ \A u \in Task \ {k} : task'[u] = task[u]
    BY <2>1, <2>2, <2>4
  <2>6. CellOK(k)'
    BY <1>0, <1>2, <2>1, <2>3, Known, Names DEF CellOK, Locking
  <2>7. TaskOK(k)'
    BY <1>0, <1>2, <2>3, <2>4, <2>6, Names DEF TaskOK, TeardownOK
  <2>. QED
    BY <1>0, <2>1, <2>5, <2>7, QuietStep, HandsOver, Known DEF Leaves
<1>. QED
  BY <1>1, <1>2

(* A lease that is gone, and that the task knew to be the one of its chat. *)
LEMMA GoneIsGone ==
  ASSUME KInv, NEW c \in Chat, NEW g, lease[c].gen \in {0, g}, Gone(c, g)
  PROVE  lease[c].gen = 0
BY Known DEF LeaseOK, Gone

LEMMA Step__lease_replaced ==
  ASSUME KInv, Fixed, NEW k \in Cell, _lease_replaced(k)
  PROVE  KInv'
<1>0. /\ generation' = generation /\ workers' = workers /\ run' = run /\ phase' = phase
      /\ lease' = lease /\ ledger' = ledger /\ k \in Task /\ task[k].pc = "replacing"
      /\ Gone(task[k].chat, task[k].gen)
  BY Names DEF _lease_replaced
<1>1. CASE task[k].intent = "stop"
  BY <1>0, <1>1, QuietEnds DEF _lease_replaced, Leaves
<1>2. CASE task[k].intent # "stop"
  <2>1. /\ task' = [task EXCEPT ![k].pc = "slot", ![k].gen = 0]
        /\ boot_lock' = boot_lock /\ retirement' = retirement
    BY <1>2 DEF _lease_replaced
  <2>2. task \in [Task -> TaskRec] /\ "slot" \in Pc
    BY Typed
  <2>3. task'[k].pc = "slot" /\ task'[k].chat = task[k].chat
    BY <1>0, <2>1, <2>2 DEF TaskRec
  <2>4. task'[k] \in TaskRec
    BY <1>0, <2>1, <2>2 DEF TaskRec
  <2>5. task' \in [Task -> TaskRec] /\ \A u \in Task \ {k} : task'[u] = task[u]
    BY <2>1, <2>2, <2>4
  <2>6. lease[task[k].chat].gen = 0
    <3>1. task[k].chat \in Chat /\ lease[task[k].chat].gen \in {0, task[k].gen}
      BY <1>0, Known DEF CellOK, TaskRec
    <3>. QED
      BY <1>0, <3>1, GoneIsGone
  <2>7. CellOK(k)'
    BY <1>0, <2>1, <2>3, <2>6, Known, Names DEF CellOK, Locking
  <2>8. phase # "down"
    BY <1>0 DEF KInv, TaskOK
  <2>9. TaskOK(k)'
    BY <1>0, <2>3, <2>4, <2>7, <2>8, Names DEF TaskOK, TeardownOK
  <2>. QED
    BY <1>0, <2>1, <2>5, <2>9, QuietStep, HandsOver, Known DEF Leaves
<1>. QED
  BY <1>1, <1>2

LEMMA Step_boot_retry ==
  ASSUME KInv, Fixed, NEW k \in Cell, boot_retry(k)
  PROVE  KInv'
<1>0. /\ generation' = generation /\ workers' = workers /\ run' = run /\ phase' = phase
      /\ lease' = lease /\ ledger' = ledger /\ k \in Task /\ task[k].pc = "unbooting"
      /\ Gone(task[k].chat, task[k].gen)
  BY Names DEF boot_retry
<1>1. CASE task[k].intent = "stop" \/ task[k].attempt = 2
  BY <1>0, <1>1, QuietEnds DEF boot_retry, Leaves
<1>2. CASE ~(task[k].intent = "stop" \/ task[k].attempt = 2)
  <2>1. /\ task' = [task EXCEPT ![k].pc = "reaping", ![k].attempt = 2, ![k].gen = 0]
        /\ boot_lock' = boot_lock /\ retirement' = retirement
    BY <1>2 DEF boot_retry
  <2>2. task \in [Task -> TaskRec] /\ "reaping" \in Pc
    BY Typed
  <2>3. task'[k].pc = "reaping" /\ task'[k].chat = task[k].chat
    BY <1>0, <2>1, <2>2 DEF TaskRec
  <2>4. task'[k] \in TaskRec
    BY <1>0, <2>1, <2>2 DEF TaskRec
  <2>5. task' \in [Task -> TaskRec] /\ \A u \in Task \ {k} : task'[u] = task[u]
    BY <2>1, <2>2, <2>4
  <2>6. lease[task[k].chat].gen = 0
    <3>1. task[k].chat \in Chat /\ lease[task[k].chat].gen \in {0, task[k].gen}
      BY <1>0, Known DEF CellOK, TaskRec
    <3>. QED
      BY <1>0, <3>1, GoneIsGone
  <2>7. phase = "up"
    BY <1>0, <1>2, Known DEF CellOK
  <2>8. CellOK(k)'
    BY <1>0, <2>1, <2>3, <2>6, <2>7, Known, Names DEF CellOK, Locking
  <2>9. TaskOK(k)'
    BY <1>0, <2>3, <2>4, <2>7, <2>8, Names DEF TaskOK, TeardownOK
  <2>. QED
    BY <1>0, <2>1, <2>5, <2>9, QuietStep, HandsOver, Known DEF Leaves
<1>. QED
  BY <1>1, <1>2

-----------------------------------------------------------------------------
(* Steps that close a lease, or change its state                           *)

LEMMA ClosedLease ==
  ASSUME KInv, NEW c \in Chat, NEW why \in Reason, close(c, why)
  PROVE  /\ lease' \in [Chat -> LeaseRec]
         /\ \A d \in Chat \ {c} : lease'[d] = lease[d]
         /\ lease'[c].gen = lease[c].gen
         /\ lease[c].closing \/ lease[c].gen = 0 => lease'[c] = lease[c]
         /\ ~lease[c].closing /\ lease[c].gen # 0 =>
              lease'[c].closing /\ lease'[c].state = "stopping" /\ lease'[c].reason = why
<1>. DEFINE l == [lease[c] EXCEPT !.state = "stopping", !.closing = TRUE, !.reason = why]
<1>1. lease \in [Chat -> LeaseRec] /\ lease[c] \in LeaseRec
  BY Typed
<1>2. l \in LeaseRec
  BY <1>1 DEF LeaseRec
<1>3. l.gen = lease[c].gen /\ l.closing /\ l.state = "stopping" /\ l.reason = why
  BY <1>1 DEF LeaseRec
<1>4. lease' = [lease EXCEPT ![c] = IF lease[c].closing \/ lease[c].gen = 0 THEN lease[c] ELSE l]
  BY DEF close
<1>. HIDE DEF l
<1>. QED
  BY <1>1, <1>2, <1>3, <1>4

LEMMA CloseStep ==
  ASSUME KInv, Fixed, NEW t \in Task, NEW c \in Chat, NEW why \in Reason, close(c, why),
         UNCHANGED <<generation, workers, run, phase>>,
         task' \in [Task -> TaskRec], ledger' \in Ledger,
         Hands(boot_lock, boot_lock', t), Hands(retirement, retirement', t),
         \A u \in Task \ {t} : task'[u] = task[u],
         \A k \in Cell \ {t} : ledger'[k] = ledger[k],
         TaskOK(t)', Leaves(t),
         boot_lock[c] \in {t, None} \/ lease[c].state # "starting",
         lease[c].gen # 0 =>
           /\ task'[t].gen = lease[c].gen
           /\ \/ t \in Cell /\ task'[t].chat = c /\ task'[t].pc \in {"replacing", "unbooting", "dying"}
              \/ task'[t].target = c /\ task'[t].pc = "retiring",
         why = "killed" => t \in Cell /\ task'[t].pc = "dying" /\ task'[t].intent = "stop",
         why \in Automatic => task'[t].pc = "retiring" /\ task'[t].reason \in Automatic
  PROVE  KInv'
<1>1. ASSUME NEW d \in Chat \ {c}
      PROVE  LeaseChange(d, {t})
  BY <1>1, ClosedLease, NoWitness DEF LeaseChange
<1>2. CASE lease'[c] = lease[c]
  <2>1. LeaseChange(c, {t})
    BY <1>2, NoWitness DEF LeaseChange
  <2>. QED
    BY <1>1, <2>1, OneStep, ClosedLease
<1>3. CASE lease'[c] # lease[c]
  <2>1. /\ lease[c].gen # 0 /\ lease'[c].gen = lease[c].gen /\ lease'[c].closing
        /\ lease'[c].state = "stopping" /\ lease'[c].reason = why
    BY <1>3, ClosedLease
  <2>2. Moves(c, {t})
    BY <2>1 DEF Moves
  <2>3. Closes(t, c)'
    BY <2>1 DEF Closes
  <2>4. CloserWaits(c)'
    BY <2>1, <2>3 DEF CloserWaits, Killer, Retirer
  <2>5. LeaseChange(c, {t})
    BY <2>1, <2>2, <2>4 DEF LeaseChange
  <2>. QED
    BY <1>1, <2>5, OneStep, ClosedLease
<1>. QED
  BY <1>2, <1>3

LEMMA StateSet ==
  ASSUME KInv, NEW c \in Chat, NEW s \in {"ready", "busy", "stopping"},
         lease' = [lease EXCEPT ![c].state = s]
  PROVE  /\ lease' \in [Chat -> LeaseRec]
         /\ \A d \in Chat \ {c} : lease'[d] = lease[d]
         /\ lease'[c].gen = lease[c].gen /\ lease'[c].closing = lease[c].closing
         /\ lease'[c].reason = lease[c].reason /\ lease'[c].state = s
         /\ lease'[c].dead = lease[c].dead
<1>1. lease \in [Chat -> LeaseRec]
  BY Typed
<1>2. lease'[c] \in LeaseRec
  BY <1>1 DEF LeaseRec
<1>. QED
  BY <1>1, <1>2 DEF LeaseRec

(* A step that sets the state of a lease that has started, or that it holds. *)
LEMMA StateStep ==
  ASSUME KInv, NEW t \in Task, NEW c \in Chat, NEW s \in {"ready", "busy", "stopping"},
         State(c, s), lease[c].gen # 0,
         boot_lock[c] \in {t, None} \/ lease[c].state # "starting", Leaves(t)
  PROVE  lease' \in [Chat -> LeaseRec] /\ \A d \in Chat : LeaseChange(d, {t})
<1>1. lease' = [lease EXCEPT ![c].state = s]
  BY DEF State
<1>2. Moves(c, {t})
  BY <1>1, StateSet DEF Moves
<1>3. ~lease'[c].closing => lease'[c].reason = "none"
  BY <1>1, StateSet, Known DEF LeaseOK
<1>4. LeaseChange(c, {t})
  BY <1>1, <1>2, <1>3, StateSet, NoWitness DEF LeaseChange
<1>5. ASSUME NEW d \in Chat \ {c}
      PROVE  LeaseChange(d, {t})
  BY <1>1, <1>5, StateSet, NoWitness DEF LeaseChange
<1>. QED
  BY <1>1, <1>4, <1>5, StateSet

-----------------------------------------------------------------------------
(* The boot lock: leases found, replaced, booted                           *)

LEMMA AdmittedOK ==
  ASSUME KInv, NEW k \in Cell, NEW c \in Chat, c = task[k].chat, Admitted(k, c),
         generation' = generation, run' = run, phase' = phase, phase # "down",
         lease[c].gen # 0, lease'[c].gen = lease[c].gen, lease'[c].state # "starting"
  PROVE  /\ task' \in [Task -> TaskRec] /\ \A u \in Task \ {k} : task'[u] = task[u]
         /\ ledger' \in Ledger /\ \A j \in Cell \ {k} : ledger'[j] = ledger[j]
         /\ Hands(boot_lock, boot_lock', k) /\ TaskOK(k)'
<1>1. /\ task' = [task EXCEPT ![k].pc = "queued", ![k].gen = lease[c].gen, ![k].attempt = 0]
      /\ task \in [Task -> TaskRec] /\ "queued" \in Pc /\ k \in Task /\ lease[c].gen \in Nat
  BY Typed, Known, Names DEF Admitted, LeaseRec
<1>2. /\ task'[k].pc = "queued" /\ task'[k].chat = c /\ task'[k].gen = lease[c].gen
  BY <1>1 DEF TaskRec
<1>3. task'[k] \in TaskRec
  BY ONLY <1>1 DEF TaskRec
<1>4. task' \in [Task -> TaskRec] /\ \A u \in Task \ {k} : task'[u] = task[u]
  BY <1>1, <1>3
<1>5. /\ ledger' \in Ledger /\ \A j \in Cell \ {k} : ledger'[j] = ledger[j]
      /\ Hands(boot_lock, boot_lock', k)
  BY <1>1, Known, HandsOver DEF Admitted, Ledger
<1>6. lease[c].gen \in 1..generation[c] /\ run[c]
  <2>1. lease[c].gen \in Nat /\ generation[c] \in Nat /\ lease[c].gen <= generation[c]
    BY <1>1, Known DEF LeaseOK
  <2>2. run[c]
    BY Known, Names DEF CellOK
  <2>. QED
    BY <2>1, <2>2
<1>7. CellOK(k)'
  BY <1>2, <1>6, Names DEF CellOK, Locking
<1>8. TaskOK(k)'
  BY <1>1, <1>2, <1>3, <1>7, Names DEF TaskOK, TeardownOK
<1>. QED
  BY <1>4, <1>5, <1>8

LEMMA Step__lease ==
  ASSUME KInv, Fixed, NEW k \in Cell, _lease(k)
  PROVE  KInv'
<1>. DEFINE c == task[k].chat
            l == lease[c]
<1>0. /\ generation' = generation /\ workers' = workers /\ run' = run /\ phase' = phase
      /\ k \in Task /\ task[k].pc = "locking" /\ boot_lock[c] = None
  BY Names DEF _lease, Free
<1>1. c \in Chat /\ Leaves(k) /\ phase # "down" /\ ledger[k] # "admitted" /\ run[c]
  BY <1>0, Known DEF Leaves, CellOK, TaskRec, KInv, TaskOK
<1>2. CASE phase # "up" /\ Ends(k) /\ UNCHANGED <<lease, ledger>>
  BY <1>0, <1>1, <1>2, QuietEnds
<1>3. CASE /\ phase = "up" /\ l.gen # 0 /\ ~l.dead /\ l.state \in {"ready", "busy"}
           /\ Admitted(k, c) /\ UNCHANGED <<lease, retirement>>
  <2>1. lease' = lease /\ retirement' = retirement
    BY <1>3
  <2>2. /\ task' \in [Task -> TaskRec] /\ \A u \in Task \ {k} : task'[u] = task[u]
        /\ ledger' \in Ledger /\ \A j \in Cell \ {k} : ledger'[j] = ledger[j]
        /\ Hands(boot_lock, boot_lock', k) /\ TaskOK(k)'
    BY <1>0, <1>1, <1>3, <2>1, AdmittedOK
  <2>. QED
    BY <1>0, <1>1, <2>1, <2>2, QuietStep, HandsOver, Known
<1>4. ASSUME phase = "up", boot_lock' = [boot_lock EXCEPT ![c] = k],
             UNCHANGED <<retirement, ledger>>
      PROVE  /\ Hands(boot_lock, boot_lock', k) /\ Hands(retirement, retirement', k)
             /\ boot_lock'[c] = k /\ ledger' \in Ledger /\ ledger' = ledger
  BY <1>0, <1>1, <1>4, HandsOver, Known DEF Holders
<1>5. ASSUME phase = "up", boot_lock' = [boot_lock EXCEPT ![c] = k],
             UNCHANGED <<retirement, ledger>>, l.gen = 0, Goes(k, "slot"), UNCHANGED lease
      PROVE  KInv'
  <2>1. lease' = lease /\ "slot" \in Pc
    BY <1>5, Typed
  <2>2. CellOK(k)'
    BY <1>0, <1>1, <1>4, <1>5, <2>1, PlaceKept, Names DEF CellOK, Locking
  <2>3. TaskOK(k)'
    BY <1>0, <1>5, <2>1, <2>2, PlaceKept, Names DEF TaskOK, TeardownOK
  <2>. QED
    BY <1>0, <1>1, <1>4, <1>5, <2>1, <2>3, PlaceKept, QuietStep
<1>6. ASSUME phase = "up", boot_lock' = [boot_lock EXCEPT ![c] = k],
             UNCHANGED <<retirement, ledger>>, l.gen # 0,
             NEW p \in {"draining", "replacing"},
             task' = [task EXCEPT ![k].pc = p, ![k].gen = l.gen]
      PROVE  /\ task' \in [Task -> TaskRec] /\ \A u \in Task \ {k} : task'[u] = task[u]
             /\ task'[k].pc = p /\ task'[k].chat = c /\ task'[k].gen = l.gen
             /\ task'[k] \in TaskRec
             /\ lease'[c].gen = l.gen => TaskOK(k)'
  <2>0. task' = [task EXCEPT ![k].pc = p, ![k].gen = l.gen] /\ k \in Task
    BY <1>0, <1>6
  <2>1. task \in [Task -> TaskRec] /\ p \in Pc /\ l.gen \in Nat
    BY <1>1, Typed, Known DEF LeaseRec
  <2>2. task'[k].pc = p /\ task'[k].chat = c /\ task'[k].gen = l.gen
    BY <2>0, <2>1 DEF TaskRec
  <2>3. task'[k] \in TaskRec
    <3>. HIDE DEF l
    <3>. QED
      BY <2>0, <2>1 DEF TaskRec
  <2>4. task' \in [Task -> TaskRec] /\ \A u \in Task \ {k} : task'[u] = task[u]
    BY <1>6, <2>1, <2>3
  <2>5. lease'[c].gen = l.gen => CellOK(k)'
    BY <1>0, <1>1, <1>4, <1>6, <2>2, Names DEF CellOK, Locking
  <2>6. lease'[c].gen = l.gen => TaskOK(k)'
    BY <1>0, <1>6, <2>2, <2>3, <2>5, Names DEF TaskOK, TeardownOK
  <2>. QED
    BY <2>2, <2>3, <2>4, <2>6
<1>7. ASSUME phase = "up", boot_lock' = [boot_lock EXCEPT ![c] = k],
             UNCHANGED <<retirement, ledger>>, l.gen # 0,
             task' = [task EXCEPT ![k].pc = "draining", ![k].gen = l.gen], UNCHANGED lease
      PROVE  KInv'
  <2>1. lease' = lease
    BY <1>7
  <2>. QED
    BY <1>0, <1>1, <1>4, <1>6, <1>7, <2>1, QuietStep
<1>8. ASSUME phase = "up", boot_lock' = [boot_lock EXCEPT ![c] = k],
             UNCHANGED <<retirement, ledger>>, l.gen # 0,
             task' = [task EXCEPT ![k].pc = "replacing", ![k].gen = l.gen], close(c, "replaced")
      PROVE  KInv'
  <2>1. "replaced" \in Reason /\ lease'[c].gen = l.gen /\ "replaced" \notin Automatic
    BY <1>1, <1>8, Typed, ClosedLease
  <2>. QED
    BY <1>0, <1>1, <1>4, <1>6, <1>8, <2>1, CloseStep
<1>9. ASSUME phase = "up", boot_lock' = [boot_lock EXCEPT ![c] = k],
             CASE l.gen = 0 -> Goes(k, "slot") /\ UNCHANGED lease
               [] l.gen # 0 /\ l.state = "busy" /\ ~l.dead ->
                    /\ task' = [task EXCEPT ![k].pc = "draining", ![k].gen = l.gen]
                    /\ UNCHANGED lease
               [] OTHER ->
                    /\ task' = [task EXCEPT ![k].pc = "replacing", ![k].gen = l.gen]
                    /\ close(c, "replaced"),
             UNCHANGED <<retirement, ledger>>
      PROVE  KInv'
  <2>1. CASE l.gen = 0
    BY <1>5, <1>9, <2>1
  <2>2. CASE l.gen # 0 /\ l.state = "busy" /\ ~l.dead
    BY <1>7, <1>9, <2>2
  <2>3. CASE l.gen # 0 /\ ~(l.state = "busy" /\ ~l.dead)
    BY <1>8, <1>9, <2>3
  <2>. QED
    BY <2>1, <2>2, <2>3
<1>. QED
  BY <1>2, <1>3, <1>9 DEF _lease

LEMMA Step__lease_drains ==
  ASSUME KInv, Fixed, NEW k \in Cell, _lease_drains(k)
  PROVE  KInv'
<1>. DEFINE c == task[k].chat
<1>0. /\ generation' = generation /\ workers' = workers /\ run' = run /\ phase' = phase
      /\ ledger' = ledger /\ k \in Task /\ task[k].pc = "draining"
  BY Names DEF _lease_drains
<1>1. /\ c \in Chat /\ Leaves(k) /\ phase # "down" /\ boot_lock[c] = k
      /\ task[k].gen # 0 /\ lease[c].gen \in {0, task[k].gen}
      /\ run[c] /\ ledger[k] # "admitted"
  BY <1>0, Known DEF Leaves, CellOK, TaskRec, KInv, TaskOK, Locking
<1>2. CASE phase # "up"
  BY <1>0, <1>1, <1>2, QuietEnds DEF _lease_drains
<1>3. CASE phase = "up"
  <2>1. /\ Goes(k, "replacing") /\ boot_lock' = boot_lock /\ retirement' = retirement
        /\ IF Gone(c, task[k].gen) THEN UNCHANGED lease ELSE close(c, "replaced")
    BY <1>3 DEF _lease_drains
  <2>2. "replacing" \in Pc /\ "replaced" \in Reason
    BY Typed
  <2>3. lease'[c].gen = lease[c].gen
    BY <1>1, <2>1, <2>2, ClosedLease
  <2>4. CellOK(k)'
    BY <1>0, <1>1, <1>3, <2>1, <2>2, <2>3, PlaceKept, Names DEF CellOK, Locking
  <2>5. TaskOK(k)'
    BY <1>0, <1>3, <2>1, <2>2, <2>4, PlaceKept, Names DEF TaskOK, TeardownOK
  <2>6. /\ task' \in [Task -> TaskRec] /\ \A u \in Task \ {k} : task'[u] = task[u]
        /\ task'[k].pc = "replacing" /\ task'[k].chat = c /\ task'[k].gen = task[k].gen
        /\ ledger' \in Ledger
        /\ Hands(boot_lock, boot_lock', k) /\ Hands(retirement, retirement', k)
    BY <1>0, <2>1, <2>2, PlaceKept, HandsOver, Known
  <2>7. CASE Gone(c, task[k].gen)
    <3>1. lease' = lease
      BY <2>1, <2>7
    <3>. QED
      BY <1>0, <1>1, <2>5, <2>6, <3>1, QuietStep
  <2>8. CASE ~Gone(c, task[k].gen)
    <3>1. close(c, "replaced")
      BY <2>1, <2>8
    <3>. QED
      BY <1>0, <1>1, <2>2, <2>5, <2>6, <3>1, CloseStep
  <2>. QED
    BY <2>7, <2>8
<1>. QED
  BY <1>2, <1>3

LEMMA Step_start_succeeds ==
  ASSUME KInv, Fixed, NEW k \in Cell, start_succeeds(k)
  PROVE  KInv'
<1>. DEFINE c == task[k].chat
<1>0. /\ generation' = generation /\ workers' = workers /\ run' = run /\ phase' = phase
      /\ retirement' = retirement /\ k \in Task /\ task[k].pc = "booting"
      /\ State(c, "ready") /\ Admitted(k, c)
  BY Names DEF start_succeeds, State
<1>1. /\ c \in Chat /\ Leaves(k) /\ phase # "down" /\ boot_lock[c] = k /\ lease[c].gen # 0
  BY <1>0, Known DEF Leaves, CellOK, TaskRec, KInv, TaskOK, Locking
<1>2. lease'[c].gen = lease[c].gen /\ lease'[c].state # "starting"
  BY <1>0, <1>1, StateSet DEF State
<1>3. /\ task' \in [Task -> TaskRec] /\ \A u \in Task \ {k} : task'[u] = task[u]
      /\ ledger' \in Ledger /\ \A j \in Cell \ {k} : ledger'[j] = ledger[j]
      /\ Hands(boot_lock, boot_lock', k) /\ TaskOK(k)'
  BY <1>0, <1>1, <1>2, AdmittedOK
<1>4. lease' \in [Chat -> LeaseRec] /\ \A d \in Chat : LeaseChange(d, {k})
  BY <1>0, <1>1, StateStep
<1>5. Hands(retirement, retirement', k)
  BY <1>0, HandsOver, Known
<1>. QED
  BY <1>0, <1>3, <1>4, <1>5, OneStep

LEMMA Step_start_fails ==
  ASSUME KInv, Fixed, NEW k \in Cell, start_fails(k)
  PROVE  KInv'
<1>. DEFINE c == task[k].chat
<1>0. /\ generation' = generation /\ workers' = workers /\ run' = run /\ phase' = phase
      /\ retirement' = retirement /\ boot_lock' = boot_lock /\ ledger' = ledger
      /\ k \in Task /\ task[k].pc = "booting" /\ close(c, "boot_failed")
      /\ "unbooting" \in Pc /\ "boot_failed" \in Reason /\ "boot_failed" \notin Automatic
  BY Names, Typed DEF start_fails, fences
<1>1. /\ c \in Chat /\ Leaves(k) /\ phase # "down" /\ boot_lock[c] = k /\ lease[c].gen # 0
      /\ lease[c].gen \in Nat /\ run[c] /\ ledger[k] # "admitted"
      /\ phase # "up" => task[k].intent = "stop"
  BY <1>0, Known DEF Leaves, CellOK, TaskRec, LeaseRec, KInv, TaskOK, Locking
<1>2. /\ task' = [task EXCEPT ![k].pc = "unbooting", ![k].gen = lease[c].gen]
      /\ task \in [Task -> TaskRec]
  BY Typed DEF start_fails
<1>3. /\ task'[k].pc = "unbooting" /\ task'[k].chat = c /\ task'[k].gen = lease[c].gen
      /\ task'[k].intent = task[k].intent
  BY <1>0, <1>2 DEF TaskRec
<1>4. task'[k] \in TaskRec
  <2>1. k \in Task /\ "unbooting" \in Pc /\ lease[c].gen \in Nat
    BY <1>0, <1>1
  <2>. QED
    BY ONLY <1>2, <2>1 DEF TaskRec
<1>5. task' \in [Task -> TaskRec] /\ \A u \in Task \ {k} : task'[u] = task[u]
  BY <1>2, <1>4
<1>6. lease'[c].gen = lease[c].gen
  BY <1>0, <1>1, ClosedLease
<1>7. CellOK(k)'
  BY <1>0, <1>1, <1>3, <1>6, Names DEF CellOK, Locking
<1>8. TaskOK(k)'
  BY <1>0, <1>1, <1>3, <1>4, <1>7, Names DEF TaskOK, TeardownOK
<1>9. /\ Hands(boot_lock, boot_lock', k) /\ Hands(retirement, retirement', k)
      /\ ledger' \in Ledger
  BY <1>0, HandsOver, Known
<1>. QED
  BY <1>0, <1>1, <1>3, <1>5, <1>8, <1>9, CloseStep

(* The step that takes a place: the leases were counted in the same step. *)
LEMMA Installed ==
  ASSUME KInv, Fixed, NEW k \in Cell, task[k].pc = "evicting", Cardinality(Live) < config.max_live_kernels,
         Installs(k), UNCHANGED <<fences, ledger, phase>>
  PROVE  KInv'
<1>. DEFINE c == task[k].chat
            g == generation[c] + 1
<1>0. /\ run' = run /\ retirement' = retirement /\ boot_lock' = boot_lock /\ ledger' = ledger
      /\ phase' = phase /\ k \in Task /\ "booting" \in Pc /\ Goes(k, "booting")
  BY Names, Typed DEF fences, Installs
<1>1. /\ c \in Chat /\ Leaves(k) /\ phase = "up" /\ boot_lock[c] = k /\ lease[c].gen = 0
      /\ run[c] /\ ledger[k] # "admitted"
  BY Known DEF Leaves, CellOK, TaskRec, KInv, TaskOK, Locking
<1>2. /\ generation \in [Chat -> Nat] /\ workers \in [Chat -> SUBSET Nat]
      /\ lease \in [Chat -> LeaseRec] /\ g \in Nat /\ g > generation[c] /\ g # 0
      /\ workers[c] = {}
  BY <1>1, Known DEF KInv, Maps, LeaseOK
<1>3. /\ NewLease(g) \in LeaseRec /\ NewLease(g).gen = g /\ NewLease(g).state = "starting"
      /\ ~NewLease(g).closing /\ NewLease(g).reason = "none"
  <2>. HIDE DEF g
  <2>. QED
    BY <1>2 DEF NewLease, NoLease, LeaseRec, Reason
<1>4. /\ generation' = [generation EXCEPT ![c] = g]
      /\ workers' = [workers EXCEPT ![c] = workers[c] \cup {g}]
      /\ lease' = [lease EXCEPT ![c] = NewLease(g)]
  BY DEF Installs
<1>. HIDE DEF g
<1>5. /\ lease'[c] = NewLease(g) /\ generation'[c] = g /\ workers'[c] = {g}
      /\ \A d \in Chat \ {c} : /\ lease'[d] = lease[d] /\ generation'[d] = generation[d]
                               /\ workers'[d] = workers[d]
  BY <1>1, <1>2, <1>4
<1>6. /\ lease' \in [Chat -> LeaseRec] /\ generation' \in [Chat -> Nat]
      /\ workers' \in [Chat -> SUBSET Nat]
  BY <1>1, <1>2, <1>3, <1>4
<1>7. Maps'
  BY <1>0, <1>6, PlaceKept DEF KInv, Maps
<1>8. \A d \in Chat : Moves(d, {k})
  BY <1>1, <1>2, <1>3, <1>5 DEF Moves
<1>9. \A u \in Task \ {k} : SameTask(u)
  BY <1>0, PlaceKept, Known, Names DEF SameTask
<1>10. \A u \in Task \ {k} : TaskOK(u)'
  <2>1. Locks({k})
    BY <1>0 DEF Locks
  <2>2. \A d \in Chat : RunMoves(d) /\ generation'[d] \in Nat /\ generation'[d] >= generation[d]
    BY <1>0, <1>2, <1>5 DEF RunMoves
  <2>3. ASSUME NEW u \in Task \ {k}
        PROVE  PhaseMoves(u)
    BY <1>0 DEF PhaseMoves
  <2>. QED
    BY <1>8, <1>9, <2>1, <2>2, <2>3, Kept
<1>11. TaskOK(k)'
  <2>1. CellOK(k)'
    BY <1>0, <1>1, <1>2, <1>3, <1>5, PlaceKept, Names DEF CellOK, Locking
  <2>. QED
    BY <1>0, <1>1, <2>1, PlaceKept, Names DEF TaskOK, TeardownOK
<1>12. ASSUME NEW d \in Chat
       PROVE  LeaseOK(d)' /\ CloserWaits(d)'
  <2>1. CASE d = c
    <3>0. /\ lease'[d] \in LeaseRec /\ lease'[d].gen = g /\ generation'[d] = g
          /\ workers'[d] = {g} /\ lease'[d].reason = "none" /\ phase' = "up"
          /\ g # 0 /\ g \in Nat
      BY <1>0, <1>1, <1>2, <1>3, <1>5, <2>1
    <3>1. LeaseOK(d)'
      BY <3>0 DEF LeaseOK
    <3>2. CloserWaits(d)'
      BY <1>3, <1>5, <2>1 DEF CloserWaits
    <3>. QED
      BY <3>1, <3>2
  <2>2. CASE d # c
    <3>1. lease'[d] = lease[d] /\ generation'[d] = generation[d] /\ workers'[d] = workers[d]
      BY <1>5, <2>2
    <3>2. LeaseOK(d)'
      BY <1>0, <3>1, Known DEF LeaseOK
    <3>3. lease[d].closing => \A u \in {k} : ~Closes(u, d)
      BY <1>0, <1>1, NoWitness
    <3>4. CloserWaits(d)'
      BY <1>9, <3>1, <3>3, WaitsOn
    <3>. QED
      BY <3>2, <3>4
  <2>. QED
    BY <2>1, <2>2
<1>13. WithinCapacity'
  <2>1. Live' = Live \cup {c} /\ c \notin Live
    <3>1. \A d \in Chat : lease'[d].gen # 0 <=> d = c \/ lease[d].gen # 0
      BY <1>2, <1>3, <1>5
    <3>. QED
      BY <1>1, <3>1 DEF Live
  <2>2. IsFiniteSet(Live)
    <3>1. Live \subseteq Chat \cup Cell \cup Op
      BY DEF Live
    <3>. QED
      BY <3>1, FS_Subset, KernelsAssumption
  <2>3. Cardinality(Live') = Cardinality(Live) + 1
    BY <2>1, <2>2, FS_AddElement
  <2>4. Cardinality(Live) \in Nat /\ config.max_live_kernels \in Nat
    BY <2>2, FS_CardinalityType, KernelsAssumption DEF Fixed
  <2>. QED
    BY <2>3, <2>4 DEF WithinCapacity, Fixed
<1>. QED
  BY <1>7, <1>10, <1>11, <1>12, <1>13 DEF KInv

LEMMA Step__evict_for_capacity ==
  ASSUME KInv, Fixed, NEW k \in Cell, _evict_for_capacity(k)
  PROVE  KInv'
<1>0. /\ run' = run /\ ledger' = ledger /\ phase' = phase /\ task[k].pc = "evicting"
  BY DEF _evict_for_capacity
<1>1. CASE /\ Cardinality(Live) < config.max_live_kernels
           /\ Installs(k) /\ UNCHANGED <<boot_lock, retirement, ahead>>
  BY <1>0, <1>1, Installed DEF fences, Fixed
<1>2. ASSUME NEW d \in Candidates, NextOf(k, {Victim(d)}),
             UNCHANGED <<generation, workers, lease, boot_lock, retirement>>
      PROVE  KInv'
  <2>1. {Victim(c) : c \in {d}} \in Victims
    BY VictimsListed
  <2>2. {Victim(c) : c \in {d}} = {Victim(d)}
    OBVIOUS
  <2>. QED
    BY <1>0, <1>2, <2>1, <2>2, Step_NextOf
<1>3. CASE Ends(k) /\ UNCHANGED <<generation, workers, lease>>
  BY <1>0, <1>3, QuietEnds DEF Leaves
<1>. QED
  BY <1>1, <1>2, <1>3 DEF _evict_for_capacity

-----------------------------------------------------------------------------
(* Teardowns by a boot, an operator, a sweep or shutdown                   *)

LEMMA DoneTask ==
  ASSUME KInv, NEW t \in Task, task'[t] = Done, phase' = phase,
         task[t].pc \notin {"idle", "done", "queued"} \cup OnWorker,
         ledger' = ledger, t \in Chat => lease'[t].gen = 0
  PROVE  TaskOK(t)'
<1>1. CASE t \in Cell \cup Op
  <2>1. t \in Cell => ledger'[t] # "admitted"
    BY DEF KInv, TaskOK, CellOK
  <2>. QED
    BY <1>1, <2>1, DoneOK
<1>2. CASE t \in Chat
  <2>1. phase' \notin {"up", "down"}
    BY <1>2 DEF KInv, TaskOK, CloserOK
  <2>. QED
    BY <1>2, <2>1, DoneRec, Names DEF TaskOK, CloserOK, TeardownOK
<1>. QED
  BY <1>1, <1>2 DEF Task

(* After the teardown, done or refused. *)
LEMMA Returned ==
  ASSUME KInv, Fixed, NEW t \in Task, Returns(t),
         UNCHANGED <<generation, workers, lease, run, ledger, phase>>,
         task[t].pc \in {"victim", "retiring"}, Leaves(t),
         task[t].pc = "victim" => boot_lock[task[t].target] = None,
         t \in Chat => lease[t].gen = 0
  PROVE  KInv'
<1>. DEFINE d == task[t].target
<1>0. /\ generation' = generation /\ workers' = workers /\ run' = run /\ phase' = phase
      /\ lease' = lease /\ ledger' = ledger /\ ledger' \in Ledger
      /\ retirement' = Without(retirement, t) /\ Hands(retirement, retirement', t)
      /\ task \in [Task -> TaskRec] /\ boot_lock \in Holders
  BY HandsOver, Known, Typed DEF Returns
<1>1. /\ d \in Chat /\ boot_lock[d] \in {t, None}
      /\ task[t].pc = "retiring" => task[t].target # task[t].chat
      /\ phase # "down"
  BY Known DEF TeardownOK, TaskRec, KInv, TaskOK
<1>2. CASE t \in Cell /\ task[t].intent # "stop"
  <2>1. boot_lock' = [boot_lock EXCEPT ![d] = None]
    BY <1>2 DEF Returns
  <2>2. Hands(boot_lock, boot_lock', t)
    BY <1>0, <1>1, <2>1, HandsOver
  <2>3. /\ CellOK(t) /\ phase = "up" /\ boot_lock[task[t].chat] = t /\ task[t].chat \in Chat
    BY <1>2, Known DEF CellOK, Locking, TaskRec
  <2>4. boot_lock'[task[t].chat] = t
    BY <1>0, <1>1, <1>2, <2>1, <2>3, Names DEF Holders
  <2>5. CASE NextOf(t, task[t].victims)
    <3>1. task[t].victims \in Victims
      BY <1>0 DEF TaskRec, Victims
    <3>2. TaskOK(t)'
      BY <1>0, <1>1, <1>2, <2>3, <2>4, <2>5, <3>1, SelectedOK
    <3>. QED
      BY <1>0, <2>2, <2>5, <3>1, <3>2, Selected, QuietStep
  <2>6. CASE ~NextOf(t, task[t].victims)
    <3>. DEFINE r == [task[t] EXCEPT !.pc = "evicting", !.target = None, !.gen = 0,
                                     !.reason = "none"]
    <3>1. task' = [task EXCEPT ![t] = r]
      BY <1>2, <2>6 DEF Returns, GoesOn
    <3>2. r \in TaskRec
      <4>1. task[t] \in TaskRec /\ "evicting" \in Pc /\ "none" \in Reason
        BY <1>0, Typed
      <4>. QED
        BY <4>1 DEF TaskRec
    <3>3. r.pc = "evicting" /\ r.chat = task[t].chat
      BY <1>0 DEF TaskRec
    <3>. HIDE DEF r
    <3>4. /\ task' \in [Task -> TaskRec] /\ \A u \in Task \ {t} : task'[u] = task[u]
          /\ task'[t] = r
      BY <1>0, <3>1, <3>2
    <3>5. CellOK(t)'
      BY <1>0, <1>2, <2>3, <2>4, <3>3, <3>4, Names DEF CellOK, Locking
    <3>6. TaskOK(t)'
      BY <1>0, <1>2, <2>3, <3>2, <3>3, <3>4, <3>5, Names DEF TaskOK, TeardownOK
    <3>. QED
      BY <1>0, <2>2, <3>4, <3>6, QuietStep
  <2>. QED
    BY <2>5, <2>6
<1>3. CASE ~(t \in Cell /\ task[t].intent # "stop")
  <2>1. boot_lock' = Without(boot_lock, t) /\ Hands(boot_lock, boot_lock', t)
    BY <1>0, <1>3, HandsOver DEF Returns
  <2>2. CASE task[t].intent # "stop" /\ task[t].victims # {} /\ NextOf(t, task[t].victims)
    <3>1. t \in Op /\ task[t].victims \in Victims
      <4>1. t \notin Chat
        BY <2>2 DEF KInv, TaskOK, CloserOK
      <4>. QED
        BY <1>0, <1>3, <2>2, <4>1 DEF Task, TaskRec, Victims
    <3>2. t \notin Cell
      BY <3>1, Names
    <3>3. TaskOK(t)'
      BY <1>0, <1>1, <2>2, <3>1, <3>2, SelectedOK
    <3>. QED
      BY <1>0, <2>1, <2>2, <3>1, <3>3, Selected, QuietStep
  <2>3. CASE task' = [task EXCEPT ![t] = Done]
    <3>1. /\ task' \in [Task -> TaskRec] /\ \A u \in Task \ {t} : task'[u] = task[u]
          /\ task'[t] = Done
      BY <1>0, <2>3, DoneRec
    <3>2. TaskOK(t)'
      BY <1>0, <3>1, DoneTask
    <3>. QED
      BY <1>0, <2>1, <3>1, <3>2, QuietStep
  <2>. QED
    BY <1>3, <2>2, <2>3 DEF Returns, GoesOn
<1>. QED
  BY <1>2, <1>3

LEMMA Step__close_lease_serialized ==
  ASSUME KInv, Fixed, NEW t \in Task, _close_lease_serialized(t)
  PROVE  KInv'
<1>. DEFINE c == task[t].target
<1>0. /\ generation' = generation /\ workers' = workers /\ run' = run /\ phase' = phase
      /\ lease' = lease /\ ledger' = ledger /\ task[t].pc = "victim" /\ boot_lock[c] = None
  BY DEF _close_lease_serialized, Free
<1>1. /\ c \in Chat /\ Leaves(t) /\ phase # "down" /\ task[t].gen # 0
      /\ boot_lock \in Holders /\ retirement \in Holders /\ ledger' \in Ledger
      /\ task[t] \in TaskRec /\ TeardownOK(t)
  BY <1>0, Known DEF TeardownOK, TaskRec, KInv, TaskOK, Leaves
<1>2. CASE /\ lease[c].gen # task[t].gen \/ (task[t].reason \in Automatic /\ run[c])
           /\ Returns(t)
  <2>1. t \in Chat => lease[t].gen = 0
    BY <1>0, <1>2 DEF KInv, TaskOK, CloserOK
  <2>. QED
    BY <1>0, <1>1, <1>2, <2>1, Returned
<1>3. CASE /\ lease[c].gen = task[t].gen
           /\ claim_kernel_retirement(t)
           /\ boot_lock' = [boot_lock EXCEPT ![c] = t]
           /\ Goes(t, "checkpoint")
  <2>1. /\ "checkpoint" \in Pc /\ boot_lock'[c] = t
        /\ \A d \in Chat : boot_lock[d] # None => boot_lock'[d] = boot_lock[d]
        /\ Hands(boot_lock, boot_lock', t)
    BY <1>0, <1>1, <1>3, HandsOver, Typed DEF Holders
  <2>2. /\ Hands(retirement, retirement', t)
        /\ task[t].reason \in Automatic => retirement'[c] = t /\ ~run[c]
    <3>1. /\ task[t].reason \in Automatic => ~run[c] /\ retirement[c] = None
          /\ retirement' = [retirement EXCEPT ![c] =
                              IF task[t].reason \in Automatic THEN t ELSE retirement[c]]
      BY <1>3 DEF claim_kernel_retirement
    <3>2. CASE task[t].reason \in Automatic
      BY <1>1, <3>1, <3>2, HandsOver DEF Holders
    <3>3. CASE task[t].reason \notin Automatic
      <4>1. retirement' = retirement
        BY <1>1, <3>1, <3>3 DEF Holders
      <4>. QED
        BY <1>1, <3>3, <4>1, HandsOver
    <3>. QED
      BY <3>2, <3>3
  <2>3. task[t].chat # c
    <3>1. CASE t \in Cell
      BY <1>0, <1>1, <1>3, <3>1, Known DEF CellOK
    <3>2. CASE t \in Op \cup Chat
      BY <1>1, <3>2, Names DEF KInv, TaskOK
    <3>. QED
      BY <3>1, <3>2 DEF Task
  <2>4. t \in Cell => CellOK(t)'
    <3>1. ASSUME t \in Cell
          PROVE  /\ CellOK(t) /\ boot_lock'[task[t].chat] = t /\ phase = "up"
                 /\ task[t].chat \in Chat
      BY <1>0, <1>1, <2>1, <3>1, Known, Names DEF CellOK, Locking, TaskRec
    <3>. QED
      BY <1>0, <1>3, <2>1, <3>1, PlaceKept, Names DEF CellOK, Locking
  <2>5. TeardownOK(t)'
    BY <1>0, <1>1, <1>3, <2>1, <2>2, <2>3, PlaceKept DEF TeardownOK
  <2>6. t \in Chat => CloserOK(t)'
    <3>1. t \in Chat => CloserOK(t)
      BY DEF KInv, TaskOK
    <3>. QED
      BY <1>0, <1>3, <2>1, <3>1, PlaceKept DEF CloserOK
  <2>7. TaskOK(t)'
    <3>1. t \in Op \cup Chat => task[t].chat = None
      BY DEF KInv, TaskOK
    <3>. QED
      BY <1>0, <1>1, <1>3, <2>1, <2>4, <2>5, <2>6, <3>1, PlaceKept DEF TaskOK
  <2>. QED
    BY <1>0, <1>1, <1>3, <2>1, <2>2, <2>7, PlaceKept, QuietStep
<1>. QED
  BY <1>2, <1>3 DEF _close_lease_serialized

LEMMA Step_close_lease_with_checkpoint ==
  ASSUME KInv, Fixed, NEW t \in Task, close_lease_with_checkpoint(t)
  PROVE  KInv'
<1>. DEFINE c == task[t].target
<1>0. /\ generation' = generation /\ workers' = workers /\ run' = run /\ phase' = phase
      /\ ledger' = ledger /\ boot_lock' = boot_lock /\ retirement' = retirement
      /\ task[t].pc = "checkpoint" /\ Goes(t, "retiring") /\ close(c, task[t].reason)
      /\ "retiring" \in Pc
  BY Typed DEF close_lease_with_checkpoint, fences
<1>1. /\ c \in Chat /\ Leaves(t) /\ phase # "down" /\ boot_lock[c] = t
      /\ lease[c].gen \in {0, task[t].gen} /\ task[t].chat # c
      /\ task[t].reason \in Reason /\ task[t].reason # "killed"
      /\ TeardownOK(t) /\ task[t] \in TaskRec
  BY <1>0, Known DEF TeardownOK, TaskRec, KInv, TaskOK, Leaves
<1>2. /\ lease'[c].gen = lease[c].gen /\ \A d \in Chat \ {c} : lease'[d] = lease[d]
  BY <1>0, <1>1, ClosedLease
<1>3. t \in Cell => CellOK(t)'
  <2>1. ASSUME t \in Cell
        PROVE  /\ CellOK(t) /\ phase = "up" /\ task[t].chat \in Chat
               /\ lease'[task[t].chat] = lease[task[t].chat]
    BY <1>0, <1>1, <1>2, <2>1, Known DEF CellOK, TaskRec
  <2>. QED
    BY <1>0, <2>1, PlaceKept, Names DEF CellOK, Locking
<1>4. TeardownOK(t)'
  BY <1>0, <1>1, <1>2, PlaceKept DEF TeardownOK
<1>5. t \in Chat => CloserOK(t)'
  <2>1. t \in Chat => CloserOK(t)
    BY DEF KInv, TaskOK
  <2>. QED
    BY <1>0, <1>2, <2>1, PlaceKept DEF CloserOK
<1>6. TaskOK(t)'
  <2>1. t \in Op \cup Chat => task[t].chat = None
    BY DEF KInv, TaskOK
  <2>. QED
    BY <1>0, <1>1, <1>3, <1>4, <1>5, <2>1, PlaceKept DEF TaskOK
<1>7. /\ Hands(boot_lock, boot_lock', t) /\ Hands(retirement, retirement', t)
      /\ ledger' \in Ledger
  BY <1>0, HandsOver, Known
<1>. QED
  BY <1>0, <1>1, <1>6, <1>7, PlaceKept, CloseStep

LEMMA Step_close_lease_ends ==
  ASSUME KInv, Fixed, NEW t \in Task, close_lease_ends(t)
  PROVE  KInv'
<1>0. /\ generation' = generation /\ workers' = workers /\ run' = run /\ phase' = phase
      /\ lease' = lease /\ ledger' = ledger /\ task[t].pc = "retiring" /\ Returns(t)
      /\ Gone(task[t].target, task[t].gen)
  BY DEF close_lease_ends
<1>1. t \in Chat => lease[t].gen = 0
  <2>1. ASSUME t \in Chat
        PROVE  task[t].target = t /\ lease[t].gen \in {0, task[t].gen}
    BY <1>0, <2>1 DEF KInv, TaskOK, CloserOK
  <2>. QED
    BY <1>0, <2>1, GoneIsGone
<1>. QED
  BY <1>0, <1>1, Returned DEF Leaves

-----------------------------------------------------------------------------
(* A cell on its worker                                                    *)

LEMMA OnLease ==
  ASSUME KInv, NEW k \in Cell, task[k].pc \in {"queued"} \cup OnWorker
  PROVE  /\ task[k].chat \in Chat /\ run[task[k].chat] /\ phase # "down" /\ k \in Task
         /\ task[k] \in TaskRec /\ CellOK(k) /\ TeardownOK(k)
         /\ ~Gone(task[k].chat, task[k].gen) =>
              /\ lease[task[k].chat].gen = task[k].gen /\ lease[task[k].chat].gen # 0
              /\ lease[task[k].chat].state # "starting"
<1>1. /\ CellOK(k) /\ TeardownOK(k) /\ task[k] \in TaskRec /\ k \in Task
  BY Known
<1>2. task[k].chat \in Chat /\ run[task[k].chat] /\ phase # "down"
  BY <1>1 DEF CellOK, TaskRec, KInv, TaskOK
<1>3. ASSUME ~Gone(task[k].chat, task[k].gen)
      PROVE  /\ lease[task[k].chat].gen = task[k].gen /\ lease[task[k].chat].gen # 0
             /\ lease[task[k].chat].state # "starting"
  <2>1. LeaseOK(task[k].chat)
    BY <1>2, Known
  <2>2. lease[task[k].chat].gen = task[k].gen /\ lease[task[k].chat].gen # 0
    BY <1>3, <2>1 DEF LeaseOK, Gone
  <2>. QED
    BY <1>1, <2>2 DEF CellOK
<1>. QED
  BY <1>1, <1>2, <1>3

(* A cell that goes on with its lease. *)
LEMMA WorkerOK ==
  ASSUME KInv, NEW k \in Cell, task[k].pc \in {"queued"} \cup OnWorker,
         generation' = generation, run' = run, phase' = phase, ledger' = ledger,
         lease'[task[k].chat].gen = lease[task[k].chat].gen,
         lease'[task[k].chat].state = "starting" => lease[task[k].chat].state = "starting",
         task'[k] \in TaskRec, task'[k].pc \in OnWorker,
         task'[k].chat = task[k].chat, task'[k].gen = task[k].gen
  PROVE  TaskOK(k)'
<1>0. /\ task[k].chat \in Chat /\ run[task[k].chat] /\ phase # "down" /\ CellOK(k)
      /\ task[k].chat # None
  BY OnLease, Names
<1>1. CellOK(k)'
  BY <1>0 DEF CellOK, Locking
<1>. QED
  BY <1>0, <1>1, OnLease, Names DEF TaskOK, TeardownOK

(* A cell on its worker goes on, which leaves the leases alone or sets the state of its own. *)
LEMMA WorkerStep ==
  ASSUME KInv, Fixed, NEW k \in Cell, task[k].pc \in {"queued"} \cup OnWorker, Leaves(k),
         UNCHANGED <<generation, workers, fences, ledger, phase>>,
         task' \in [Task -> TaskRec], \A u \in Task \ {k} : task'[u] = task[u],
         task'[k].pc \in OnWorker, task'[k].chat = task[k].chat, task'[k].gen = task[k].gen,
         \/ lease' = lease
         \/ /\ ~Gone(task[k].chat, task[k].gen)
            /\ \E s \in {"ready", "busy", "stopping"} : State(task[k].chat, s)
  PROVE  KInv'
<1>. DEFINE c == task[k].chat
<1>0. /\ generation' = generation /\ workers' = workers /\ run' = run /\ phase' = phase
      /\ ledger' = ledger /\ boot_lock' = boot_lock /\ retirement' = retirement
      /\ k \in Task /\ c \in Chat
  BY OnLease DEF fences
<1>1. /\ Hands(boot_lock, boot_lock', k) /\ Hands(retirement, retirement', k)
      /\ ledger' \in Ledger
  BY <1>0, HandsOver, Known
<1>2. CASE lease' = lease
  <2>1. TaskOK(k)'
    BY <1>0, <1>2, WorkerOK
  <2>. QED
    BY <1>0, <1>1, <1>2, <2>1, QuietStep
<1>3. CASE /\ ~Gone(c, task[k].gen)
           /\ \E s \in {"ready", "busy", "stopping"} : State(c, s)
  <2>1. PICK s \in {"ready", "busy", "stopping"} : State(c, s)
    BY <1>3
  <2>2. lease[c].gen # 0 /\ lease[c].state # "starting"
    BY <1>3, OnLease
  <2>3. lease'[c].gen = lease[c].gen /\ lease'[c].state # "starting"
    BY <1>0, <2>1, StateSet DEF State
  <2>4. TaskOK(k)'
    BY <1>0, <2>3, WorkerOK
  <2>5. lease' \in [Chat -> LeaseRec] /\ \A d \in Chat : LeaseChange(d, {k})
    BY <1>0, <2>1, <2>2, StateStep
  <2>. QED
    BY <1>0, <1>1, <2>4, <2>5, OneStep
<1>. QED
  BY <1>2, <1>3

LEMMA Step_lease_execute ==
  ASSUME KInv, Fixed, NEW k \in Cell, lease_execute(k)
  PROVE  KInv'
<1>0. /\ generation' = generation /\ workers' = workers /\ run' = run /\ phase' = phase
      /\ task[k].pc = "queued" /\ k \in Task /\ "running" \in Pc
  BY Names, Typed DEF lease_execute
<1>1. CASE ~Gone(task[k].chat, task[k].gen) /\ lease[task[k].chat].state = "ready"
  <2>1. /\ State(task[k].chat, "busy") /\ Goes(k, "running")
        /\ boot_lock' = boot_lock /\ retirement' = retirement /\ ledger' = ledger
        /\ UNCHANGED <<config, ahead>>
    BY <1>1 DEF lease_execute
  <2>. QED
    BY <1>0, <1>1, <2>1, PlaceKept, WorkerStep DEF fences, Leaves
<1>2. CASE ~(~Gone(task[k].chat, task[k].gen) /\ lease[task[k].chat].state = "ready")
  <2>1. Recorded(k) /\ Ends(k) /\ lease' = lease
    BY <1>2 DEF lease_execute
  <2>. QED
    BY <1>0, <2>1, QuietEnds DEF Leaves
<1>. QED
  BY <1>1, <1>2

LEMMA Step_cell_done ==
  ASSUME KInv, Fixed, NEW k \in Cell, cell_done(k)
  PROVE  KInv'
<1>1. /\ task[k].pc = "running" /\ Goes(k, "finishing") /\ lease' = lease
      /\ UNCHANGED <<generation, workers, fences, ledger, phase>>
      /\ k \in Task /\ "finishing" \in Pc
  BY Names, Typed DEF cell_done
<1>. QED
  BY <1>1, PlaceKept, WorkerStep DEF Leaves

LEMMA Step_cell_lost_worker ==
  ASSUME KInv, Fixed, NEW k \in Cell, cell_lost_worker(k)
  PROVE  KInv'
<1>1. /\ task[k].pc = "dying" /\ Gone(task[k].chat, task[k].gen)
      /\ Goes(k, "finishing") /\ lease' = lease
      /\ UNCHANGED <<generation, workers, fences, ledger, phase>>
      /\ k \in Task /\ "finishing" \in Pc
  BY Names, Typed DEF cell_lost_worker
<1>. QED
  BY <1>1, PlaceKept, WorkerStep DEF Leaves

LEMMA Step__interrupt_repl_or_kill ==
  ASSUME KInv, Fixed, NEW k \in Cell, _interrupt_repl_or_kill(k)
  PROVE  KInv'
<1>0. /\ task[k].pc = "running" /\ Leaves(k)
      /\ UNCHANGED <<generation, workers, fences, ledger, phase>>
      /\ k \in Task /\ "finishing" \in Pc /\ "interrupting" \in Pc
  BY Names, Typed DEF _interrupt_repl_or_kill, Leaves
<1>1. CASE Gone(task[k].chat, task[k].gen)
  <2>1. Goes(k, "finishing") /\ lease' = lease
    BY <1>1 DEF _interrupt_repl_or_kill
  <2>. QED
    BY <1>0, <2>1, PlaceKept, WorkerStep
<1>2. CASE ~Gone(task[k].chat, task[k].gen)
  <2>1. PICK i \in {"none", "steer", "stop"} :
          task' = [task EXCEPT ![k].pc = "interrupting", ![k].intent = i]
    <3>1. CASE task[k].intent # "steer"
      BY <1>2, <3>1 DEF _interrupt_repl_or_kill
    <3>2. CASE task[k].intent = "steer"
      <4>1. task' = [task EXCEPT ![k].pc = "interrupting", ![k].intent = @]
        BY <1>2, <3>2 DEF _interrupt_repl_or_kill
      <4>. QED
        BY <3>2, <4>1, <1>0, Typed DEF TaskRec
    <3>. QED
      BY <3>1, <3>2
  <2>2. task \in [Task -> TaskRec]
    BY Typed
  <2>3. task'[k].pc = "interrupting" /\ task'[k].chat = task[k].chat /\ task'[k].gen = task[k].gen
    BY <1>0, <2>1, <2>2 DEF TaskRec
  <2>4. task'[k] \in TaskRec
    BY <1>0, <2>1, <2>2 DEF TaskRec
  <2>5. task' \in [Task -> TaskRec] /\ \A u \in Task \ {k} : task'[u] = task[u]
    BY <2>1, <2>2, <2>4
  <2>6. lease' = lease \/ State(task[k].chat, "stopping")
    BY <1>2 DEF _interrupt_repl_or_kill
  <2>. QED
    BY <1>0, <1>2, <2>3, <2>5, <2>6, WorkerStep
<1>. QED
  BY <1>1, <1>2

LEMMA Step_promote_terminal_intent ==
  ASSUME KInv, Fixed, NEW k \in Cell, promote_terminal_intent(k)
  PROVE  KInv'
<1>1. /\ task[k].pc = "interrupting" /\ Leaves(k) /\ ~Gone(task[k].chat, task[k].gen)
      /\ State(task[k].chat, "stopping") /\ task' = task
      /\ UNCHANGED <<generation, workers, fences, ledger, phase>>
      /\ task' \in [Task -> TaskRec]
  BY Typed DEF promote_terminal_intent, Leaves
<1>. QED
  BY <1>1, WorkerStep

LEMMA Step_interrupted_softly ==
  ASSUME KInv, Fixed, NEW k \in Cell, interrupted_softly(k)
  PROVE  KInv'
<1>1. /\ task[k].pc = "interrupting" /\ Leaves(k) /\ Goes(k, "finishing")
      /\ UNCHANGED <<generation, workers, fences, ledger, phase>>
      /\ k \in Task /\ "finishing" \in Pc
      /\ IF Gone(task[k].chat, task[k].gen) THEN UNCHANGED lease
         ELSE ~lease[task[k].chat].dead /\ State(task[k].chat, "ready")
  BY Names, Typed DEF interrupted_softly, Leaves
<1>. QED
  BY <1>1, PlaceKept, WorkerStep

(* The worker of the cell is killed, for a Stop, or found dead. *)
LEMMA DyingStep ==
  ASSUME KInv, Fixed, NEW k \in Cell, task[k].pc \in {"running", "interrupting"},
         ~Gone(task[k].chat, task[k].gen), Goes(k, "dying"),
         NEW why \in {"killed", "process_died"}, close(task[k].chat, why),
         why = "killed" => task[k].intent = "stop",
         UNCHANGED <<generation, workers, fences, ledger, phase>>
  PROVE  KInv'
<1>. DEFINE c == task[k].chat
<1>0. /\ generation' = generation /\ workers' = workers /\ run' = run /\ phase' = phase
      /\ ledger' = ledger /\ boot_lock' = boot_lock /\ retirement' = retirement
      /\ k \in Task /\ c \in Chat /\ "dying" \in Pc /\ why \in Reason /\ why \notin Automatic
      /\ Leaves(k)
  BY OnLease, Typed DEF fences, Leaves
<1>1. lease[c].gen = task[k].gen /\ lease[c].state # "starting"
  BY OnLease
<1>2. /\ lease'[c].gen = lease[c].gen
      /\ lease'[c].state = "starting" => lease[c].state = "starting"
  BY <1>0, ClosedLease
<1>3. TaskOK(k)'
  BY <1>0, <1>2, PlaceKept, WorkerOK
<1>4. /\ Hands(boot_lock, boot_lock', k) /\ Hands(retirement, retirement', k)
      /\ ledger' \in Ledger
  BY <1>0, HandsOver, Known
<1>5. /\ task'[k].pc = "dying" /\ task'[k].chat = c /\ task'[k].gen = lease[c].gen
      /\ task'[k].intent = task[k].intent
      /\ task' \in [Task -> TaskRec] /\ \A u \in Task \ {k} : task'[u] = task[u]
  BY <1>0, <1>1, PlaceKept
<1>. QED
  BY <1>0, <1>1, <1>3, <1>4, <1>5, CloseStep

LEMMA Step_killed ==
  ASSUME KInv, Fixed, NEW k \in Cell, killed(k) \/ process_died(k)
  PROVE  KInv'
BY DyingStep DEF killed, process_died

LEMMA Step_execute_ends ==
  ASSUME KInv, Fixed, NEW k \in Cell, execute_ends(k)
  PROVE  KInv'
<1>. DEFINE c == task[k].chat
<1>0. /\ generation' = generation /\ workers' = workers /\ run' = run /\ phase' = phase
      /\ task[k].pc = "finishing" /\ Leaves(k) /\ Recorded(k) /\ Ends(k) /\ k \in Task
      /\ c \in Chat
  BY OnLease, Names DEF execute_ends, Leaves
<1>1. CASE ~Gone(c, task[k].gen) /\ lease[c].state # "stopping"
  <2>1. State(c, "ready")
    BY <1>1 DEF execute_ends
  <2>2. lease[c].gen # 0 /\ lease[c].state # "starting"
    BY <1>0, <1>1, OnLease
  <2>3. lease' \in [Chat -> LeaseRec] /\ \A d \in Chat : LeaseChange(d, {k})
    BY <1>0, <2>1, <2>2, StateStep
  <2>. QED
    BY <1>0, <2>3, EndsStep
<1>2. CASE ~(~Gone(c, task[k].gen) /\ lease[c].state # "stopping")
  <2>1. lease' = lease
    BY <1>2 DEF execute_ends
  <2>. QED
    BY <1>0, <2>1, QuietEnds
<1>. QED
  BY <1>1, <1>2

-----------------------------------------------------------------------------
(* Users, operators and the process                                        *)

LEMMA SameLease ==
  ASSUME NEW c \in Chat, lease'[c] = lease[c], NEW T
  PROVE  Moves(c, T)
BY DEF Moves

(* A step that leaves the leases alone. *)
LEMMA HostStep ==
  ASSUME KInv, Fixed, Maps', NEW T, UNCHANGED <<generation, workers, lease>>, Locks(T),
         \A t \in Task \ T : SameTask(t) /\ PhaseMoves(t),
         \A t \in T : TaskOK(t)',
         \A c \in Chat : RunMoves(c) /\ (lease[c].closing => \A t \in T : ~Closes(t, c)),
         phase' \in {"down", "closed"} => \A c \in Chat : lease[c].gen = 0
  PROVE  KInv'
<1>0. /\ generation' = generation /\ workers' = workers /\ lease' = lease
      /\ \A c \in Chat : generation[c] \in Nat
  BY Known DEF LeaseOK
<1>1. \A c \in Chat : Moves(c, T) /\ RunMoves(c)
                      /\ generation'[c] \in Nat /\ generation'[c] >= generation[c]
  BY <1>0, SameLease
<1>2. \A t \in Task : TaskOK(t)'
  <2>1. ASSUME NEW t \in Task \ T
        PROVE  TaskOK(t)'
    BY <1>1, <2>1, Kept
  <2>. QED
    BY <2>1
<1>3. ASSUME NEW c \in Chat
      PROVE  LeaseOK(c)' /\ CloserWaits(c)'
  <2>1. LeaseOK(c)'
    BY <1>0, Known DEF LeaseOK
  <2>2. CloserWaits(c)'
    BY <1>0, WaitsOn
  <2>. QED
    BY <2>1, <2>2
<1>4. WithinCapacity'
  BY <1>0, RoomStays
<1>. QED
  BY <1>2, <1>3, <1>4 DEF KInv

LEMMA AllSame ==
  ASSUME KInv, task' = task, ledger' = ledger
  PROVE  \A t \in Task : SameTask(t)
BY Known, Names DEF SameTask

LEMMA NoHands == boot_lock' = boot_lock /\ retirement' = retirement => Locks({})
BY DEF Locks

LEMMA Step_reserve_run ==
  ASSUME KInv, Fixed, NEW c \in Chat, reserve_run(c)
  PROVE  KInv'
<1>0. /\ generation' = generation /\ workers' = workers /\ lease' = lease
      /\ retirement' = retirement /\ boot_lock' = boot_lock
      /\ task' = task /\ ledger' = ledger /\ phase' = phase /\ phase = "up"
      /\ retirement[c] = None /\ run' = [run EXCEPT ![c] = TRUE]
  BY DEF reserve_run
<1>1. Maps'
  BY <1>0 DEF KInv, Maps
<1>2. \A d \in Chat : RunMoves(d)
  BY <1>0 DEF RunMoves, KInv, Maps
<1>3. \A t \in Task : PhaseMoves(t)
  BY <1>0 DEF PhaseMoves
<1>. QED
  BY <1>0, <1>1, <1>2, <1>3, AllSame, NoHands, HostStep

LEMMA Step_finish_run ==
  ASSUME KInv, Fixed, NEW c \in Chat, finish_run(c)
  PROVE  KInv'
<1>0. /\ generation' = generation /\ workers' = workers /\ lease' = lease
      /\ retirement' = retirement /\ boot_lock' = boot_lock
      /\ task' = task /\ ledger' = ledger /\ phase' = phase
      /\ run' = [run EXCEPT ![c] = FALSE] /\ \A k \in Cell : task[k].chat # c
  BY DEF finish_run
<1>1. Maps'
  BY <1>0 DEF KInv, Maps
<1>2. \A t \in Task : task[t].chat # c
  <2>1. \A t \in Op \cup Chat : task[t].chat = None
    BY Names DEF KInv, TaskOK
  <2>. QED
    BY <1>0, <2>1, Names DEF Task
<1>3. \A d \in Chat : RunMoves(d)
  BY <1>0, <1>2 DEF RunMoves, KInv, Maps
<1>4. \A t \in Task : PhaseMoves(t)
  BY <1>0 DEF PhaseMoves
<1>5. phase' \in {"down", "closed"} => \A d \in Chat : lease[d].gen = 0
  BY <1>0, Known DEF LeaseOK
<1>. QED
  BY <1>0, <1>1, <1>3, <1>4, <1>5, AllSame, NoHands, HostStep

LEMMA Step_worker_dies ==
  ASSUME KInv, Fixed, NEW c \in Chat, worker_dies(c)
  PROVE  KInv'
<1>0. /\ generation' = generation /\ workers' = workers /\ run' = run /\ phase' = phase
      /\ retirement' = retirement /\ boot_lock' = boot_lock /\ task' = task /\ ledger' = ledger
      /\ lease' = [lease EXCEPT ![c].dead = TRUE] /\ lease[c].gen # 0
      /\ lease \in [Chat -> LeaseRec]
  BY Typed DEF worker_dies, fences, Live
<1>1. lease'[c] \in LeaseRec
  BY <1>0 DEF LeaseRec
<1>2. /\ lease'[c].gen = lease[c].gen /\ lease'[c].state = lease[c].state
      /\ lease'[c].closing = lease[c].closing /\ lease'[c].reason = lease[c].reason
      /\ \A d \in Chat \ {c} : lease'[d] = lease[d]
  BY <1>0 DEF LeaseRec
<1>3. Maps'
  BY <1>0, <1>1 DEF KInv, Maps
<1>4. LeaseChange(c, {})
  BY <1>0, <1>2, Known DEF LeaseChange, Moves, LeaseOK
<1>5. \A d \in Chat : LeaseChange(d, {})
  BY <1>2, <1>4 DEF LeaseChange
<1>. QED
  BY <1>0, <1>3, <1>5, AllSame, NoHands, TaskStep

(* An intent that reaches a cell. *)
LEMMA IntentOK ==
  ASSUME KInv, NEW t \in Task, NEW i \in {"steer", "stop"},
         task'[t] = [task[t] EXCEPT !.intent = i],
         i = "stop" \/ task[t].pc \in {"running", "interrupting"},
         t \in Cell => ledger'[t] = ledger[t]
  PROVE  SameTask(t) /\ task'[t].intent = i
<1>1. task[t] \in TaskRec
  BY Known
<1>2. task'[t] \in TaskRec
  BY <1>1 DEF TaskRec
<1>. QED
  BY <1>1, <1>2 DEF SameTask, TaskRec

LEMMA Step_interrupt ==
  ASSUME KInv, Fixed, NEW c \in Chat, NEW i \in {"steer", "stop"}, interrupt(c, i)
  PROVE  KInv'
<1>. DEFINE hit(t) == /\ t \in Executing(c, lease[c].gen)
                      /\ task[t].pc \in {"running", "interrupting"} /\ task[t].intent # "stop"
<1>0. /\ generation' = generation /\ workers' = workers /\ run' = run /\ phase' = phase
      /\ retirement' = retirement /\ boot_lock' = boot_lock /\ ledger' = ledger
      /\ lease' = lease
      /\ task' = [t \in Task |-> IF hit(t) THEN [task[t] EXCEPT !.intent = i] ELSE task[t]]
  BY DEF interrupt, fences, Interrupts
<1>1. ASSUME NEW t \in Task
      PROVE  SameTask(t)
  <2>1. CASE hit(t)
    <3>1. task'[t] = [task[t] EXCEPT !.intent = i] /\ task[t].pc \in {"running", "interrupting"}
      BY <1>0, <2>1
    <3>. QED
      BY <1>0, <3>1, IntentOK
  <2>2. CASE ~hit(t)
    <3>1. task'[t] = task[t]
      BY <1>0, <2>2
    <3>. QED
      BY <1>0, <3>1, Known DEF SameTask
  <2>. QED
    BY <2>1, <2>2
<1>2. task' \in [Task -> TaskRec]
  <2>. HIDE DEF hit
  <2>1. \A t \in Task : task'[t] \in TaskRec
    BY <1>1 DEF SameTask
  <2>. QED
    BY <1>0, <2>1
<1>3. Maps'
  BY <1>0, <1>2 DEF KInv, Maps
<1>4. \A d \in Chat : LeaseChange(d, {})
  BY <1>0 DEF LeaseChange
<1>. QED
  BY <1>0, <1>1, <1>3, <1>4, NoHands, TaskStep

LEMMA Step_cancel ==
  ASSUME KInv, Fixed, NEW k \in Cell, cancel(k)
  PROVE  KInv'
<1>. DEFINE late == {"replacing", "retiring", "booting", "unbooting"} \cup OnWorker
            ended == {j \in {k} : Cancelled(j) = Done}
<1>0. /\ generation' = generation /\ workers' = workers /\ run' = run /\ phase' = phase
      /\ lease' = lease /\ task[k].pc \notin {"idle", "done", "finishing"} /\ k \in Task
      /\ IF task[k].pc = "queued" THEN Recorded(k) ELSE ledger' = ledger
      /\ task \in [Task -> TaskRec] /\ boot_lock \in Holders /\ retirement \in Holders
  BY Known, Names, Typed DEF cancel
<1>1. /\ task' = [t \in Task |-> IF t \in {k} THEN Cancelled(t) ELSE task[t]]
      /\ boot_lock' = [c \in Chat |-> IF boot_lock[c] \in ended THEN None ELSE boot_lock[c]]
      /\ retirement' = [c \in Chat |-> IF retirement[c] \in ended THEN None ELSE retirement[c]]
  BY DEF cancel, CancelAll
<1>2. CASE task[k].pc \in late
  <2>1. Cancelled(k) = [task[k] EXCEPT !.intent = "stop"]
    BY <1>2 DEF Cancelled
  <2>2. Cancelled(k) \in TaskRec /\ Cancelled(k).pc = task[k].pc
    BY <1>0, <2>1 DEF TaskRec
  <2>3. ended = {}
    BY <1>2, <2>2, DoneRec
  <2>4. /\ boot_lock' = boot_lock /\ retirement' = retirement /\ ledger' = ledger
    <3>. HIDE DEF ended
    <3>. QED
      BY <1>0, <1>1, <1>2, <2>3 DEF Holders
  <2>5. task'[k] = [task[k] EXCEPT !.intent = "stop"] /\ \A t \in Task \ {k} : task'[t] = task[t]
    BY <1>0, <1>1, <2>1
  <2>6. task' \in [Task -> TaskRec]
    BY <1>0, <1>1, <2>2
  <2>7. \A t \in Task : SameTask(t)
    <3>1. SameTask(k)
      BY <1>0, <2>4, <2>5, IntentOK
    <3>. QED
      BY <2>4, <2>5, <3>1, Known DEF SameTask
  <2>8. Maps'
    BY <1>0, <2>4, <2>6 DEF KInv, Maps
  <2>9. \A d \in Chat : LeaseChange(d, {})
    BY <1>0 DEF LeaseChange
  <2>. QED
    BY <1>0, <2>4, <2>7, <2>8, <2>9, NoHands, TaskStep
<1>3. CASE task[k].pc \notin late
  <2>1. Cancelled(k) = Done
    BY <1>3 DEF Cancelled
  <2>2. ended = {k}
    BY <2>1
  <2>3. /\ boot_lock' = Without(boot_lock, k) /\ retirement' = Without(retirement, k)
    BY <1>1, <2>2 DEF Without
  <2>4. task' = [task EXCEPT ![k] = Done]
    BY <1>0, <1>1, <2>1
  <2>5. Ends(k) /\ Leaves(k)
    BY <1>3, <2>3, <2>4 DEF Ends, Leaves
  <2>6. \/ ledger' = ledger /\ task[k].pc \notin {"idle", "done", "queued"} \cup OnWorker
        \/ Recorded(k)
    BY <1>0, <1>3
  <2>. QED
    BY <1>0, <2>5, <2>6, QuietEnds
<1>. QED
  BY <1>2, <1>3

LEMMA CloserRec ==
  ASSUME KInv, NEW c \in Live, NEW why \in {"restart", "release", "shutdown"}
  PROVE  /\ Closer(c, why) \in TaskRec /\ Closer(c, why).pc = "victim"
         /\ Closer(c, why).chat = None /\ Closer(c, why).target = c
         /\ Closer(c, why).gen = lease[c].gen /\ Closer(c, why).reason = why
         /\ Closer(c, why).victims = {} /\ c \in Chat /\ lease[c].gen # 0 /\ phase \notin {"down", "closed"}
<1>1. c \in Chat /\ lease[c].gen # 0 /\ phase \notin {"down", "closed"}
  BY Known DEF Live, LeaseOK
<1>2. lease[c].gen \in Nat /\ "victim" \in Pc /\ why \in Reason /\ "none" \in Reason
  BY <1>1, Known, Typed DEF LeaseRec
<1>3. Idle \in TaskRec /\ Idle.chat = None /\ Idle.victims = {}
  BY Typed DEF Idle, TaskRec, Victims
<1>4. Closer(c, why) = [Idle EXCEPT !.pc = "victim", !.target = c, !.gen = lease[c].gen,
                                    !.reason = why]
  BY DEF Closer
<1>5. /\ Closer(c, why).pc = "victim" /\ Closer(c, why).chat = None
      /\ Closer(c, why).target = c /\ Closer(c, why).gen = lease[c].gen
      /\ Closer(c, why).reason = why /\ Closer(c, why).victims = {}
  BY <1>3, <1>4 DEF TaskRec
<1>6. Closer(c, why) \in TaskRec
  BY <1>1, <1>2, <1>3, <1>4 DEF TaskRec
<1>. QED
  BY <1>1, <1>5, <1>6

(* An operator, or a sweep, that asks for the teardown of a lease. *)
LEMMA OperatorStep ==
  ASSUME KInv, Fixed, NEW o \in Op, NEW c \in Live, NEW why \in {"restart", "release"},
         task[o].pc = "idle", task'[o] = Closer(c, why),
         UNCHANGED <<generation, workers, lease, run, retirement, boot_lock, ledger, phase>>,
         task' \in [Task -> TaskRec], \A t \in Task \ {o} : SameTask(t)
  PROVE  KInv'
<1>0. /\ generation' = generation /\ workers' = workers /\ run' = run /\ phase' = phase
      /\ retirement' = retirement /\ boot_lock' = boot_lock /\ ledger' = ledger
      /\ lease' = lease /\ o \in Task
  BY Names
<1>1. TaskOK(o)'
  BY <1>0, CloserRec, Names DEF TaskOK, TeardownOK
<1>2. Maps'
  BY <1>0 DEF KInv, Maps
<1>3. \A d \in Chat : LeaseChange(d, {o})
  BY <1>0, NoWitness DEF LeaseChange, Leaves
<1>4. Locks({o})
  BY <1>0 DEF Locks
<1>. QED
  BY <1>0, <1>1, <1>2, <1>3, <1>4, TaskStep

LEMMA Step_restart ==
  ASSUME KInv, Fixed, NEW o \in Op, NEW c \in Chat, restart(o, c)
  PROVE  KInv'
<1>. DEFINE hit(t) == /\ lease[c].state = "busy" /\ t \in Executing(c, lease[c].gen)
                      /\ task[t].pc \in {"running", "interrupting"}
<1>0. /\ UNCHANGED <<generation, workers, lease, run, retirement, boot_lock, ledger, phase>>
      /\ ledger' = ledger
      /\ task[o].pc = "idle" /\ c \in Live /\ o \in Task
      /\ task' = [t \in Task |-> IF t = o THEN Closer(c, "restart")
                                 ELSE IF hit(t) THEN [task[t] EXCEPT !.intent = "stop"]
                                 ELSE task[t]]
  BY Names DEF restart
<1>1. ASSUME NEW t \in Task \ {o}
      PROVE  SameTask(t)
  <2>1. CASE hit(t)
    <3>1. task'[t] = [task[t] EXCEPT !.intent = "stop"]
      BY <1>0, <2>1
    <3>. QED
      BY <1>0, <3>1, IntentOK
  <2>2. CASE ~hit(t)
    <3>1. task'[t] = task[t]
      BY <1>0, <2>2
    <3>. QED
      BY <1>0, <3>1, Known DEF SameTask
  <2>. QED
    BY <2>1, <2>2
<1>2. task'[o] = Closer(c, "restart") /\ task' \in [Task -> TaskRec]
  <2>. HIDE DEF hit
  <2>1. task'[o] = Closer(c, "restart")
    BY <1>0
  <2>2. \A t \in Task : task'[t] \in TaskRec
    BY <1>0, <1>1, <2>1, CloserRec DEF SameTask
  <2>. QED
    BY <1>0, <2>1, <2>2
<1>. QED
  BY <1>0, <1>1, <1>2, OperatorStep

LEMMA Step_release_idle ==
  ASSUME KInv, Fixed, NEW o \in Op, NEW c \in Chat, release_idle(o, c)
  PROVE  KInv'
<1>0. /\ UNCHANGED <<generation, workers, lease, run, retirement, boot_lock, ledger, phase>>
      /\ ledger' = ledger
      /\ task[o].pc = "idle" /\ c \in Live /\ o \in Task
      /\ task' = [task EXCEPT ![o] = Closer(c, "release")]
      /\ task \in [Task -> TaskRec]
  BY Names, Typed DEF release_idle
<1>1. /\ task' \in [Task -> TaskRec] /\ task'[o] = Closer(c, "release")
      /\ \A t \in Task \ {o} : task'[t] = task[t]
  BY <1>0, CloserRec
<1>2. \A t \in Task \ {o} : SameTask(t)
  BY <1>0, <1>1, Known DEF SameTask
<1>. QED
  BY <1>0, <1>1, <1>2, OperatorStep

LEMMA Step__kernel_reaper_loop ==
  ASSUME KInv, Fixed, NEW o \in Op, _kernel_reaper_loop(o)
  PROVE  KInv'
<1>0. /\ generation' = generation /\ workers' = workers /\ run' = run /\ phase' = phase
      /\ lease' = lease /\ retirement' = retirement /\ boot_lock' = boot_lock /\ ledger' = ledger
      /\ o \in Task /\ o \notin Cell /\ task[o].pc = "idle"
  BY Names DEF _kernel_reaper_loop
<1>1. PICK C \in SUBSET Candidates : NextOf(o, {Victim(c) : c \in C})
  BY DEF _kernel_reaper_loop
<1>2. {Victim(c) : c \in C} \in Victims
  BY VictimsListed
<1>3. phase # "down"
  <2>1. PICK v \in {Victim(c) : c \in C} : TRUE
    BY <1>1 DEF NextOf
  <2>2. PICK c \in Chat : lease[c].gen # 0
    BY <2>1 DEF Candidates, Live
  <2>. QED
    BY <2>2, Known DEF LeaseOK
<1>4. TaskOK(o)'
  BY <1>0, <1>1, <1>2, <1>3, SelectedOK
<1>. QED
  BY <1>0, <1>1, <1>2, <1>4, Selected, QuietStep, HandsOver, Known DEF Leaves

LEMMA Step_shutdown ==
  ASSUME KInv, Fixed, shutdown
  PROVE  KInv'
<1>. DEFINE T == {k \in Slots : Cancelled(k) = Done}
<1>0. /\ generation' = generation /\ workers' = workers /\ run' = run
      /\ lease' = lease /\ ledger' = ledger /\ phase = "up" /\ phase' = "stopping"
      /\ task \in [Task -> TaskRec] /\ boot_lock \in Holders /\ retirement \in Holders
      /\ ledger' \in Ledger
  BY Known, Typed DEF shutdown
<1>1. /\ task' = [t \in Task |-> IF t \in Slots THEN Cancelled(t) ELSE task[t]]
      /\ boot_lock' = [c \in Chat |-> IF boot_lock[c] \in T THEN None ELSE boot_lock[c]]
      /\ retirement' = [c \in Chat |-> IF retirement[c] \in T THEN None ELSE retirement[c]]
  BY DEF shutdown, CancelAll
<1>2. Slots \subseteq Cell /\ T \subseteq Slots /\ \A k \in Slots : task[k].pc \in Booting
  BY DEF Slots
<1>3. ASSUME NEW t \in Slots
      PROVE  \/ t \in T /\ task'[t] = Done
             \/ /\ t \notin T /\ task[t].pc \in {"retiring", "booting", "unbooting"}
                /\ SameTask(t) /\ task'[t].intent = "stop"
  <2>0. t \in Task /\ task[t].pc \in Booting /\ task'[t] = Cancelled(t) /\ ledger'[t] = ledger[t]
    BY <1>0, <1>1, <1>2, Names
  <2>1. CASE t \in T
    BY <2>0, <2>1
  <2>2. CASE t \notin T
    <3>1. task[t].pc \in {"retiring", "booting", "unbooting"}
      BY <2>0, <2>2 DEF Cancelled
    <3>2. task'[t] = [task[t] EXCEPT !.intent = "stop"]
      BY <2>0, <3>1 DEF Cancelled
    <3>3. SameTask(t) /\ task'[t].intent = "stop"
      BY <2>0, <3>2, IntentOK
    <3>. QED
      BY <2>2, <3>1, <3>3
  <2>. QED
    BY <2>1, <2>2
<1>4. \A t \in Task \ Slots : task'[t] = task[t]
  BY <1>1
<1>. HIDE DEF T
<1>5. ASSUME NEW t \in Task \ T
      PROVE  SameTask(t) /\ PhaseMoves(t)
  <2>1. CASE t \in Slots
    BY <1>0, <1>3, <2>1 DEF PhaseMoves
  <2>2. CASE t \notin Slots
    BY <1>0, <1>4, <2>2, Known DEF SameTask, PhaseMoves, Slots
  <2>. QED
    BY <2>1, <2>2
<1>6. \A t \in T : TaskOK(t)'
  <2>1. \A t \in T : task'[t] = Done /\ t \in Cell /\ ledger'[t] # "admitted"
    BY <1>0, <1>2, <1>3, Known DEF CellOK
  <2>. QED
    BY <2>1, DoneOK
<1>7. Maps'
  <2>1. \A t \in Task : task'[t] \in TaskRec
    BY <1>2, <1>3, <1>5, DoneRec DEF SameTask
  <2>2. task' \in [Task -> TaskRec]
    BY <1>1, <2>1
  <2>3. boot_lock' \in Holders /\ retirement' \in Holders
    BY <1>0, <1>1 DEF Holders
  <2>. QED
    BY <1>0, <2>2, <2>3 DEF KInv, Maps, Holders
<1>8. Locks(T)
  BY <1>1 DEF Locks
<1>9. ASSUME NEW c \in Chat, lease[c].closing, NEW t \in T
      PROVE  ~Closes(t, c)
  <2>0. t \in Task /\ Cancelled(t) = Done /\ task[t] \in TaskRec
    <3>1. t \in Slots /\ Cancelled(t) = Done
      BY DEF T
    <3>. QED
      BY <1>2, <3>1, Known
  <2>1. task[t].pc \notin {"replacing", "unbooting", "dying", "retiring"}
    <3>1. SUFFICES ASSUME task[t].pc \in {"replacing", "unbooting", "dying", "retiring"}
                   PROVE  FALSE
      OBVIOUS
    <3>2. Cancelled(t) = [task[t] EXCEPT !.intent = "stop"]
      BY <3>1 DEF Cancelled
    <3>3. Cancelled(t).pc = task[t].pc
      BY <2>0, <3>2 DEF TaskRec
    <3>. QED
      BY <2>0, <3>1, <3>3, DoneRec
  <2>. QED
    BY <2>1 DEF Closes
<1>10. \A c \in Chat : RunMoves(c) /\ (lease[c].closing => \A t \in T : ~Closes(t, c))
  BY <1>0, <1>9 DEF RunMoves
<1>11. phase' \notin {"down", "closed"}
  BY <1>0
<1>. QED
  BY <1>0, <1>5, <1>6, <1>7, <1>8, <1>10, <1>11, HostStep

LEMMA Step_shutdown_closes ==
  ASSUME KInv, Fixed, shutdown_closes
  PROVE  KInv'
<1>0. /\ generation' = generation /\ workers' = workers /\ run' = run /\ phase' = phase
      /\ retirement' = retirement /\ boot_lock' = boot_lock /\ ledger' = ledger
      /\ lease' = lease /\ phase = "stopping" /\ \A c \in Chat : task[c].pc = "idle"
      /\ task' = [t \in Task |-> IF t \notin Chat THEN task[t]
                                 ELSE IF t \in Live THEN Closer(t, "shutdown") ELSE Done]
  BY DEF shutdown_closes
<1>1. \A t \in Task \ Chat : task'[t] = task[t] /\ SameTask(t)
  BY <1>0, Known DEF SameTask
<1>2. ASSUME NEW c \in Chat
      PROVE  \/ c \in Live /\ task'[c] = Closer(c, "shutdown")
             \/ lease[c].gen = 0 /\ task'[c] = Done
  BY <1>0, Names DEF Live
<1>3. ASSUME NEW c \in Chat
      PROVE  TaskOK(c)'
  <2>1. CASE c \in Live /\ task'[c] = Closer(c, "shutdown")
    BY <1>0, <2>1, CloserRec, Names DEF TaskOK, CloserOK, TeardownOK
  <2>2. CASE lease[c].gen = 0 /\ task'[c] = Done
    BY <1>0, <2>2, DoneRec, Names DEF TaskOK, CloserOK, TeardownOK
  <2>. QED
    BY <1>2, <2>1, <2>2
<1>4. task' \in [Task -> TaskRec]
  <2>1. \A t \in Task : task'[t] \in TaskRec
    BY <1>1, <1>3 DEF SameTask, TaskOK
  <2>. QED
    BY <1>0, <2>1
<1>5. Maps'
  BY <1>0, <1>4 DEF KInv, Maps
<1>6. \A c \in Chat : LeaseChange(c, Chat)
  <2>1. \A t \in Chat, c \in Chat : lease[c].closing => ~Closes(t, c)
    BY <1>0, Names, NoWitness DEF Leaves
  <2>. QED
    BY <1>0, <2>1 DEF LeaseChange
<1>7. Locks(Chat)
  BY <1>0 DEF Locks
<1>. QED
  BY <1>0, <1>1, <1>3, <1>5, <1>6, <1>7, TaskStep

LEMMA Step_shutdown_ends ==
  ASSUME KInv, Fixed, shutdown_ends
  PROVE  KInv'
<1>0. /\ generation' = generation /\ workers' = workers /\ run' = run
      /\ retirement' = retirement /\ boot_lock' = boot_lock /\ ledger' = ledger
      /\ task' = task /\ lease' = lease /\ phase = "stopping" /\ phase' = "closed"
      /\ \A c \in Chat : task[c].pc = "done"
  BY DEF shutdown_ends, fences
<1>1. \A t \in Task : PhaseMoves(t)
  <2>1. ASSUME NEW t \in Cell, task[t].pc \in Booting
        PROVE  /\ task[t].pc \in {"retiring", "booting", "unbooting"}
               /\ task'[t].intent = "stop"
    BY <1>0, <2>1, Known DEF CellOK
  <2>. QED
    BY <1>0, <2>1 DEF PhaseMoves
<1>2. Maps'
  BY <1>0 DEF KInv, Maps
<1>3. \A c \in Chat : lease[c].gen = 0
  BY <1>0, Names DEF KInv, TaskOK, CloserOK
<1>4. \A c \in Chat : RunMoves(c)
  BY <1>0 DEF RunMoves
<1>. QED
  BY <1>0, <1>1, <1>2, <1>3, <1>4, AllSame, NoHands, HostStep

LEMMA Step__recover ==
  ASSUME KInv, Fixed, _recover_interrupted_cell_evidence
  PROVE  KInv'
<1>0. /\ generation' = generation /\ workers' = workers /\ run' = run
      /\ retirement' = retirement /\ boot_lock' = boot_lock
      /\ task' = task /\ lease' = lease /\ phase = "down" /\ phase' = "up"
      /\ ledger' = [k \in Cell |-> IF ledger[k] = "admitted" THEN "recorded" ELSE ledger[k]]
      /\ ledger \in Ledger
  BY Known DEF _recover_interrupted_cell_evidence, fences
<1>1. \A t \in Task : SameTask(t) /\ PhaseMoves(t)
  BY <1>0, Known DEF SameTask, PhaseMoves
<1>2. Maps'
  BY <1>0 DEF KInv, Maps, Ledger
<1>3. \A c \in Chat : RunMoves(c)
  BY <1>0 DEF RunMoves
<1>. QED
  BY <1>0, <1>1, <1>2, <1>3, NoHands, HostStep

LEMMA Step_crash ==
  ASSUME KInv, Fixed, crash
  PROVE  KInv'
<1>0. /\ generation' = generation /\ ledger' = ledger /\ phase' = "down"
      /\ workers' = [c \in Chat |-> {}] /\ lease' = [c \in Chat |-> NoLease]
      /\ run' = [c \in Chat |-> FALSE] /\ retirement' = [c \in Chat |-> None]
      /\ boot_lock' = [c \in Chat |-> None]
      /\ task' = [t \in Task |-> IF t \in Chat \/ task[t].pc = "idle" THEN Idle ELSE Done]
  BY DEF crash
<1>1. Idle \in TaskRec /\ Idle.pc = "idle" /\ Idle.chat = None
  BY Typed DEF Idle, TaskRec, Victims
<1>2. NoLease \in LeaseRec /\ NoLease.gen = 0 /\ ~NoLease.closing /\ NoLease.reason = "none"
  BY Typed DEF NoLease, LeaseRec
<1>3. \A t \in Task : \/ task'[t] = Idle
                      \/ task'[t] = Done /\ t \notin Chat
  BY <1>0
<1>4. Maps'
  BY <1>0, <1>1, <1>2, DoneRec DEF KInv, Maps
<1>5. \A t \in Task : TaskOK(t)'
  <2>1. ASSUME NEW t \in Task
        PROVE  TaskOK(t)'
    <3>1. /\ task'[t] \in TaskRec /\ task'[t].pc \in {"idle", "done"} /\ task'[t].chat = None
          /\ t \in Chat => task'[t].pc = "idle"
      BY <1>1, <1>3, DoneRec
    <3>2. CellOK(t)'
      BY <1>0, <3>1 DEF CellOK, Locking
    <3>. QED
      BY <1>0, <3>1, <3>2 DEF TaskOK, CloserOK, TeardownOK
  <2>. QED
    BY <2>1
<1>6. \A c \in Chat : LeaseOK(c)' /\ CloserWaits(c)'
  <2>1. ASSUME NEW c \in Chat
        PROVE  LeaseOK(c)' /\ CloserWaits(c)'
    <3>1. lease'[c] = NoLease /\ workers'[c] = {} /\ generation'[c] \in Nat
      BY <1>0, Known DEF LeaseOK
    <3>2. LeaseOK(c)'
      BY <1>0, <1>2, <3>1 DEF LeaseOK
    <3>. QED
      BY <1>2, <3>1, <3>2 DEF CloserWaits
  <2>. QED
    BY <2>1
<1>7. WithinCapacity'
  BY <1>0, <1>2, RoomStays
<1>. QED
  BY <1>4, <1>5, <1>6, <1>7 DEF KInv

(* A lease that is being closed is not one an automatic teardown is still to close: who  *)
(* closes it would hold the same boot lock, or have a run under the fence.               *)
LEMMA ClosingIsNotChosen ==
  ASSUME KInv, NEW c \in Chat, lease[c].closing, NEW t \in Task,
         task[t].pc = "checkpoint", task[t].reason \in Automatic, task[t].target = c
  PROVE  FALSE
<1>1. boot_lock[c] = t /\ ~run[c]
  BY Known DEF TeardownOK
<1>2. PICK u \in Task : Closes(u, c)
  BY DEF KInv, CloserWaits
<1>3. CASE u \in Cell /\ task[u].chat = c
  BY <1>1, <1>3, Known, Names DEF CellOK
<1>4. CASE task[u].target = c /\ task[u].pc = "retiring"
  BY <1>1, <1>4, Known DEF TeardownOK
<1>. QED
  BY <1>2, <1>3, <1>4 DEF Closes

LEMMA Step__close_resources ==
  ASSUME KInv, Fixed, NEW c \in Chat, _close_resources(c)
  PROVE  KInv'
<1>0. /\ generation' = generation /\ run' = run /\ phase' = phase
      /\ retirement' = retirement /\ boot_lock' = boot_lock
      /\ task' = task /\ ledger' = ledger /\ lease[c].closing
      /\ workers' = [workers EXCEPT ![c] = workers[c] \ {lease[c].gen}]
      /\ lease' = [lease EXCEPT ![c] = NoLease]
      /\ workers \in [Chat -> SUBSET Nat] /\ lease \in [Chat -> LeaseRec]
  BY DEF _close_resources, fences, KInv, Maps
<1>1. NoLease \in LeaseRec /\ NoLease.gen = 0 /\ ~NoLease.closing /\ NoLease.reason = "none"
  BY Typed DEF NoLease, LeaseRec
<1>2. Maps'
  BY <1>0, <1>1 DEF KInv, Maps
<1>3. \A d \in Chat : Moves(d, {})
  <2>1. Moves(c, {})
    BY <1>0, <1>1, ClosingIsNotChosen DEF Moves
  <2>2. \A d \in Chat \ {c} : Moves(d, {})
    BY <1>0, SameLease
  <2>. QED
    BY <2>1, <2>2
<1>4. \A t \in Task : SameTask(t)
  BY <1>0, AllSame
<1>5. \A t \in Task : TaskOK(t)'
  <2>1. Locks({})
    BY <1>0, NoHands
  <2>2. \A d \in Chat : RunMoves(d) /\ generation'[d] \in Nat /\ generation'[d] >= generation[d]
    <3>1. \A d \in Chat : generation[d] \in Nat
      BY Known DEF LeaseOK
    <3>. QED
      BY <1>0, <3>1 DEF RunMoves
  <2>3. \A t \in Task : PhaseMoves(t)
    BY <1>0 DEF PhaseMoves
  <2>. QED
    BY <1>3, <1>4, <2>1, <2>2, <2>3, Kept
<1>6. LeaseOK(c)' /\ CloserWaits(c)'
  <2>1. lease'[c] = NoLease /\ workers'[c] = workers[c] \ {lease[c].gen} /\ LeaseOK(c)
    BY <1>0, Known
  <2>2. workers'[c] = {}
    BY <2>1 DEF LeaseOK
  <2>3. LeaseOK(c)'
    BY <1>0, <1>1, <2>1, <2>2 DEF LeaseOK
  <2>. QED
    BY <1>1, <2>1, <2>3 DEF CloserWaits
<1>7. ASSUME NEW d \in Chat \ {c}
      PROVE  LeaseOK(d)' /\ CloserWaits(d)'
  <2>1. lease'[d] = lease[d] /\ workers'[d] = workers[d]
    BY <1>0
  <2>2. LeaseOK(d)'
    <3>1. LeaseOK(d)
      BY Known
    <3>. QED
      BY <1>0, <2>1, <3>1 DEF LeaseOK
  <2>3. CloserWaits(d)'
    <3>. DEFINE T == {}
    <3>1. \A t \in Task \ T : SameTask(t)
      BY <1>4
    <3>2. lease[d].closing => \A t \in T : ~Closes(t, d)
      OBVIOUS
    <3>3. /\ d \in Chat /\ lease'[d].gen = lease[d].gen /\ lease'[d].closing = lease[d].closing
          /\ lease'[d].reason = lease[d].reason
      BY <2>1
    <3>. HIDE DEF T
    <3>. QED
      BY <3>1, <3>2, <3>3, WaitsOn
  <2>. QED
    BY <2>2, <2>3
<1>8. WithinCapacity'
  <2>1. \A d \in Chat : lease[d].gen = 0 => lease'[d].gen = 0
    BY <1>0, <1>1
  <2>. QED
    BY <2>1, RoomStays
<1>. QED
  BY <1>2, <1>5, <1>6, <1>7, <1>8 DEF KInv

-----------------------------------------------------------------------------
(* The theorems                                                            *)

LEMMA InitInv == Init => KInv
<1>. SUFFICES ASSUME Init PROVE KInv
  OBVIOUS
<1>0. /\ generation = [c \in Chat |-> IF c \in config.warm THEN 1 ELSE 0]
      /\ workers = [c \in Chat |-> IF c \in config.warm THEN {1} ELSE {}]
      /\ lease = [c \in Chat |-> IF c \in config.warm THEN WarmLease ELSE NoLease]
      /\ run = [c \in Chat |-> FALSE]
      /\ retirement = [c \in Chat |-> None] /\ boot_lock = [c \in Chat |-> None]
      /\ task = [t \in Task |-> Idle] /\ ledger = [k \in Cell |-> "none"] /\ phase = "up"
      /\ config.warm \subseteq Chat /\ Cardinality(config.warm) <= config.max_live_kernels
  BY KernelsAssumption DEF Init
<1>1. Idle \in TaskRec /\ Idle.pc = "idle" /\ Idle.chat = None
  BY DEF Idle, TaskRec, Victims, Pc, Reason
<1>2. /\ NoLease \in LeaseRec /\ NoLease.gen = 0 /\ ~NoLease.closing /\ NoLease.reason = "none"
      /\ WarmLease \in LeaseRec /\ WarmLease.gen = 1 /\ ~WarmLease.closing
      /\ WarmLease.reason = "none"
  BY DEF WarmLease, NoLease, LeaseRec, Reason
<1>3. Maps
  BY <1>0, <1>1, <1>2 DEF Maps
<1>4. \A t \in Task : TaskOK(t)
  BY <1>0, <1>1 DEF TaskOK, CellOK, CloserOK, TeardownOK, Locking
<1>5. \A c \in Chat : LeaseOK(c) /\ CloserWaits(c)
  <2>1. ASSUME NEW c \in Chat, c \in config.warm
        PROVE  LeaseOK(c) /\ CloserWaits(c)
    BY <1>0, <1>2, <2>1 DEF LeaseOK, CloserWaits
  <2>2. ASSUME NEW c \in Chat, c \notin config.warm
        PROVE  LeaseOK(c) /\ CloserWaits(c)
    BY <1>0, <1>2, <2>2 DEF LeaseOK, CloserWaits
  <2>. QED
    BY <2>1, <2>2
<1>6. WithinCapacity
  <2>1. Live = config.warm
    BY <1>0, <1>2 DEF Live
  <2>. QED
    BY <1>0, <2>1 DEF WithinCapacity
<1>. QED
  BY <1>3, <1>4, <1>5, <1>6 DEF KInv

(* The configuration stays, and tasks wait for tasks. *)
LEMMA InitQueued == Init => Queued
BY DEF Init, Queued

LEMMA NextQueued ==
  ASSUME Queued, [Next]_vars
  PROVE  Queued' /\ Fixed
<1>0. config \in Config /\ ahead \in [Task -> SUBSET Task]
  BY DEF Queued
<1>1. ASSUME NEW t, NEW c, Queues(t, c)
      PROVE  ahead' \in [Task -> SUBSET Task]
  <2>1. Waiting(c) \subseteq Task
    BY DEF Waiting
  <2>. QED
    BY <1>0, <1>1, <2>1 DEF Queues
<1>2. ASSUME NEW K, Dequeued(K)
      PROVE  ahead' \in [Task -> SUBSET Task]
  BY <1>0, <1>2 DEF Dequeued
<1>3. ASSUME NEW t, NEW V, NextOf(t, V)
      PROVE  ahead' \in [Task -> SUBSET Task]
  BY <1>1, <1>3 DEF NextOf
<1>. DEFINE Good == config' = config /\ ahead' \in [Task -> SUBSET Task]
<1>4. ASSUME NEW t \in Task, Teardown(t)
      PROVE  Good
  <2>1. Returns(t) => ahead' \in [Task -> SUBSET Task]
    BY <1>2, <1>3 DEF Returns, GoesOn
  <2>2. CASE _close_lease_serialized(t)
    BY <1>2, <2>1, <2>2 DEF _close_lease_serialized
  <2>3. CASE close_lease_with_checkpoint(t)
    BY <1>0, <2>3 DEF close_lease_with_checkpoint, fences
  <2>4. CASE close_lease_ends(t)
    BY <2>1, <2>4 DEF close_lease_ends
  <2>. QED
    BY <1>4, <2>2, <2>3, <2>4 DEF Teardown
<1>5. ASSUME NEW k \in Cell, Boot(k)
      PROVE  Good
  <2>1. CASE _lease(k)
    BY <1>2, <2>1 DEF _lease
  <2>2. CASE reap_idle(k)
    BY <1>0, <1>3, <2>2 DEF reap_idle
  <2>3. CASE _evict_for_capacity(k)
    BY <1>0, <1>3, <2>3 DEF _evict_for_capacity
  <2>4. CASE \/ _lease_drains(k) \/ _lease_replaced(k) \/ boot_slot(k)
             \/ start_succeeds(k) \/ start_fails(k) \/ boot_retry(k)
    BY <1>0, <2>4 DEF _lease_drains, _lease_replaced, boot_slot, start_succeeds, start_fails,
                      boot_retry, fences
  <2>. QED
    BY <1>5, <2>1, <2>2, <2>3, <2>4 DEF Boot
<1>6. ASSUME NEW k \in Cell, Run(k)
      PROVE  Good
  BY <1>0, <1>6 DEF Run, lease_execute, cell_done, _interrupt_repl_or_kill,
     promote_terminal_intent, interrupted_softly, killed, process_died, cell_lost_worker,
     execute_ends, fences
<1>7. ASSUME NEW k \in Cell, cancel(k) \/ \E c \in Chat : execute(k, c)
      PROVE  Good
  BY <1>1, <1>2, <1>7 DEF cancel, CancelAll, execute
<1>8. ASSUME NEW c \in Chat,
             \/ reserve_run(c) \/ finish_run(c) \/ _close_resources(c) \/ worker_dies(c)
             \/ interrupt(c, "steer") \/ interrupt(c, "stop")
             \/ \E o \in Op : restart(o, c) \/ release_idle(o, c)
      PROVE  Good
  <2>1. CASE \E o \in Op : restart(o, c) \/ release_idle(o, c)
    BY <1>1, <2>1 DEF restart, release_idle
  <2>. QED
    BY <1>0, <1>8, <2>1 DEF reserve_run, finish_run, _close_resources, worker_dies, interrupt,
                            fences
<1>9. ASSUME NEW o \in Op, _kernel_reaper_loop(o)
      PROVE  Good
  BY <1>3, <1>9 DEF _kernel_reaper_loop
<1>10. ASSUME shutdown \/ shutdown_closes \/ shutdown_ends
       PROVE  Good
  <2>1. CASE shutdown
    BY <1>2, <2>1 DEF shutdown, CancelAll
  <2>2. CASE shutdown_closes
    <3>1. \A c \in Chat : Waiting(c) \subseteq Task /\ c \in Task
      BY DEF Waiting, Task
    <3>2. Live \subseteq Chat
      BY DEF Live
    <3>. QED
      BY <1>0, <2>2, <3>1, <3>2 DEF shutdown_closes
  <2>3. CASE shutdown_ends
    BY <1>0, <2>3 DEF shutdown_ends, fences
  <2>. QED
    BY <1>10, <2>1, <2>2, <2>3
<1>11. ASSUME crash \/ _recover_interrupted_cell_evidence
       PROVE  Good
  BY <1>0, <1>11 DEF crash, _recover_interrupted_cell_evidence, fences
<1>12. ASSUME UNCHANGED vars
       PROVE  Good
  BY <1>0, <1>12 DEF vars, fences
<1>13. Good
  BY <1>4, <1>5, <1>6, <1>7, <1>8, <1>9, <1>10, <1>11, <1>12 DEF Next
<1>. QED
  BY <1>0, <1>13 DEF Queued, Fixed

LEMMA StutterInv == KInv /\ Fixed /\ UNCHANGED vars => KInv'
<1>. SUFFICES ASSUME KInv, Fixed, UNCHANGED vars PROVE KInv'
  OBVIOUS
<1>0. /\ generation' = generation /\ workers' = workers /\ run' = run /\ phase' = phase
      /\ retirement' = retirement /\ boot_lock' = boot_lock
      /\ task' = task /\ ledger' = ledger /\ lease' = lease
  BY DEF vars, fences
<1>1. Maps'
  BY <1>0 DEF KInv, Maps
<1>2. \A d \in Chat : LeaseChange(d, {})
  BY <1>0 DEF LeaseChange
<1>. QED
  BY <1>0, <1>1, <1>2, AllSame, NoHands, TaskStep

LEMMA NextInv == KInv /\ Fixed /\ [Next]_vars => KInv'
<1>. SUFFICES ASSUME KInv, Fixed, Next PROVE KInv'
  BY StutterInv
<1>1. ASSUME NEW t \in Task, Teardown(t)
      PROVE  KInv'
  BY <1>1, Step__close_lease_serialized, Step_close_lease_with_checkpoint, Step_close_lease_ends
     DEF Teardown
<1>2. ASSUME NEW k \in Cell, Boot(k)
      PROVE  KInv'
  BY <1>2, Step__lease, Step__lease_drains, Step__lease_replaced, Step_boot_slot, Step_reap_idle,
     Step__evict_for_capacity, Step_start_succeeds, Step_start_fails, Step_boot_retry DEF Boot
<1>3. ASSUME NEW k \in Cell, Run(k)
      PROVE  KInv'
  BY <1>3, Step_lease_execute, Step_cell_done, Step__interrupt_repl_or_kill,
     Step_promote_terminal_intent, Step_interrupted_softly, Step_killed, Step_cell_lost_worker,
     Step_execute_ends DEF Run
<1>4. ASSUME NEW k \in Cell, cancel(k) \/ \E c \in Chat : execute(k, c)
      PROVE  KInv'
  BY <1>4, Step_cancel, Step_execute
<1>5. ASSUME NEW c \in Chat,
             \/ reserve_run(c) \/ finish_run(c) \/ _close_resources(c) \/ worker_dies(c)
             \/ interrupt(c, "steer") \/ interrupt(c, "stop")
             \/ \E o \in Op : restart(o, c) \/ release_idle(o, c)
      PROVE  KInv'
  BY <1>5, Step_reserve_run, Step_finish_run, Step__close_resources, Step_worker_dies,
     Step_interrupt, Step_restart, Step_release_idle
<1>6. ASSUME NEW o \in Op, _kernel_reaper_loop(o)
      PROVE  KInv'
  BY <1>6, Step__kernel_reaper_loop
<1>7. CASE shutdown \/ shutdown_closes \/ shutdown_ends
  BY <1>7, Step_shutdown, Step_shutdown_closes, Step_shutdown_ends
<1>8. CASE crash \/ _recover_interrupted_cell_evidence
  BY <1>8, Step_crash, Step__recover
<1>. QED
  BY <1>1, <1>2, <1>3, <1>4, <1>5, <1>6, <1>7, <1>8 DEF Next

(* Every reachable state satisfies the invariant in parts. *)
THEOREM KernelsSafety == Spec => [](KInv /\ Queued)
<1>1. Init => KInv /\ Queued
  BY InitInv, InitQueued
<1>2. KInv /\ Queued /\ [Next]_vars => (KInv /\ Queued)'
  BY NextInv, NextQueued
<1>. QED
  BY <1>1, <1>2, PTL DEF Spec

(* The leases, their workers, the capacity and the locks of KernelManager are consistent *)
(* in every state, for any chats, cells, operators, faults and limits.                   *)
THEOREM KernelsInvariant == Spec => []KernelsInv
<1>1. KInv /\ Queued => KernelsInv
  BY PartsMakeInv
<1>. QED
  BY <1>1, KernelsSafety, PTL

(* No eviction, idle sweep or operator release takes the worker from under a run of its  *)
(* chat: who closes a lease for such a reason holds the fence that refuses the run.      *)
THEOREM RunKeepsKernelCorrect == Spec => []RunKeepsKernel
<1>1. KInv /\ Queued => RunKeepsKernel
  BY PartsMakeInv
<1>. QED
  BY <1>1, KernelsSafety, PTL

(* Every cell that was admitted has its row of evidence when its request is over, in any *)
(* order of kills, cancellations, shutdowns and crashes.                                 *)
THEOREM RecordedCorrect == Spec => []AdmittedIsRecorded
<1>1. KInv /\ Queued => AdmittedIsRecorded
  BY PartsMakeInv
<1>. QED
  BY <1>1, KernelsSafety, PTL
=============================================================================
