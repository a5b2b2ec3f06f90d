------------------------------ MODULE Kernels ------------------------------
(***************************************************************************)
(* Persistent Python kernels: one worker process per chat, whose values    *)
(* outlive the cells that made them.  A cell finds the lease of its chat   *)
(* or boots one under the chat's boot lock and a boot slot, evicting an    *)
(* idle chat's lease when the limit is reached; then it runs under the     *)
(* lease's execution lock.  Leases are closed by evictions and the idle    *)
(* sweep, by operators, by the cells that must be killed and by shutdown,  *)
(* and workers die.  Every admitted cell leaves one row of evidence.       *)
(*                                                                         *)
(* Everything runs on one event loop: code between two awaits is one step. *)
(* A close is a shielded task of its own, so it has one flag per lease and *)
(* everybody who asked for it waits until the worker is gone.              *)
(***************************************************************************)
EXTENDS Naturals, FiniteSets

CONSTANTS
    Chat,
    Cell,             \* requests to execute a cell, numbered in the order they come
    Op,               \* operator restarts and releases, and idle sweeps
    None,             \* nobody
    Config            \* configurations, each with what happens before and during a behaviour:
                      \* max_live_kernels, max_boot_concurrency; the chats that are warm
                      \* (have a worker from earlier requests) and those that have users;
                      \* the operators that act; bounds on the runs of chats and on faults
                      \* (failed boots, dead workers, crashes, interrupts, cancelled cells)

ASSUME KernelsAssumption ==
    /\ Chat \cap (Cell \cup Op) = {} /\ Cell \cap Op = {} /\ None \notin Chat \cup Cell \cup Op
    /\ Cell \subseteq Nat /\ IsFiniteSet(Chat \cup Cell \cup Op)
    /\ \A x \in Config :
         /\ x.max_live_kernels \in Nat \ {0} /\ x.max_boot_concurrency \in Nat \ {0}
         /\ x.warm \subseteq Chat /\ Cardinality(x.warm) <= x.max_live_kernels
         /\ x.users \subseteq Chat /\ x.operators \subseteq Op
         /\ x.runs \in Nat /\ x.faults \in Nat

VARIABLES
    config,       \* the configuration the process runs with
    generation,   \* durable counter of the chat's generations
    workers,      \* generations whose lease is not closed: a process may be alive
    lease,        \* the chat's lease in the manager's map and in the registry
    run,          \* chats with an admitted run
    retirement,   \* who holds the chat's kernel_retirement fence
    boot_lock,    \* who holds the chat's boot lock
    ahead,        \* the tasks that wait for the same boot lock and came before
    task,         \* tasks: cells, operators and, named by a chat, the closers of shutdown
    ledger,       \* evidence of each cell
    phase,        \* up, stopping, closed or down
    count         \* how often each bounded event has happened

fences == <<run, config, retirement, boot_lock, ahead>>
vars   == <<generation, workers, lease, fences, task, ledger, phase, count>>

Task == Cell \cup Op \cup Chat

NoLease == [gen |-> 0, state |-> "absent", dead |-> FALSE, closing |-> FALSE, reason |-> "none"]
NewLease(g) == [NoLease EXCEPT !.gen = g, !.state = "starting"]
WarmLease == [NoLease EXCEPT !.gen = 1, !.state = "ready"]
Idle == [pc |-> "idle", chat |-> None, gen |-> 0, target |-> None, victims |-> {},
         attempt |-> 0, reason |-> "none", intent |-> "none"]
Done == [Idle EXCEPT !.pc = "done"]

\* Reasons that give way to a run of the chat.
Automatic == {"eviction", "release"}
\* A cell holds a boot slot, and is in _boot_tasks, between these points.
Booting   == {"reaping", "evicting", "victim", "checkpoint", "retiring", "booting", "unbooting"}
\* A cell holds the execution lock of its lease.
OnWorker  == {"running", "interrupting", "dying", "finishing"}

Init ==
    /\ config \in Config
    /\ generation = [c \in Chat |-> IF c \in config.warm THEN 1 ELSE 0]
    /\ workers = [c \in Chat |-> IF c \in config.warm THEN {1} ELSE {}]
    /\ lease = [c \in Chat |-> IF c \in config.warm THEN WarmLease ELSE NoLease]
    /\ run = [c \in Chat |-> FALSE] /\ retirement = [c \in Chat |-> None]
    /\ boot_lock = [c \in Chat |-> None] /\ ahead = [t \in Task |-> {}]
    /\ task = [t \in Task |-> Idle] /\ ledger = [k \in Cell |-> "none"]
    /\ phase = "up"
    /\ count = [runs |-> 0, faults |-> 0]

-----------------------------------------------------------------------------
(* Pieces of the handlers                                                  *)

Counted(what, max) == count[what] < max /\ count' = [count EXCEPT ![what] = @ + 1]

Live == {c \in Chat : lease[c].gen # 0}
Slots == {k \in Cell : task[k].pc \in Booting}
Executing(c, g) == {k \in Cell : task[k].pc \in OnWorker /\ task[k].chat = c /\ task[k].gen = g}
Gone(c, g) == g \notin workers[c]

Goes(t, pc) == task' = [task EXCEPT ![t].pc = pc]

\* Boot locks are asyncio.Locks: they go to those who wait in the order they came.
Waiting(c) == {t \in Task : \/ task[t].pc = "locking" /\ task[t].chat = c
                            \/ task[t].pc = "victim" /\ task[t].target = c}
Free(t, c)   == boot_lock[c] = None /\ ahead[t] = {}
Queues(t, c) == ahead' = [u \in Task |-> (IF u = t THEN Waiting(c) ELSE ahead[u]) \ {t}]
Dequeued(K)  == ahead' = [u \in Task |-> IF u \in K THEN {} ELSE ahead[u] \ K]

\* What a task holds is released where its async with blocks end.
Without(holder, t) == [c \in Chat |-> IF holder[c] = t THEN None ELSE holder[c]]
Ends(t) ==
    /\ task' = [task EXCEPT ![t] = Done]
    /\ boot_lock' = Without(boot_lock, t) /\ retirement' = Without(retirement, t)

\* KernelLease.close: the first caller starts the teardown; a lease that is closed stays so.
close(c, why) ==
    lease' = [lease EXCEPT ![c] = IF @.closing \/ @.gen = 0 THEN @
                ELSE [@ EXCEPT !.state = "stopping", !.closing = TRUE, !.reason = why]]

\* The teardown ends with a dead worker and a lease in neither map.
_close_resources(c) ==
    /\ lease[c].closing
    /\ workers' = [workers EXCEPT ![c] = @ \ {lease[c].gen}]
    /\ lease' = [lease EXCEPT ![c] = NoLease]
    /\ UNCHANGED <<generation, fences, task, ledger, phase, count>>

-----------------------------------------------------------------------------
(* Runs of the chats, as far as kernels see them                           *)

\* try_reserve_run: a run does not start while a retirement is under way.
reserve_run(c) ==
    /\ phase = "up" /\ c \in config.users /\ ~run[c] /\ retirement[c] = None
    /\ Counted("runs", config.runs)
    /\ run' = [run EXCEPT ![c] = TRUE]
    /\ UNCHANGED <<generation, workers, lease, config, retirement, boot_lock, ahead, task, ledger, phase>>

finish_run(c) ==
    /\ run[c] /\ \A k \in Cell : task[k].chat # c
    /\ run' = [run EXCEPT ![c] = FALSE]
    /\ UNCHANGED <<generation, workers, lease, config, retirement, boot_lock, ahead, task, ledger, phase,
                   count>>

-----------------------------------------------------------------------------
(* A cell: finding or booting the lease                                    *)

\* execute: a tool call of the chat's run.
execute(k, c) ==
    /\ phase = "up" /\ run[c] /\ task[k].pc = "idle"
    /\ \A j \in Cell : j < k => task[j].pc # "idle"
    /\ task' = [task EXCEPT ![k].pc = "locking", ![k].chat = c]
    /\ Queues(k, c)
    /\ UNCHANGED <<generation, workers, lease, run, config, retirement, boot_lock, ledger, phase, count>>

\* The cell leaves _lease with a lease and is admitted: evidence comes first.
Admitted(k, c) ==
    /\ task' = [task EXCEPT ![k].pc = "queued", ![k].gen = lease[c].gen, ![k].attempt = 0]
    /\ boot_lock' = Without(boot_lock, k)
    /\ ledger' = [ledger EXCEPT ![k] = "admitted"]

\* Under the boot lock: a matching lease is used, a busy one with another identity is
\* drained, anything else is closed and replaced.
_lease(k) ==
    LET c == task[k].chat
        l == lease[c] IN
    /\ task[k].pc = "locking" /\ Free(k, c) /\ Dequeued({k})
    /\ \/ /\ phase # "up" /\ Ends(k) /\ UNCHANGED <<lease, ledger>>
       \/ /\ phase = "up" /\ l.gen # 0 /\ ~l.dead /\ l.state \in {"ready", "busy"}
          /\ Admitted(k, c) /\ UNCHANGED <<lease, retirement>>
       \/ /\ phase = "up" /\ boot_lock' = [boot_lock EXCEPT ![c] = k]
          /\ CASE l.gen = 0 -> Goes(k, "slot") /\ UNCHANGED lease
               [] l.gen # 0 /\ l.state = "busy" /\ ~l.dead ->
                    /\ task' = [task EXCEPT ![k].pc = "draining", ![k].gen = l.gen]
                    /\ UNCHANGED lease
               [] OTHER ->
                    /\ task' = [task EXCEPT ![k].pc = "replacing", ![k].gen = l.gen]
                    /\ close(c, "replaced")
          /\ UNCHANGED <<retirement, ledger>>
    /\ UNCHANGED <<generation, workers, run, config, phase, count>>

\* The identity changed while a cell runs: its end is awaited first.
_lease_drains(k) ==
    LET c == task[k].chat IN
    /\ task[k].pc = "draining" /\ Executing(c, task[k].gen) = {}
    /\ \/ phase # "up" /\ Ends(k) /\ UNCHANGED lease
       \/ /\ phase = "up" /\ Goes(k, "replacing")
          /\ IF Gone(c, task[k].gen) THEN UNCHANGED lease ELSE close(c, "replaced")
          /\ UNCHANGED <<boot_lock, retirement>>
    /\ UNCHANGED <<generation, workers, run, config, ahead, ledger, phase, count>>

_lease_replaced(k) ==
    /\ task[k].pc = "replacing" /\ Gone(task[k].chat, task[k].gen)
    /\ IF task[k].intent = "stop" THEN Ends(k)
       ELSE task' = [task EXCEPT ![k].pc = "slot", ![k].gen = 0]
            /\ UNCHANGED <<boot_lock, retirement>>
    /\ UNCHANGED <<generation, workers, lease, run, config, ahead, ledger, phase, count>>

boot_slot(k) ==
    /\ task[k].pc = "slot" /\ Cardinality(Slots) < config.max_boot_concurrency
    /\ IF phase # "up" THEN Ends(k)
       ELSE /\ task' = [task EXCEPT ![k].pc = "reaping", ![k].attempt = 1]
            /\ UNCHANGED <<boot_lock, retirement>>
    /\ UNCHANGED <<generation, workers, lease, run, config, ahead, ledger, phase, count>>

\* Leases an automatic teardown may choose: idle, and of a chat without a run.
Candidates == {c \in Live : lease[c].state = "ready" /\ ~run[c]}

Victim(c) == [chat |-> c, gen |-> lease[c].gen]

\* The task turns to the next of the victims V, in whatever order the map gives them.
NextOf(t, V) ==
    \E v \in V :
        /\ task' = [task EXCEPT ![t].pc = "victim", ![t].target = v.chat, ![t].gen = v.gen,
                                ![t].victims = V \ {v}, ![t].reason = "eviction"]
        /\ Queues(t, v.chat)

\* reap_idle, which every boot does first, lists its victims and then closes one after the
\* other; which leases have been idle for long enough is left open.
reap_idle(k) ==
    /\ task[k].pc = "reaping"
    /\ \/ \E C \in SUBSET Candidates : NextOf(k, {Victim(c) : c \in C})
       \/ Goes(k, "evicting") /\ UNCHANGED ahead
    /\ UNCHANGED <<generation, workers, lease, run, config, retirement, boot_lock, ledger, phase, count>>

\* The next generation: a candidate in the registry and in the manager's map.
Installs(k) ==
    LET c == task[k].chat
        g == generation[c] + 1 IN
    /\ generation' = [generation EXCEPT ![c] = g]
    /\ workers' = [workers EXCEPT ![c] = @ \cup {g}]
    /\ lease' = [lease EXCEPT ![c] = NewLease(g)]
    /\ Goes(k, "booting")

\* Mutant: only finished boots are counted.
_evict_for_capacity_ready(k) ==
    /\ task[k].pc = "evicting"
    /\ Cardinality({c \in Live : lease[c].state \in {"ready", "busy"}}) < config.max_live_kernels
    /\ Installs(k) /\ UNCHANGED <<fences, ledger, phase, count>>

\* The count of live leases and the installation of the new one are one step: no await
\* lies between them, so two boots cannot both take the last place.  (Shutdown cancels
\* every task behind a boot slot: the checks for it made here refuse nobody.)
_evict_for_capacity(k) ==
    /\ task[k].pc = "evicting"
    /\ \/ /\ Cardinality(Live) < config.max_live_kernels
          /\ Installs(k) /\ UNCHANGED <<boot_lock, retirement, ahead>>
       \/ /\ Cardinality(Live) >= config.max_live_kernels
          /\ \E c \in Candidates : NextOf(k, {Victim(c)})
          /\ UNCHANGED <<generation, workers, lease, boot_lock, retirement>>
       \/ /\ Cardinality(Live) >= config.max_live_kernels /\ Candidates = {}
          /\ Ends(k) /\ UNCHANGED <<generation, workers, lease, ahead>>
    /\ UNCHANGED <<run, config, ledger, phase, count>>

\* KernelLease.start succeeds.
start_succeeds(k) ==
    LET c == task[k].chat IN
    /\ task[k].pc = "booting" /\ ~lease[c].dead /\ task[k].intent # "stop"
    /\ lease' = [lease EXCEPT ![c].state = "ready"]
    /\ Admitted(k, c)
    /\ UNCHANGED <<generation, workers, run, config, retirement, ahead, phase, count>>

\* A boot fails, or is cancelled: the lease it installed is closed first.
start_fails(k) ==
    /\ task[k].pc = "booting"
    /\ IF task[k].intent = "stop" \/ lease[task[k].chat].dead THEN UNCHANGED count
       ELSE Counted("faults", config.faults)
    /\ task' = [task EXCEPT ![k].pc = "unbooting", ![k].gen = lease[task[k].chat].gen]
    /\ close(task[k].chat, "boot_failed")
    /\ UNCHANGED <<generation, workers, fences, ledger, phase>>

\* One retry, unless the cell was cancelled.
boot_retry(k) ==
    /\ task[k].pc = "unbooting" /\ Gone(task[k].chat, task[k].gen)
    /\ IF task[k].intent = "stop" \/ task[k].attempt = 2 THEN Ends(k)
       ELSE task' = [task EXCEPT ![k].pc = "reaping", ![k].attempt = 2, ![k].gen = 0]
            /\ UNCHANGED <<boot_lock, retirement>>
    /\ UNCHANGED <<generation, workers, lease, run, config, ahead, ledger, phase, count>>

-----------------------------------------------------------------------------
(* Teardown of a chat's lease, by a boot, an operator, a sweep or shutdown *)

\* After the teardown a sweep goes on to its next victim, and a boot looks for room again
\* when there is none left; the others are done.
GoesOn(t) ==
    LET ends == task[t].intent = "stop"
        V == task[t].victims
    IN  \/ ~ends /\ V # {} /\ NextOf(t, V)
        \/ /\ ends \/ V = {}
           /\ task' = [task EXCEPT ![t] =
                IF ends \/ t \notin Cell THEN Done
                ELSE [@ EXCEPT !.pc = "evicting", !.target = None, !.gen = 0, !.reason = "none"]]
           /\ Dequeued({t})

\* Mutant: a boot keeps the lock of its victim until it has booted.
Returns_locked(t) ==
    /\ GoesOn(t)
    /\ UNCHANGED boot_lock /\ retirement' = Without(retirement, t)

Returns(t) ==
    /\ GoesOn(t)
    /\ boot_lock' = IF t \in Cell /\ task[t].intent # "stop"
                      THEN [boot_lock EXCEPT ![task[t].target] = None]
                    ELSE Without(boot_lock, t)
    /\ retirement' = Without(retirement, t)

\* Mutant: an automatic teardown does not look for a run.
claim_kernel_retirement_blind(t) ==
    /\ task[t].reason \in Automatic => retirement[task[t].target] = None
    /\ retirement' = [retirement EXCEPT ![task[t].target] =
                        IF task[t].reason \in Automatic THEN t ELSE @]

\* The fence that keeps a run from being admitted; refused while one is.
claim_kernel_retirement(t) ==
    /\ task[t].reason \in Automatic => ~run[task[t].target] /\ retirement[task[t].target] = None
    /\ retirement' = [retirement EXCEPT ![task[t].target] =
                        IF task[t].reason \in Automatic THEN t ELSE @]

\* Under the boot lock of the chat; the lease may have been closed or replaced since.
_close_lease_serialized(t) ==
    LET c == task[t].target IN
    /\ task[t].pc = "victim" /\ Free(t, c)
    /\ \/ /\ lease[c].gen = task[t].gen
          /\ claim_kernel_retirement(t)
          /\ boot_lock' = [boot_lock EXCEPT ![c] = t] /\ Dequeued({t})
          /\ Goes(t, "checkpoint")
       \/ /\ lease[c].gen # task[t].gen \/ (task[t].reason \in Automatic /\ run[c])
          /\ Returns(t)
    /\ UNCHANGED <<generation, workers, lease, run, config, ledger, phase, count>>

\* The checkpoint is awaited, then the lease is closed.
close_lease_with_checkpoint(t) ==
    /\ task[t].pc = "checkpoint"
    /\ Goes(t, "retiring")
    /\ close(task[t].target, task[t].reason)
    /\ UNCHANGED <<generation, workers, fences, ledger, phase, count>>

close_lease_ends(t) ==
    /\ task[t].pc = "retiring" /\ Gone(task[t].target, task[t].gen)
    /\ Returns(t)
    /\ UNCHANGED <<generation, workers, lease, run, config, ledger, phase, count>>

-----------------------------------------------------------------------------
(* A cell on its worker                                                    *)

Recorded(k) == ledger' = [ledger EXCEPT ![k] = "recorded"]
State(c, s) == lease' = [lease EXCEPT ![c].state = s]

\* Under the execution lock: a lease that is not ready any more refuses the cell, which
\* is recorded all the same.
lease_execute(k) ==
    LET c == task[k].chat
        g == task[k].gen IN
    /\ task[k].pc = "queued" /\ Executing(c, g) = {}
    /\ IF ~Gone(c, g) /\ lease[c].state = "ready"
         THEN State(c, "busy") /\ Goes(k, "running") /\ UNCHANGED <<boot_lock, retirement, ledger>>
         ELSE Recorded(k) /\ Ends(k) /\ UNCHANGED lease
    /\ UNCHANGED <<generation, workers, run, config, ahead, phase, count>>

\* The worker reports the end of the cell, and nobody asked for its interruption.
cell_done(k) ==
    LET c == task[k].chat IN
    /\ task[k].pc = "running" /\ task[k].intent = "none"
    /\ ~Gone(c, task[k].gen) /\ ~lease[c].closing /\ ~lease[c].dead
    /\ Goes(k, "finishing")
    /\ UNCHANGED <<generation, workers, lease, fences, ledger, phase, count>>

\* The cell notices an interrupt, or that its lease is being closed.
_interrupt_repl_or_kill(k) ==
    LET c == task[k].chat
        stop == task[k].intent # "steer" IN
    /\ task[k].pc = "running"
    /\ IF Gone(c, task[k].gen) THEN Goes(k, "finishing") /\ UNCHANGED lease
       ELSE /\ task[k].intent # "none" \/ lease[c].closing
            /\ task' = [task EXCEPT ![k].pc = "interrupting",
                                    ![k].intent = IF stop THEN "stop" ELSE @]
            /\ IF stop THEN State(c, "stopping") ELSE UNCHANGED lease
    /\ UNCHANGED <<generation, workers, fences, ledger, phase, count>>

\* A Stop that follows a Steer.
promote_terminal_intent(k) ==
    /\ task[k].pc = "interrupting" /\ task[k].intent = "stop"
    /\ ~Gone(task[k].chat, task[k].gen) /\ lease[task[k].chat].state = "busy"
    /\ State(task[k].chat, "stopping")
    /\ UNCHANGED <<generation, workers, fences, task, ledger, phase, count>>

\* The interrupted cell reaches a safe boundary within the grace, or whenever it does.
interrupted_softly(k) ==
    /\ task[k].pc = "interrupting"
    /\ Goes(k, "finishing")
    /\ IF Gone(task[k].chat, task[k].gen) THEN UNCHANGED lease
       ELSE ~lease[task[k].chat].dead /\ State(task[k].chat, "ready")
    /\ UNCHANGED <<generation, workers, fences, ledger, phase, count>>

\* The grace of a Stop is over.
killed(k) ==
    /\ task[k].pc = "interrupting" /\ task[k].intent = "stop"
    /\ ~Gone(task[k].chat, task[k].gen)
    /\ Goes(k, "dying") /\ close(task[k].chat, "killed")
    /\ UNCHANGED <<generation, workers, fences, ledger, phase, count>>

process_died(k) ==
    /\ task[k].pc \in {"running", "interrupting"}
    /\ ~Gone(task[k].chat, task[k].gen) /\ lease[task[k].chat].dead
    /\ Goes(k, "dying") /\ close(task[k].chat, "process_died")
    /\ UNCHANGED <<generation, workers, fences, ledger, phase, count>>

cell_lost_worker(k) ==
    /\ task[k].pc = "dying" /\ Gone(task[k].chat, task[k].gen)
    /\ Goes(k, "finishing")
    /\ UNCHANGED <<generation, workers, lease, fences, ledger, phase, count>>

\* Mutant: a cell that lost its worker leaves no row.
execute_ends_unrecorded(k) ==
    /\ task[k].pc = "finishing"
    /\ IF Gone(task[k].chat, task[k].gen) THEN UNCHANGED <<lease, ledger>>
       ELSE /\ IF lease[task[k].chat].state # "stopping" THEN State(task[k].chat, "ready")
               ELSE UNCHANGED lease
            /\ Recorded(k)
    /\ Ends(k)
    /\ UNCHANGED <<generation, workers, run, config, ahead, phase, count>>

\* The finally of lease.execute, and the row of evidence.
execute_ends(k) ==
    LET c == task[k].chat IN
    /\ task[k].pc = "finishing"
    /\ IF ~Gone(c, task[k].gen) /\ lease[c].state # "stopping" THEN State(c, "ready")
       ELSE UNCHANGED lease
    /\ Recorded(k) /\ Ends(k)
    /\ UNCHANGED <<generation, workers, run, config, ahead, phase, count>>

-----------------------------------------------------------------------------
(* Users, operators and the process                                        *)

\* The intent of an interrupt of the cell on c's worker; a Steer never undoes a Stop.
Interrupts(c, intent) ==
    task' = [t \in Task |->
        IF t \in Executing(c, lease[c].gen) /\ task[t].pc \in {"running", "interrupting"}
              /\ task[t].intent # "stop"
        THEN [task[t] EXCEPT !.intent = intent] ELSE task[t]]

\* A cell that exceeds its deadline is interrupted like by a Stop.
interrupt(c, intent) ==
    /\ lease[c].state = "busy" /\ Counted("faults", config.faults)
    /\ Interrupts(c, intent)
    /\ UNCHANGED <<generation, workers, lease, fences, ledger, phase>>

\* What cancelling the task of a cell does to it: a close under way is finished first,
\* a cell on its worker is interrupted like a Stop.
Cancelled(k) ==
    IF task[k].pc \in {"replacing", "retiring", "booting", "unbooting"} \cup OnWorker
    THEN [task[k] EXCEPT !.intent = "stop"] ELSE Done

CancelAll(K) ==
    /\ task' = [t \in Task |-> IF t \in K THEN Cancelled(t) ELSE task[t]]
    /\ LET ended == {k \in K : Cancelled(k) = Done}
           Freed(holder) == [c \in Chat |-> IF holder[c] \in ended THEN None ELSE holder[c]] IN
       boot_lock' = Freed(boot_lock) /\ retirement' = Freed(retirement) /\ Dequeued(ended)

\* Stop of the run: its cell is cancelled; one that was admitted is recorded.
cancel(k) ==
    /\ task[k].pc \notin {"idle", "done", "finishing"} /\ task[k].intent # "stop"
    /\ Counted("faults", config.faults)
    /\ CancelAll({k})
    /\ IF task[k].pc = "queued" THEN Recorded(k) ELSE UNCHANGED ledger
    /\ UNCHANGED <<generation, workers, lease, run, config, phase>>

Closer(c, why) ==
    [Idle EXCEPT !.pc = "victim", !.target = c, !.gen = lease[c].gen, !.reason = why]

restart(o, c) ==
    /\ o \in config.operators /\ task[o].pc = "idle" /\ c \in Live
    /\ task' = [t \in Task |->
                  IF t = o THEN Closer(c, "restart")
                  ELSE IF lease[c].state = "busy" /\ t \in Executing(c, lease[c].gen)
                          /\ task[t].pc \in {"running", "interrupting"}
                  THEN [task[t] EXCEPT !.intent = "stop"] ELSE task[t]]
    /\ Queues(o, c)
    /\ UNCHANGED <<generation, workers, lease, run, config, retirement, boot_lock, ledger, phase, count>>

\* Gives way to a run.
release_idle(o, c) ==
    /\ o \in config.operators /\ task[o].pc = "idle" /\ c \in Live /\ lease[c].state = "ready"
    /\ task' = [task EXCEPT ![o] = Closer(c, "release")] /\ Queues(o, c)
    /\ UNCHANGED <<generation, workers, lease, run, config, retirement, boot_lock, ledger, phase, count>>

\* The periodic reap_idle.
_kernel_reaper_loop(o) ==
    /\ o \in config.operators /\ task[o].pc = "idle"
    /\ \E C \in SUBSET Candidates : NextOf(o, {Victim(c) : c \in C})
    /\ UNCHANGED <<generation, workers, lease, run, config, retirement, boot_lock, ledger, phase, count>>

\* Boots are cancelled and awaited before the leases are closed.
shutdown ==
    /\ phase = "up" /\ phase' = "stopping"
    /\ CancelAll(Slots)
    /\ UNCHANGED <<generation, workers, lease, run, config, ledger, count>>

shutdown_closes ==
    /\ phase = "stopping" /\ Slots = {} /\ \A c \in Chat : task[c].pc = "idle"
    /\ task' = [t \in Task |-> IF t \notin Chat THEN task[t]
                               ELSE IF t \in Live THEN Closer(t, "shutdown") ELSE Done]
    /\ ahead' = [t \in Task |-> IF t \in Live THEN Waiting(t) ELSE ahead[t]]
    /\ UNCHANGED <<generation, workers, lease, run, config, retirement, boot_lock, ledger, phase, count>>

shutdown_ends ==
    /\ phase = "stopping" /\ \A c \in Chat : task[c].pc = "done"
    /\ phase' = "closed"
    /\ UNCHANGED <<generation, workers, lease, fences, task, ledger, count>>

worker_dies(c) ==
    /\ c \in Live /\ ~lease[c].dead /\ Counted("faults", config.faults)
    /\ lease' = [lease EXCEPT ![c].dead = TRUE]
    /\ UNCHANGED <<generation, workers, fences, task, ledger, phase>>

\* The process dies with its tasks and its workers.
crash ==
    /\ phase \in {"up", "stopping"} /\ Counted("faults", config.faults)
    /\ phase' = "down"
    /\ workers' = [c \in Chat |-> {}] /\ lease' = [c \in Chat |-> NoLease]
    /\ run' = [c \in Chat |-> FALSE] /\ retirement' = [c \in Chat |-> None]
    /\ boot_lock' = [c \in Chat |-> None] /\ ahead' = [t \in Task |-> {}]
    /\ task' = [t \in Task |-> IF t \in Chat \/ task[t].pc = "idle" THEN Idle ELSE Done]
    /\ UNCHANGED <<generation, config, ledger>>

\* A new manager: cells that were admitted and never settled get a row of unknown effect.
_recover_interrupted_cell_evidence ==
    /\ phase = "down" /\ phase' = "up"
    /\ ledger' = [k \in Cell |-> IF ledger[k] = "admitted" THEN "recorded" ELSE ledger[k]]
    /\ UNCHANGED <<generation, workers, lease, fences, task, count>>

-----------------------------------------------------------------------------
Boot(k) ==
    \/ _lease(k) \/ _lease_drains(k) \/ _lease_replaced(k) \/ boot_slot(k) \/ reap_idle(k)
    \/ _evict_for_capacity(k) \/ start_succeeds(k) \/ start_fails(k) \/ boot_retry(k)

Run(k) ==
    \/ lease_execute(k) \/ cell_done(k) \/ _interrupt_repl_or_kill(k)
    \/ promote_terminal_intent(k) \/ interrupted_softly(k) \/ killed(k)
    \/ process_died(k) \/ cell_lost_worker(k) \/ execute_ends(k)

Teardown(t) ==
    _close_lease_serialized(t) \/ close_lease_with_checkpoint(t) \/ close_lease_ends(t)

Next ==
    \/ \E t \in Task : Teardown(t)
    \/ \E k \in Cell : Boot(k) \/ Run(k) \/ cancel(k) \/ \E c \in Chat : execute(k, c)
    \/ \E c \in Chat :
         \/ reserve_run(c) \/ finish_run(c) \/ _close_resources(c) \/ worker_dies(c)
         \/ interrupt(c, "steer") \/ interrupt(c, "stop")
         \/ \E o \in Op : restart(o, c) \/ release_idle(o, c)
    \/ \E o \in Op : _kernel_reaper_loop(o)
    \/ shutdown \/ shutdown_closes \/ shutdown_ends
    \/ crash \/ _recover_interrupted_cell_evidence

\* What a task does next.
Step(t) == (t \in Cell /\ (Boot(t) \/ Run(t))) \/ Teardown(t)

(* The event loop runs every ready task, a teardown ends (its waits have       *)
(* timeouts), cells end, and the host is started again after a crash.  Nobody  *)
(* need start, end or interrupt a run.                                         *)
Fairness ==
    /\ \A t \in Task : WF_vars(Step(t))
    /\ \A c \in Chat : WF_vars(_close_resources(c))
    /\ WF_vars(shutdown_closes \/ shutdown_ends)
    /\ WF_vars(_recover_interrupted_cell_evidence)

Spec == Init /\ [][Next]_vars
FairSpec == Spec /\ Fairness

-----------------------------------------------------------------------------
(* Properties                                                              *)

Pc == {"idle", "locking", "draining", "replacing", "slot", "queued", "done"} \cup Booting
        \cup OnWorker
Teardowns == {"victim", "checkpoint", "retiring"}
Reason == {"none", "replaced", "boot_failed", "killed", "process_died", "restart", "shutdown"}
            \cup Automatic

KernelsTypeOK ==
    /\ generation \in [Chat -> Nat] /\ workers \in [Chat -> SUBSET Nat]
    /\ lease \in [Chat -> [gen : Nat, dead : BOOLEAN, closing : BOOLEAN, reason : Reason,
                           state : {"absent", "starting", "ready", "busy", "stopping"}]]
    /\ config \in Config /\ run \in [Chat -> BOOLEAN] /\ retirement \in [Chat -> Task \cup {None}]
    /\ boot_lock \in [Chat -> Task \cup {None}] /\ ahead \in [Task -> SUBSET Task]
    /\ task \in [Task -> [pc : Pc, chat : Chat \cup {None}, gen : Nat, attempt : Nat,
                          target : Chat \cup {None}, reason : Reason,
                          victims : SUBSET [chat : Chat, gen : Nat \ {0}],
                          intent : {"none", "steer", "stop"}]]
    /\ ledger \in [Cell -> {"none", "admitted", "recorded"}]
    /\ phase \in {"up", "stopping", "closed", "down"}
    /\ \A t \in Op \cup Chat : task[t].pc \in {"idle", "done"} \cup Teardowns

\* A chat never has two workers, old and new: what is not closed is the lease in the maps.
OneWorkerPerChat ==
    \A c \in Chat : workers[c] = IF lease[c].gen = 0 THEN {} ELSE {lease[c].gen}

\* Boots and evictions of several chats at once never exceed the admitted kernels.
WithinCapacity == Cardinality(Live) <= config.max_live_kernels

\* A manager that reports its shutdown complete has no worker left, nor ever again.
ShutdownLeavesNothing == phase = "closed" => Live = {}

\* A worker is killed with its values only for a Stop of the cell it runs: "A Steer
\* interrupts only the current cell and must never destroy this durable generation".
OnlyStopKills ==
    \A c \in Chat : lease[c].reason = "killed" =>
        \E k \in Executing(c, lease[c].gen) : task[k].intent = "stop"

\* Who boots holds the boot lock of its chat, which has a run; who tears a lease down
\* holds the boot lock of that chat, and one that gives way to runs its fence as well.
LocksAreHeld ==
    /\ \A k \in Cell :
         /\ task[k].pc \in {"idle", "done"} <=> task[k].chat = None
         /\ task[k].chat # None => run[task[k].chat]
         /\ task[k].pc \in {"draining", "replacing", "slot"} \cup Booting
              => boot_lock[task[k].chat] = k
    /\ \A t \in Task : task[t].pc \in {"checkpoint", "retiring"} =>
         /\ boot_lock[task[t].target] = t /\ task[t].target # task[t].chat
         /\ task[t].reason \in Automatic => retirement[task[t].target] = t /\ ~run[task[t].target]

\* What a task learned of a lease before it awaited is still so: a booting cell finds none,
\* or its own; a lease that a task closes is that one or gone; a cell is never on a worker
\* that has not started.
LeasesAreKnown ==
    /\ \A k \in Cell : LET x == task[k] IN
         /\ x.pc \in {"slot", "reaping", "evicting"} \cup Teardowns => lease[x.chat].gen = 0
         /\ x.pc = "booting" => /\ lease[x.chat].gen # 0 /\ ~lease[x.chat].closing
                                /\ lease[x.chat].state = "starting"
         /\ x.pc \in {"draining", "replacing", "unbooting"}
              => x.gen # 0 /\ lease[x.chat].gen \in {0, x.gen}
         /\ x.pc \in {"queued"} \cup OnWorker =>
              /\ x.gen \in 1..generation[x.chat]
              /\ lease[x.chat].gen = x.gen => lease[x.chat].state # "starting"
    /\ \A t \in Task : LET x == task[t] IN
         /\ x.pc \in Teardowns => x.target # None /\ x.gen # 0
         /\ x.pc \in {"checkpoint", "retiring"} => lease[x.target].gen \in {0, x.gen}
         /\ x.pc = "checkpoint" /\ x.reason \in Automatic => lease[x.target].gen = x.gen
    /\ \A c \in Chat :
         /\ lease[c].gen = 0 => lease[c] = NoLease
         /\ lease[c].gen <= generation[c]

\* The task waits until the lease of c is closed.
Closes(t, c) ==
    /\ task[t].gen = lease[c].gen
    /\ \/ t \in Cell /\ task[t].chat = c /\ task[t].pc \in {"replacing", "unbooting", "dying"}
       \/ task[t].target = c /\ task[t].pc = "retiring"

\* A lease that is being closed has somebody who waits for it, and who asked for a killing,
\* or holds the fence of the automatic teardown.
ClosersWait ==
    \A c \in Chat :
      /\ lease[c].closing => \E t \in Task : Closes(t, c)
      /\ lease[c].reason = "killed" =>
           \E k \in Cell : Closes(k, c) /\ task[k].pc = "dying" /\ task[k].intent = "stop"
      /\ lease[c].reason \in Automatic =>
           \E t \in Task : Closes(t, c) /\ task[t].pc = "retiring" /\ task[t].reason \in Automatic
      /\ ~lease[c].closing => lease[c].reason = "none"

\* Once shutdown has begun no boot goes on, and a lease whose closer is done does not return.
NothingBootsAgain ==
    /\ phase # "up" => \A k \in Slots : /\ task[k].pc \in {"retiring", "booting", "unbooting"}
                                        /\ task[k].intent = "stop"
    /\ phase \in {"up", "down"} => \A c \in Chat : task[c].pc = "idle"
    /\ phase = "down" => Live = {} /\ \A t \in Task : task[t].pc \in {"idle", "done"}
    /\ \A c \in Chat :
         /\ task[c].pc \in Teardowns => task[c].target = c /\ lease[c].gen \in {0, task[c].gen}
         /\ task[c].pc = "done" => lease[c].gen = 0

\* The leases are consistent with their workers, the capacity, shutdown and interrupts,
\* because of the locks, what is known under them, and who waits for what.
KernelsInv ==
    /\ KernelsTypeOK /\ OneWorkerPerChat /\ WithinCapacity
    /\ ShutdownLeavesNothing /\ OnlyStopKills
    /\ LocksAreHeld /\ LeasesAreKnown /\ ClosersWait /\ NothingBootsAgain

\* No eviction, idle sweep or operator release takes the worker from under a run of its
\* chat, although checkpoint and teardown await after the fence was claimed.
RunKeepsKernel ==
    \A c \in Chat : run[c] => lease[c].reason \notin Automatic

\* Every cell that was admitted has its row of evidence when its request is over, whatever
\* cancelled it, killed its worker or ended the process; only a host that is down owes it.
AdmittedIsRecorded ==
    \A k \in Cell : ledger[k] = "admitted" =>
        phase = "down" \/ task[k].pc \in {"queued"} \cup OnWorker

\* Every boot slot is held by a sweep that waits for the boot lock of a victim it listed
\* before it awaited, and the lock by a cell that waits for a boot slot.
SlotsDeadlocked ==
    /\ Cardinality(Slots) = config.max_boot_concurrency
    /\ \A k \in Slots :
          /\ task[k].pc = "victim"
          /\ boot_lock[task[k].target] \in {j \in Cell : task[j].pc = "slot"}

\* Every request to execute a cell is answered: no other order of boots, sweeps, evictions,
\* teardowns and shutdown leaves them waiting for each other's locks and slots.
RequestIsAnswered ==
    []<>(SlotsDeadlocked \/ \A k \in Cell : task[k].pc \in {"idle", "done"})
=============================================================================
