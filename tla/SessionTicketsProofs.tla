------------------------ MODULE SessionTicketsProofs ------------------------
(***************************************************************************)
(* Proofs about the input queue of a chat, for any number of tickets, runs,*)
(* storage failures, repeated Stops and restarts.                          *)
(*                                                                         *)
(* The run that holds the chat is the only one under way (OneHolder), so a *)
(* step is of one of a few shapes, and each shape keeps the invariant: a   *)
(* run goes on (Advances), it moves the tickets it delivered (Writes), it  *)
(* leaves the chat (Leaves), somebody parks (Parks), a run takes the idle  *)
(* chat (Launches).  Each action is shown to be one of them; the resumed   *)
(* turn, the commands of the user and the restart are proved alone.        *)
(***************************************************************************)
EXTENDS SessionTickets, TLAPS

Rows  == [state: TICKET_STATES \cup {"absent"}, delivery: Delivery]
Turns == [pc: TurnState, initial: SUBSET Ticket, delivered: SUBSET Ticket, answered: BOOLEAN]

\* The invariant without NoStrandedTicket, which follows from the rest.
Core ==
    /\ TicketsTypeOK /\ CompletedMeansPersisted
    /\ DeliveredIsHeld /\ ClaimedIsHeld /\ QueuedIsAwaited /\ ReleasedIsParked
    /\ MemoryIsCurrent /\ StartsEmpty

\* What no step may do: touch a settled ticket, or hand a run what was left over.
KeepsSettled ==
    \A k \in Ticket : tickets[k].state \in TICKET_TERMINAL_STATES => tickets'[k] = tickets[k]
AsksFirst ==
    \A r \in Run : \A k \in Given(r) :
        \/ bound[k] \in {r, NoRun} \/ turn[bound[k]].pc = "cut"
        \/ k \in consent'
StepRules == KeepsSettled /\ AsksFirst

-----------------------------------------------------------------------------
(* The queue and the turns, ticket by ticket and run by run                  *)

\* transition_ticket writes the rows it names and no other.
LEMMA MovedIs ==
    ASSUME TicketsTypeOK, NEW K, NEW E, NEW s \in TICKET_STATES
    PROVE  /\ Moved(K, E, s) \in [Ticket -> Rows]
           /\ \A k \in Ticket : k \in K /\ tickets[k].state \in E => Moved(K, E, s)[k].state = s
           /\ \A k \in Ticket :
                 ~(k \in K /\ tickets[k].state \in E) => Moved(K, E, s)[k] = tickets[k]
<1>1. \A k \in Ticket : tickets[k] \in Rows
  BY DEF TicketsTypeOK, Rows
<1>2. \A k \in Ticket : Row(k, s) \in Rows /\ Row(k, s).state = s
  BY <1>1 DEF Row, Rows, Delivery
<1>. QED
  BY <1>1, <1>2 DEF Moved

\* What a write leaves of a command that was checked before it.
CommandKept ==
    /\ pending' \in [ticket: SUBSET Ticket, fresh: BOOLEAN]
    /\ pending'.fresh => pending' = pending /\ tickets' = tickets

LEMMA WriteIs ==
    ASSUME TicketsTypeOK, NEW ts, Write(ts)
    PROVE  tickets' = ts /\ CommandKept
BY DEF TicketsTypeOK, Write, Stale, CommandKept

\* Every ticket that nobody delivered is parked.
AllParked ==
    /\ tickets' \in [Ticket -> Rows]
    /\ \A k \in Ticket : tickets[k].state \in parkable => tickets'[k].state = "parked"
    /\ \A k \in Ticket : tickets[k].state \notin parkable => tickets'[k] = tickets[k]

LEMMA ParkedIs ==
    ASSUME TicketsTypeOK, tickets' = park_tickets
    PROVE  AllParked
BY MovedIs DEF park_tickets, AllParked, TICKET_STATES

\* park_queued_input_tickets parks, or owes it.
LEMMA ParkingIs ==
    ASSUME TicketsTypeOK, park_queued_input_tickets
    PROVE  /\ CommandKept /\ faults' \in 0..MaxFaults
           /\ \/ AllParked /\ park_reason' = FALSE
              \/ tickets' = tickets /\ park_reason' = TRUE
<1>1. CASE Write(park_tickets) /\ park_reason' = FALSE /\ UNCHANGED faults
  BY <1>1, WriteIs, ParkedIs DEF TicketsTypeOK
<1>2. CASE Fails("park") /\ park_reason' = TRUE /\ UNCHANGED <<tickets, pending>>
  BY <1>2, TicketsAssumption DEF TicketsTypeOK, Fails, Fault, CommandKept
<1>. QED
  BY <1>1, <1>2 DEF park_queued_input_tickets

\* A new admission settles the parking that is owed.
LEMMA AdmissionParks ==
    ASSUME TicketsTypeOK, tickets' = AtAdmission
    PROVE  AllParked \/ (~park_reason /\ tickets' = tickets)
BY ParkedIs DEF AtAdmission, TicketsTypeOK

\* The run that holds the chat is the only one under way.
LEMMA OneHolder ==
    ASSUME TicketsTypeOK, NEW r \in Run
    PROVE  /\ turn[r].pc \notin {"unused", "cut", "ended"} <=> admission = r
           /\ r # NoRun /\ turn[r] \in Turns
BY TicketsAssumption DEF TicketsTypeOK, NoRun, Turns

LEMMA TurnIs ==
    ASSUME TicketsTypeOK, NEW r \in Run, NEW t \in Turns, turn' = [turn EXCEPT ![r] = t]
    PROVE  /\ turn' \in [Run -> Turns] /\ turn'[r] = t
           /\ \A q \in Run : q # r => turn'[q] = turn[q]
BY DEF TicketsTypeOK, Turns

LEMMA PcIs ==
    ASSUME TicketsTypeOK, NEW r \in Run, NEW pc \in TurnState,
           turn' = [turn EXCEPT ![r].pc = pc]
    PROVE  /\ turn' \in [Run -> Turns] /\ turn'[r].pc = pc
           /\ turn'[r].initial = turn[r].initial /\ turn'[r].delivered = turn[r].delivered
           /\ turn'[r].answered = turn[r].answered
           /\ \A q \in Run : q # r => turn'[q] = turn[q]
BY DEF TicketsTypeOK, Turns

LEMMA ClearedIs ==
    ASSUME NEW pc \in TurnState
    PROVE  /\ Cleared(pc) \in Turns /\ Cleared(pc).pc = pc
           /\ Cleared(pc).initial = {} /\ Cleared(pc).delivered = {}
BY DEF Cleared, Turns

\* A checked command still names a parked ticket after a write that keeps it.
LEMMA CommandStep ==
    ASSUME MemoryIsCurrent, CommandKept
    PROVE  pending'.fresh => pending'.ticket \subseteq In({"parked"})'
BY DEF MemoryIsCurrent, CommandKept, In

-----------------------------------------------------------------------------
(* A run at work                                                             *)

\* A run under way goes on without a write to the queue.  What it delivered it still
\* holds, or gives up.
Advances(r) ==
    /\ phase = "up" /\ phase' = phase /\ admission = r /\ admission' = r
    /\ turn' \in [Run -> Turns]
    /\ turn'[r].initial = turn[r].initial /\ turn'[r].delivered = turn[r].delivered
    /\ turn'[r].pc \notin {"unused", "cut", "ended", "releasing"}
    /\ \A q \in Run : q # r => turn'[q] = turn[q]
    /\ UNCHANGED <<tickets, pending, park_reason, bound, consent>>
    /\ transcript \subseteq transcript' /\ transcript' \subseteq Ticket
    /\ snapshot' \in [present: BOOLEAN, delivered: SUBSET Ticket, commit_only: BOOLEAN]
    /\ accepting' \in BOOLEAN /\ faults' \in 0..MaxFaults
    /\ stops' \in [Run -> Nat]
    /\ Stopping => Stopping'
    /\ abandoned \subseteq abandoned' /\ abandoned' \subseteq Ticket
    /\ turn'[r].pc \in {"appended", "complete_failed"} => _inputs_for_commit(r) \subseteq transcript'
    /\ turn[r].pc \in Delivering /\ turn'[r].pc \notin Delivering \cup Committing =>
          LeftBehind(r) \subseteq abandoned'
    /\ turn[r].pc \in Committing /\ turn'[r].pc \notin Committing =>
          LeftBehind(r) \subseteq abandoned'

LEMMA AdvancesKept ==
    ASSUME Core, NEW r \in Run, Advances(r)
    PROVE  Core' /\ StepRules
<1>1. \A q \in Run : turn[q].pc \notin {"unused", "cut", "ended"} <=> q = r
  BY OneHolder DEF Core, Advances
<1>3. TicketsTypeOK'
  BY <1>1, OneHolder DEF Core, Advances, TicketsTypeOK, Turns
<1>4. CompletedMeansPersisted'
  BY DEF Core, Advances, CompletedMeansPersisted, In
<1>5. DeliveredIsHeld'
  BY <1>1 DEF Core, Advances, DeliveredIsHeld, In, _inputs_for_commit, LeftBehind, Delivering,
              Committing
<1>6. ClaimedIsHeld'
  BY DEF Core, Advances, ClaimedIsHeld, In
<1>7. QueuedIsAwaited'
  BY <1>1 DEF Core, Advances, QueuedIsAwaited, In, TicketsTypeOK
<1>8. ReleasedIsParked' /\ StartsEmpty'
  BY <1>1 DEF Core, Advances, ReleasedIsParked, StartsEmpty
<1>9. MemoryIsCurrent'
  BY <1>1 DEF Core, Advances, MemoryIsCurrent, In, _inputs_for_commit
<1>10. StepRules
  <2>1. \A q \in Run : Given(q) = {}
    BY DEF Given, _inputs_for_commit, Advances
  <2>. QED
    BY <2>1 DEF StepRules, KeepsSettled, AsksFirst, Advances
<1>. QED
  BY <1>3, <1>4, <1>5, <1>6, <1>7, <1>8, <1>9, <1>10 DEF Core

LEMMA SetupKept ==
    ASSUME Core, NEW r \in Run, setup(r)
    PROVE  Core' /\ StepRules
<1>1. Advances(r)
  BY PcIs, OneHolder DEF Core, setup, Advances, TurnState, TicketsTypeOK, LoopFree, durable,
                         history, Stopping, Delivering, Committing
<1>. QED
  BY <1>1, AdvancesKept

LEMMA CheckpointKept ==
    ASSUME Core, NEW r \in Run, checkpoint(r)
    PROVE  Core' /\ StepRules
<1>1. Advances(r)
  BY OneHolder DEF Core, checkpoint, Advances, TicketsTypeOK, LoopFree, loop, history, Stopping,
                   Turns, Delivering, Committing
<1>. QED
  BY <1>1, AdvancesKept

LEMMA FinishTurnKept ==
    ASSUME Core, NEW r \in Run, finish_chat_turn(r)
    PROVE  Core' /\ StepRules
<1>. DEFINE t == [turn[r] EXCEPT !.pc = "finalizing", !.answered = TRUE]
<1>1. turn' = [turn EXCEPT ![r] = t]
  BY DEF Core, TicketsTypeOK, finish_chat_turn
<1>2. /\ t \in Turns /\ t.pc = "finalizing"
      /\ t.initial = turn[r].initial /\ t.delivered = turn[r].delivered
  BY OneHolder DEF Core, Turns, TurnState
<1>. HIDE DEF t
<1>3. /\ turn[r].pc = "looping" /\ turn'[r].pc = "finalizing" /\ turn' \in [Run -> Turns]
      /\ turn'[r].initial = turn[r].initial /\ turn'[r].delivered = turn[r].delivered
      /\ \A q \in Run : q # r => turn'[q] = turn[q]
  BY <1>1, <1>2, TurnIs DEF Core, finish_chat_turn
<1>4. snapshot' \in [present: BOOLEAN, delivered: SUBSET Ticket, commit_only: BOOLEAN]
  BY OneHolder DEF Core, Turns, finish_chat_turn
<1>5. Advances(r)
  BY <1>3, <1>4, OneHolder
     DEF Core, finish_chat_turn, Advances, TicketsTypeOK, LoopFree, history, Stopping,
         Delivering, Committing
<1>. QED
  BY <1>5, AdvancesKept

LEMMA AppendKept ==
    ASSUME Core, NEW r \in Run, append_messages(r)
    PROVE  Core' /\ StepRules
<1>1. turn[r].pc = "committing" /\ admission = r /\ r # NoRun /\ turn[r] \in Turns
  BY OneHolder DEF Core, append_messages
<1>2. phase = "up"
  BY <1>1 DEF Core, StartsEmpty, TicketsTypeOK
<1>3. PICK pc \in {"appended", "append_failed"} : turn' = [turn EXCEPT ![r].pc = pc]
  BY DEF append_messages
<1>4. pc \in TurnState
  BY DEF TurnState
<1>5. faults' \in 0..MaxFaults
  BY TicketsAssumption DEF Core, append_messages, TicketsTypeOK, Fails, Fault
<1>6. transcript \subseteq transcript' /\ transcript' \subseteq Ticket
  BY <1>1 DEF Core, append_messages, TicketsTypeOK, _inputs_for_commit, Turns
<1>7. pc = "appended" => _inputs_for_commit(r) \subseteq transcript'
  <2>1. turn'[r].pc = pc
    BY <1>3, <1>4, PcIs DEF Core
  <2>2. turn' = [turn EXCEPT ![r].pc = "append_failed"] => turn'[r].pc = "append_failed"
    BY PcIs DEF Core, TurnState
  <2>. QED
    BY <2>1, <2>2 DEF append_messages
<1>8. /\ turn' \in [Run -> Turns] /\ turn'[r].pc \in {"appended", "append_failed"}
      /\ turn'[r].pc = "appended" => _inputs_for_commit(r) \subseteq transcript'
      /\ turn'[r].initial = turn[r].initial /\ turn'[r].delivered = turn[r].delivered
      /\ \A q \in Run : q # r => turn'[q] = turn[q]
  BY <1>3, <1>4, <1>7, PcIs DEF Core
<1>9. UNCHANGED <<tickets, snapshot, admission, accepting, park_reason, stops, pending, phase,
                  bound, consent, abandoned>>
  BY DEF append_messages
<1>10. Advances(r)
  BY <1>1, <1>2, <1>5, <1>6, <1>8, <1>9
     DEF Core, Advances, TicketsTypeOK, Stopping, Delivering, Committing
<1>. QED
  BY <1>10, AdvancesKept

-----------------------------------------------------------------------------
(* A run that writes to the queue                                            *)

\* A run under way moves tickets between the states of delivery and settlement; no ticket
\* is queued or claimed by it, and what it still holds it held or takes from the queue.
Writes(r) ==
    /\ phase = "up" /\ phase' = phase /\ admission = r /\ admission' = r
    /\ turn' \in [Run -> Turns]
    /\ turn'[r].initial = turn[r].initial
    /\ turn'[r].pc \in Delivering \cup Committing \cup {"settling"}
    /\ \A q \in Run : q # r => turn'[q] = turn[q]
    /\ tickets' \in [Ticket -> Rows] /\ CommandKept
    /\ UNCHANGED <<transcript, park_reason, stops, bound, consent, abandoned, faults>>
    /\ snapshot' \in [present: BOOLEAN, delivered: SUBSET Ticket, commit_only: BOOLEAN]
    /\ accepting' \in BOOLEAN
    /\ turn'[r].pc \in {"appended", "complete_failed"} => _inputs_for_commit(r)' \subseteq transcript
    /\ \A k \in Ticket : tickets'[k] # tickets[k] =>
          /\ tickets[k].state \notin TICKET_TERMINAL_STATES
          /\ tickets'[k].state \in {"running", "transcript_committing", "completed",
                                    "transcript_failed"}
          /\ tickets'[k].state = "completed" => k \in transcript
    /\ \A k \in Ticket : tickets'[k].state = "running" /\ k \notin abandoned =>
          turn'[r].pc \in Delivering \cup Committing /\ k \in _inputs_for_commit(r)'
    /\ \A k \in Ticket : tickets'[k].state = "transcript_committing" /\ k \notin abandoned =>
          turn'[r].pc \in Committing /\ k \in _inputs_for_commit(r)'
    /\ \A k \in Given(r) : tickets[k].state = "queued"

LEMMA WritesKept ==
    ASSUME Core, NEW r \in Run, Writes(r)
    PROVE  Core' /\ StepRules
<1>1. \A q \in Run : turn[q].pc \notin {"unused", "cut", "ended"} <=> q = r
  BY OneHolder DEF Core, Writes
<1>2. turn'[r].pc \notin {"unused", "cut", "ended", "releasing"}
  BY DEF Writes, Delivering, Committing
<1>3. TicketsTypeOK'
  BY <1>1, <1>2, OneHolder DEF Core, Writes, TicketsTypeOK, Turns, Rows, CommandKept
<1>4. CompletedMeansPersisted'
  BY DEF Core, Writes, CompletedMeansPersisted, In
<1>5. DeliveredIsHeld'
  BY DEF Writes, DeliveredIsHeld, In, _inputs_for_commit
<1>6. ClaimedIsHeld'
  BY <1>2 DEF Core, Writes, ClaimedIsHeld, In, Stopping
<1>7. QueuedIsAwaited'
  <2>1. In({"queued"})' \subseteq In({"queued"})
    BY DEF Writes, In
  <2>2. \A q \in Run : turn[q].pc = "cut" => turn'[q].pc = "cut"
    BY <1>1 DEF Writes
  <2>3. \A k \in In({"queued"}) : bound[k] \in Run \cup {NoRun}
    BY DEF Core, TicketsTypeOK, In
  <2>. QED
    BY <2>1, <2>2, <2>3 DEF Core, Writes, QueuedIsAwaited, Stopping
<1>8. ReleasedIsParked' /\ StartsEmpty'
  BY <1>1, <1>2 DEF Core, Writes, ReleasedIsParked, StartsEmpty
<1>9. MemoryIsCurrent'
  <2>1. pending'.fresh => pending'.ticket \subseteq In({"parked"})'
    BY CommandStep DEF Core, Writes
  <2>2. \A q \in Run : q # r => _inputs_for_commit(q)' = _inputs_for_commit(q)
    BY DEF Writes, _inputs_for_commit
  <2>. QED
    BY <2>1, <2>2 DEF Core, Writes, MemoryIsCurrent
<1>10. StepRules
  <2>1. \A q \in Run : q # r => Given(q) = {}
    BY DEF Given, _inputs_for_commit, Writes
  <2>2. \A k \in Given(r) : k \in Ticket
    BY DEF Given, _inputs_for_commit, Writes, Turns
  <2>3. \A k \in Given(r) :
           \/ bound[k] \in {r, NoRun} \/ turn[bound[k]].pc = "cut" \/ k \in consent'
    BY <2>2, <1>1, OneHolder DEF Core, Writes, QueuedIsAwaited, In
  <2>. QED
    BY <2>1, <2>3 DEF StepRules, KeepsSettled, AsksFirst, Writes
<1>. QED
  BY <1>3, <1>4, <1>5, <1>6, <1>7, <1>8, <1>9, <1>10 DEF Core

LEMMA DrainKept ==
    ASSUME Core, NEW r \in Run, drain_active_input(r)
    PROVE  Core' /\ StepRules
<1>1. /\ phase = "up" /\ turn[r].pc = "looping" /\ admission = r /\ r # NoRun /\ turn[r] \in Turns
      /\ \A q \in Run : turn[q].pc \notin Committing
  BY OneHolder DEF Core, drain_active_input, LoopFree
<1>2. PICK k \in In({"queued"}) : /\ Write(Moved({k}, {"queued"}, "running"))
                                  /\ turn' = [turn EXCEPT ![r].delivered = @ \cup {k}]
  BY DEF drain_active_input, Oldest, Steers, FollowUps
<1>3. k \in Ticket /\ tickets[k].state = "queued"
  BY DEF In
<1>4. /\ tickets' \in [Ticket -> Rows] /\ CommandKept
      /\ tickets'[k].state = "running" /\ \A j \in Ticket : j # k => tickets'[j] = tickets[j]
  BY <1>2, <1>3, WriteIs, MovedIs DEF Core, TICKET_STATES
<1>. DEFINE t == [turn[r] EXCEPT !.delivered = @ \cup {k}]
<1>5. turn' = [turn EXCEPT ![r] = t]
  BY <1>2 DEF Core, TicketsTypeOK
<1>6. /\ t \in Turns /\ t.pc = "looping"
      /\ t.initial = turn[r].initial /\ t.delivered = turn[r].delivered \cup {k}
  BY <1>1, <1>3 DEF Turns
<1>. HIDE DEF t
<1>7. /\ turn' \in [Run -> Turns] /\ turn'[r] = t
      /\ \A q \in Run : q # r => turn'[q] = turn[q]
  BY <1>5, <1>6, TurnIs DEF Core
<1>8. _inputs_for_commit(r)' = _inputs_for_commit(r) \cup {k}
  BY <1>6, <1>7 DEF _inputs_for_commit
<1>9. \A j \in In({"running"}) \ abandoned : j \in _inputs_for_commit(r)
  BY <1>1, OneHolder DEF Core, DeliveredIsHeld, Delivering, Committing
<1>10. \A j \in In({"transcript_committing"}) : j \in abandoned
  BY <1>1 DEF Core, DeliveredIsHeld
<1>11. Writes(r)
  BY <1>1, <1>3, <1>4, <1>6, <1>7, <1>8, <1>9, <1>10
     DEF Core, Writes, drain_active_input, TicketsTypeOK, Delivering, Committing, In, Given,
         history, TICKET_TERMINAL_STATES
<1>. QED
  BY <1>11, WritesKept

LEMMA BeginCommitKept ==
    ASSUME Core, NEW r \in Run, begin_transcript_commit(r)
    PROVE  Core' /\ StepRules
<1>. DEFINE K == _inputs_for_commit(r)
            E == {"running", "preparing", "parked"}
<1>1. /\ phase = "up" /\ turn[r].pc = "finalizing" /\ admission = r /\ r # NoRun
      /\ \A q \in Run : q # r => turn[q].pc \notin Delivering \cup Committing
  BY OneHolder DEF Core, begin_transcript_commit, Delivering, Committing
<1>2. /\ tickets' \in [Ticket -> Rows] /\ CommandKept
      /\ \A k \in Ticket : k \in K /\ tickets[k].state \in E =>
            tickets'[k].state = "transcript_committing"
      /\ \A k \in Ticket : ~(k \in K /\ tickets[k].state \in E) => tickets'[k] = tickets[k]
  BY WriteIs, MovedIs DEF Core, begin_transcript_commit, TICKET_STATES
<1>3. /\ turn' \in [Run -> Turns] /\ turn'[r].pc = "committing"
      /\ turn'[r].initial = turn[r].initial /\ turn'[r].delivered = turn[r].delivered
      /\ \A q \in Run : q # r => turn'[q] = turn[q]
  BY PcIs DEF Core, begin_transcript_commit, TurnState
<1>4. K' = K
  BY <1>3 DEF _inputs_for_commit
<1>5. /\ \A j \in In({"running"}) \ abandoned : j \in K
      /\ \A j \in In({"transcript_committing"}) : j \in abandoned
  BY <1>1 DEF Core, DeliveredIsHeld, Committing
<1>6. Given(r) = {}
  BY <1>4 DEF Given
<1>7. \A k \in Ticket : tickets'[k] # tickets[k] =>
          /\ tickets[k].state \notin TICKET_TERMINAL_STATES
          /\ tickets'[k].state = "transcript_committing"
  BY <1>2 DEF TICKET_TERMINAL_STATES
<1>8. /\ \A k \in Ticket : tickets'[k].state = "running" => k \in abandoned
      /\ \A k \in Ticket : tickets'[k].state = "transcript_committing" /\ k \notin abandoned =>
            k \in _inputs_for_commit(r)'
  BY <1>2, <1>4, <1>5 DEF In
<1>9. phase' = phase /\ UNCHANGED <<transcript, snapshot, admission, park_reason, stops, bound,
                                    consent, abandoned, faults>>
  BY DEF begin_transcript_commit, history
<1>10. accepting' = FALSE
  BY DEF begin_transcript_commit
<1>11. Writes(r)
  BY <1>1, <1>2, <1>3, <1>6, <1>7, <1>8, <1>9, <1>10
     DEF Core, Writes, TicketsTypeOK, Delivering, Committing
<1>. QED
  BY <1>11, WritesKept

LEMMA NoSnapshotOK ==
    NoSnapshot \in [present: BOOLEAN, delivered: SUBSET Ticket, commit_only: BOOLEAN]
BY DEF NoSnapshot

\* The end of a commit: the delivered tickets are settled as completed or failed.
LEMMA SettlesKept ==
    ASSUME Core, NEW r \in Run, NEW s \in {"completed", "transcript_failed"},
           turn[r].pc \in Committing \ {"committing"}, turn' = [turn EXCEPT ![r].pc = "settling"],
           s = "completed" => turn[r].pc = "appended",
           Write(Moved(_inputs_for_commit(r), {"transcript_committing", "running", "preparing"}, s)),
           snapshot' \in {NoSnapshot, snapshot},
           UNCHANGED <<transcript, admission, accepting, park_reason, stops, phase, bound,
                       consent, abandoned, faults>>
    PROVE  Core' /\ StepRules
<1>. DEFINE K == _inputs_for_commit(r)
            E == {"transcript_committing", "running", "preparing"}
<1>1. /\ admission = r /\ r # NoRun
      /\ \A q \in Run : q # r => turn[q].pc \notin Delivering \cup Committing
  BY OneHolder DEF Core, Delivering, Committing
<1>2. phase = "up"
  BY <1>1 DEF Core, StartsEmpty, TicketsTypeOK
<1>3. /\ tickets' \in [Ticket -> Rows] /\ CommandKept
      /\ \A k \in Ticket : k \in K /\ tickets[k].state \in E => tickets'[k].state = s
      /\ \A k \in Ticket : ~(k \in K /\ tickets[k].state \in E) => tickets'[k] = tickets[k]
  BY WriteIs, MovedIs DEF Core, TICKET_STATES, TICKET_TERMINAL_STATES
<1>4. /\ turn' \in [Run -> Turns] /\ turn'[r].pc = "settling"
      /\ turn'[r].initial = turn[r].initial /\ turn'[r].delivered = turn[r].delivered
      /\ \A q \in Run : q # r => turn'[q] = turn[q]
  BY PcIs DEF Core, TurnState
<1>5. K' = K
  BY <1>4 DEF _inputs_for_commit
<1>6. /\ \A j \in In({"running"}) \ abandoned : j \in K
      /\ \A j \in In({"transcript_committing"}) \ abandoned : j \in K
  BY <1>1, <1>2 DEF Core, DeliveredIsHeld
<1>7. s = "completed" => K \subseteq transcript
  BY DEF Core, MemoryIsCurrent
<1>8. snapshot' \in [present: BOOLEAN, delivered: SUBSET Ticket, commit_only: BOOLEAN]
  BY NoSnapshotOK DEF Core, TicketsTypeOK
<1>9. Given(r) = {}
  BY <1>5 DEF Given
<1>10. \A k \in Ticket : tickets'[k] # tickets[k] =>
          /\ tickets[k].state \notin TICKET_TERMINAL_STATES /\ tickets'[k].state = s
          /\ tickets'[k].state = "completed" => k \in transcript
  BY <1>3, <1>7 DEF TICKET_TERMINAL_STATES
<1>11. \A k \in Ticket : tickets'[k].state \in {"running", "transcript_committing"} => k \in abandoned
  BY <1>3, <1>6 DEF In
<1>12. Writes(r)
  BY <1>1, <1>2, <1>3, <1>4, <1>8, <1>9, <1>10, <1>11 DEF Core, Writes, TicketsTypeOK
<1>. QED
  BY <1>12, WritesKept

LEMMA CompleteKept ==
    ASSUME Core, NEW r \in Run, complete_transcript_commit(r)
    PROVE  Core' /\ StepRules
<1>1. CASE /\ Write(Moved(_inputs_for_commit(r),
                          {"transcript_committing", "running", "preparing"}, "completed"))
           /\ snapshot' = Acknowledged(r) /\ turn' = [turn EXCEPT ![r].pc = "settling"]
           /\ UNCHANGED <<abandoned, faults>>
  BY <1>1, SettlesKept DEF complete_transcript_commit, Committing, Acknowledged
<1>2. CASE /\ Fails("complete") /\ UNCHANGED <<tickets, pending, snapshot>>
           /\ stops[r] = 0 /\ turn' = [turn EXCEPT ![r].pc = "complete_failed"]
           /\ UNCHANGED abandoned
  <2>1. turn[r].pc = "appended" /\ admission = r /\ r # NoRun
    BY OneHolder DEF Core, complete_transcript_commit
  <2>2. phase = "up"
    BY <2>1 DEF Core, StartsEmpty, TicketsTypeOK
  <2>3. /\ turn' \in [Run -> Turns] /\ turn'[r].pc = "complete_failed"
        /\ turn'[r].initial = turn[r].initial /\ turn'[r].delivered = turn[r].delivered
        /\ \A q \in Run : q # r => turn'[q] = turn[q]
    BY <1>2, PcIs DEF Core, TurnState
  <2>4. faults' \in 0..MaxFaults
    BY <1>2, TicketsAssumption DEF Core, TicketsTypeOK, Fails, Fault
  <2>5. _inputs_for_commit(r) \subseteq transcript
    BY <2>1 DEF Core, MemoryIsCurrent
  <2>6. Advances(r)
    BY <1>2, <2>1, <2>2, <2>3, <2>4, <2>5
       DEF Core, complete_transcript_commit, Advances, TicketsTypeOK, Stopping, Delivering,
           Committing
  <2>. QED
    BY <2>6, AdvancesKept
<1>3. CASE /\ Fails("complete") /\ UNCHANGED <<tickets, pending, snapshot>>
           /\ stops[r] > 0 /\ turn' = [turn EXCEPT ![r].pc = "settling"]
           /\ abandoned' = abandoned \cup LeftBehind(r)
  <2>1. turn[r].pc = "appended" /\ admission = r /\ r # NoRun
    BY OneHolder DEF Core, complete_transcript_commit
  <2>2. phase = "up"
    BY <2>1 DEF Core, StartsEmpty, TicketsTypeOK
  <2>3. /\ turn' \in [Run -> Turns] /\ turn'[r].pc = "settling"
        /\ turn'[r].initial = turn[r].initial /\ turn'[r].delivered = turn[r].delivered
        /\ \A q \in Run : q # r => turn'[q] = turn[q]
    BY <1>3, PcIs DEF Core, TurnState
  <2>4. faults' \in 0..MaxFaults
    BY <1>3, TicketsAssumption DEF Core, TicketsTypeOK, Fails, Fault
  <2>5. LeftBehind(r) \subseteq Ticket
    BY DEF LeftBehind, In
  <2>6. Advances(r)
    BY <1>3, <2>1, <2>2, <2>3, <2>4, <2>5
       DEF Core, complete_transcript_commit, Advances, TicketsTypeOK, Stopping, Delivering,
           Committing
  <2>. QED
    BY <2>6, AdvancesKept
<1>. QED
  BY <1>1, <1>2, <1>3 DEF complete_transcript_commit

LEMMA FailKept ==
    ASSUME Core, NEW r \in Run, fail_transcript_commit(r)
    PROVE  Core' /\ StepRules
BY SettlesKept DEF fail_transcript_commit, Committing, Acknowledged, history

-----------------------------------------------------------------------------
(* A run that leaves the chat                                                *)

\* The tickets nobody delivered are parked, or stay as they are.
MayPark ==
    \A k \in Ticket : tickets'[k] # tickets[k] =>
        tickets[k].state \in parkable /\ tickets'[k].state = "parked"

\* A run past its commit releases the chat.  What was queued is parked, or the parking is
\* owed, or a Stop that cut the run will park.
Leaves(r) ==
    /\ phase = "up" /\ phase' = phase /\ admission = r /\ admission' = NoRun
    /\ turn[r].pc \notin Delivering \cup Committing
    /\ turn' \in [Run -> Turns] /\ turn'[r].pc \in {"cut", "ended"}
    /\ turn'[r].initial = {} /\ turn'[r].delivered = {}
    /\ \A q \in Run : q # r => turn'[q] = turn[q]
    /\ tickets' \in [Ticket -> Rows] /\ CommandKept /\ MayPark
    /\ UNCHANGED <<transcript, snapshot, bound, consent, abandoned>>
    /\ accepting' \in BOOLEAN /\ park_reason' \in BOOLEAN /\ faults' \in 0..MaxFaults
    /\ stops' \in [Run -> Nat]
    /\ \/ \A k \in Ticket : tickets'[k].state \notin {"queued", "preparing"}
       \/ park_reason'
       \/ Stopping' /\ turn'[r].pc = "cut"

LEMMA LeavesKept ==
    ASSUME Core, NEW r \in Run, Leaves(r)
    PROVE  Core' /\ StepRules
<1>1. /\ r # NoRun
      /\ \A q \in Run : turn[q].pc \notin {"unused", "cut", "ended"} <=> q = r
  BY OneHolder DEF Core, Leaves
<1>2. \A q \in Run : turn'[q].pc \in {"unused", "cut", "ended"} /\ q # NoRun
  BY <1>1, OneHolder DEF Core, Leaves
<1>3. TicketsTypeOK'
  BY <1>2 DEF Core, Leaves, TicketsTypeOK, Turns, Rows, CommandKept
<1>4. CompletedMeansPersisted'
  BY DEF Core, Leaves, MayPark, CompletedMeansPersisted, In
<1>5. DeliveredIsHeld'
  BY <1>1 DEF Core, Leaves, MayPark, DeliveredIsHeld, In, Delivering, Committing
<1>6. ClaimedIsHeld'
  BY DEF Leaves, ClaimedIsHeld, In
<1>7. QueuedIsAwaited'
  BY <1>1 DEF Core, Leaves, MayPark, QueuedIsAwaited, In, TicketsTypeOK
<1>8. ReleasedIsParked' /\ StartsEmpty'
  BY <1>2 DEF Core, Leaves, ReleasedIsParked, StartsEmpty
<1>9. MemoryIsCurrent'
  BY <1>2, CommandStep DEF Core, Leaves, MemoryIsCurrent
<1>10. StepRules
  <2>1. \A q \in Run : Given(q) = {}
    BY DEF Given, _inputs_for_commit, Leaves
  <2>. QED
    BY <2>1 DEF StepRules, KeepsSettled, AsksFirst, Leaves, MayPark, parkable,
                TICKET_TERMINAL_STATES
<1>. QED
  BY <1>3, <1>4, <1>5, <1>6, <1>7, <1>8, <1>9, <1>10 DEF Core

LEMMA AllParkedIs ==
    ASSUME AllParked
    PROVE  /\ MayPark
           /\ \A k \in Ticket : tickets'[k].state \notin parkable
BY DEF AllParked, MayPark, parkable

LEMMA QueueKept ==
    ASSUME TicketsTypeOK, UNCHANGED <<tickets, pending>>
    PROVE  tickets' \in [Ticket -> Rows] /\ CommandKept /\ MayPark
BY DEF TicketsTypeOK, Rows, CommandKept, MayPark

\* A run about to release the chat has parked, or owes it.
LEMMA NoneQueued ==
    ASSUME Core, NEW r \in Run, turn[r].pc = "releasing"
    PROVE  park_reason \/ \A k \in Ticket : tickets[k].state \notin {"queued", "preparing"}
BY DEF Core, ReleasedIsParked, In, parkable

LEMMA FinishRunKept ==
    ASSUME Core, NEW r \in Run, finish_run(r)
    PROVE  Core' /\ StepRules
<1>1. /\ turn' \in [Run -> Turns] /\ turn'[r] = Cleared("ended")
      /\ \A q \in Run : q # r => turn'[q] = turn[q]
  BY ClearedIs, TurnIs DEF Core, finish_run, TurnState
<1>2. turn'[r].pc = "ended" /\ turn'[r].initial = {} /\ turn'[r].delivered = {}
  BY <1>1 DEF Cleared
<1>3. admission = r /\ turn[r].pc = "releasing" /\ phase = "up"
  BY OneHolder DEF Core, finish_run, LoopFree
<1>4. park_reason \/ \A k \in Ticket : tickets[k].state \notin {"queued", "preparing"}
  BY <1>3, NoneQueued
<1>5. tickets' \in [Ticket -> Rows] /\ CommandKept /\ MayPark
  BY QueueKept DEF Core, finish_run, durable
<1>6. /\ phase' = phase /\ admission' = NoRun
      /\ UNCHANGED <<tickets, transcript, snapshot, bound, consent, abandoned>>
      /\ accepting' \in BOOLEAN /\ park_reason' = park_reason /\ park_reason \in BOOLEAN
      /\ faults' \in 0..MaxFaults /\ stops' \in [Run -> Nat]
  BY DEF Core, finish_run, TicketsTypeOK, durable, history
<1>7. Leaves(r)
  BY <1>1, <1>2, <1>3, <1>4, <1>5, <1>6 DEF Leaves, Delivering, Committing
<1>. QED
  BY <1>7, LeavesKept

LEMMA CancelKept ==
    ASSUME Core, NEW r \in Run, _cancel(r)
    PROVE  Core' /\ StepRules
<1>1. /\ phase = "up" /\ admission = r /\ accepting' = FALSE /\ phase' = phase
      /\ turn[r].pc \notin Committing
      /\ UNCHANGED <<tickets, transcript, snapshot, park_reason, pending, bound, consent>>
  BY DEF _cancel, LoopFree, durable
<1>2. stops' \in [Run -> Nat] /\ Stopping'
  BY DEF Core, TicketsTypeOK, _cancel, Stopping
<1>3. faults' \in 0..MaxFaults
  BY TicketsAssumption DEF Core, TicketsTypeOK, _cancel, Fault
<1>4. PICK pc \in Interrupted(r) :
         /\ IF pc \in {"cut", "ended"}
              THEN admission' = NoRun /\ turn' = [turn EXCEPT ![r] = Cleared(pc)]
              ELSE turn' = [turn EXCEPT ![r].pc = pc] /\ UNCHANGED admission
         /\ abandoned' = IF pc = "settling" THEN abandoned \cup LeftBehind(r) ELSE abandoned
  BY DEF _cancel
<1>5. CASE pc \in {"cut", "ended"}
  <2>1. /\ turn[r].pc \in {"settling", "releasing"} /\ pc \in TurnState
        /\ pc = "ended" => turn[r].pc = "releasing"
    BY <1>4, <1>5 DEF Interrupted, TurnState
  <2>2. /\ turn' \in [Run -> Turns] /\ turn'[r] = Cleared(pc)
        /\ \A q \in Run : q # r => turn'[q] = turn[q]
    BY <1>4, <1>5, <2>1, ClearedIs, TurnIs DEF Core
  <2>3. turn'[r].pc = pc /\ turn'[r].initial = {} /\ turn'[r].delivered = {}
    BY <2>2 DEF Cleared
  <2>4. turn[r].pc = "releasing" =>
           park_reason \/ \A k \in Ticket : tickets[k].state \notin {"queued", "preparing"}
    BY NoneQueued
  <2>5. abandoned' = abandoned /\ admission' = NoRun
    BY <1>4, <1>5
  <2>6. tickets' \in [Ticket -> Rows] /\ CommandKept /\ MayPark
    BY <1>1, QueueKept DEF Core
  <2>7. park_reason \in BOOLEAN
    BY DEF Core, TicketsTypeOK
  <2>8. Leaves(r)
    BY <1>1, <1>2, <1>3, <1>5, <2>1, <2>2, <2>3, <2>4, <2>5, <2>6, <2>7
       DEF Leaves, Delivering, Committing
  <2>. QED
    BY <2>8, LeavesKept
<1>6. CASE pc \notin {"cut", "ended"}
  <2>1. /\ pc \in TurnState /\ pc \in {"settling", "unlaunched", "finalizing"}
        /\ turn[r].pc \in Delivering => pc \in {"settling", "finalizing"}
    BY <1>4, <1>6 DEF Interrupted, TurnState, Delivering
  <2>2. /\ turn' \in [Run -> Turns] /\ turn'[r].pc = pc
        /\ turn'[r].initial = turn[r].initial /\ turn'[r].delivered = turn[r].delivered
        /\ \A q \in Run : q # r => turn'[q] = turn[q]
    BY <1>4, <1>6, <2>1, PcIs DEF Core
  <2>3. LeftBehind(r) \subseteq Ticket
    BY DEF LeftBehind, In
  <2>4. Advances(r)
    BY <1>1, <1>2, <1>3, <1>4, <1>6, <2>1, <2>2, <2>3
       DEF Core, Advances, TicketsTypeOK, Delivering, Committing
  <2>. QED
    BY <2>4, AdvancesKept
<1>. QED
  BY <1>5, <1>6

-----------------------------------------------------------------------------
(* Parking                                                                   *)

\* A parking by a Stop handler, the finalizer, or a command on its way to a refusal.
Parks ==
    /\ phase = "up" /\ phase' = phase
    /\ UNCHANGED <<transcript, snapshot, admission, bound, consent, abandoned>>
    /\ accepting' \in BOOLEAN /\ (accepting' => accepting)
    /\ stops' \in [Run -> Nat] /\ faults' \in 0..MaxFaults
    /\ CommandKept
    /\ \/ AllParked /\ park_reason' = FALSE
       \/ tickets' = tickets /\ park_reason' = TRUE
       \/ tickets' = tickets /\ park_reason' = park_reason /\ stops' = stops
    /\ turn' \in [Run -> Turns]
    /\ \A q \in Run : turn'[q].initial = turn[q].initial /\ turn'[q].delivered = turn[q].delivered
    /\ \A q \in Run : turn'[q].pc # turn[q].pc =>
          /\ turn[q].pc = "settling" /\ turn'[q].pc = "releasing"
          /\ accepting' = FALSE /\ (AllParked \/ park_reason')

LEMMA ParksKept ==
    ASSUME Core, Parks
    PROVE  Core' /\ StepRules
<1>1. tickets' \in [Ticket -> Rows] /\ MayPark /\ park_reason' \in BOOLEAN
  BY AllParkedIs DEF Core, Parks, TicketsTypeOK, Rows, AllParked, MayPark
<1>2. \A q \in Run : _inputs_for_commit(q)' = _inputs_for_commit(q)
  BY DEF Parks, _inputs_for_commit
<1>3. \A q \in Run : \A S \in {{"unused", "cut", "ended"}, Delivering, Committing, {"cut"},
                               {"appended", "complete_failed"}} :
         turn'[q].pc \in S <=> turn[q].pc \in S
  BY DEF Parks, Delivering, Committing
<1>4. \A q \in Run : turn'[q].pc \in {"unused", "cut", "ended"} <=> admission # q
  BY <1>3 DEF Core, TicketsTypeOK
<1>5. TicketsTypeOK'
  BY <1>1, <1>4 DEF Core, Parks, TicketsTypeOK, Turns, Rows, CommandKept
<1>6. CompletedMeansPersisted'
  BY <1>1 DEF Core, Parks, MayPark, CompletedMeansPersisted, In
<1>7. DeliveredIsHeld'
  <2>1. \A q \in Run : /\ turn'[q].pc \in Delivering <=> turn[q].pc \in Delivering
                       /\ turn'[q].pc \in Committing <=> turn[q].pc \in Committing
    BY DEF Parks, Delivering, Committing
  <2>2. /\ In({"running"})' \subseteq In({"running"})
        /\ In({"transcript_committing"})' \subseteq In({"transcript_committing"})
    BY <1>1 DEF MayPark, In
  <2>. QED
    BY <1>2, <2>1, <2>2 DEF Core, Parks, DeliveredIsHeld
<1>8. ClaimedIsHeld'
  <2>1. CASE AllParked
    BY <2>1, AllParkedIs DEF ClaimedIsHeld, In, parkable
  <2>2. CASE park_reason'
    BY <2>2 DEF ClaimedIsHeld
  <2>3. CASE /\ tickets' = tickets /\ park_reason' = park_reason /\ stops' = stops
             /\ ~AllParked /\ ~park_reason'
    BY <2>3 DEF Core, Parks, ClaimedIsHeld, In, Stopping
  <2>. QED
    BY <2>1, <2>2, <2>3 DEF Parks
<1>9. QueuedIsAwaited'
  <2>1. CASE AllParked
    BY <2>1, AllParkedIs DEF QueuedIsAwaited, In, parkable
  <2>2. CASE tickets' = tickets /\ park_reason' = TRUE
    BY <2>2 DEF Core, Parks, QueuedIsAwaited, In, TicketsTypeOK
  <2>3. CASE tickets' = tickets /\ park_reason' = park_reason /\ stops' = stops
    BY <2>3 DEF Core, Parks, QueuedIsAwaited, In, Stopping, TicketsTypeOK
  <2>. QED
    BY <2>1, <2>2, <2>3 DEF Parks
<1>10. ReleasedIsParked'
  <2>. SUFFICES ASSUME NEW q \in Run, turn'[q].pc = "releasing"
                PROVE  ~accepting' /\ (park_reason' \/ In(parkable)' = {})
    BY DEF ReleasedIsParked, parkable, In
  <2>1. AllParked => In(parkable)' = {}
    BY AllParkedIs DEF In, parkable
  <2>2. CASE turn[q].pc # "releasing"
    BY <2>1, <2>2 DEF Parks
  <2>3. CASE turn[q].pc = "releasing"
    BY <2>1, <2>3 DEF Core, Parks, ReleasedIsParked, In
  <2>. QED
    BY <2>2, <2>3
<1>11. MemoryIsCurrent'
  <2>1. \A q \in Run : turn'[q].pc \in {"appended", "complete_failed"} =>
                          turn[q].pc \in {"appended", "complete_failed"}
    BY DEF Parks
  <2>. QED
    BY <1>2, <2>1, CommandStep DEF Core, Parks, MemoryIsCurrent
<1>12. StartsEmpty'
  BY DEF Parks, StartsEmpty
<1>13. StepRules
  <2>1. \A q \in Run : Given(q) = {}
    BY <1>2 DEF Given
  <2>. QED
    BY <1>1, <2>1 DEF StepRules, KeepsSettled, AsksFirst, MayPark, parkable,
                      TICKET_TERMINAL_STATES
<1>. QED
  BY <1>5, <1>6, <1>7, <1>8, <1>9, <1>10, <1>11, <1>12, <1>13 DEF Core

LEMMA SettleKept ==
    ASSUME Core, NEW r \in Run, settle_undelivered_inputs(r)
    PROVE  Core' /\ StepRules
<1>1. /\ phase = "up" /\ phase' = phase /\ turn[r].pc = "settling" /\ accepting' = FALSE
      /\ UNCHANGED <<transcript, snapshot, admission, bound, consent, abandoned, stops>>
  BY DEF settle_undelivered_inputs, LoopFree
<1>2. /\ CommandKept /\ faults' \in 0..MaxFaults
      /\ \/ AllParked /\ park_reason' = FALSE
         \/ tickets' = tickets /\ park_reason' = TRUE
  BY ParkingIs DEF Core, settle_undelivered_inputs
<1>3. /\ turn' \in [Run -> Turns] /\ turn'[r].pc = "releasing"
      /\ turn'[r].initial = turn[r].initial /\ turn'[r].delivered = turn[r].delivered
      /\ \A q \in Run : q # r => turn'[q] = turn[q]
  BY PcIs DEF Core, settle_undelivered_inputs, TurnState
<1>4. stops' \in [Run -> Nat]
  BY <1>1 DEF Core, TicketsTypeOK
<1>5. Parks
  BY <1>1, <1>2, <1>3, <1>4 DEF Parks
<1>. QED
  BY <1>5, ParksKept

LEMMA CancelSettlesKept ==
    ASSUME Core, NEW r \in Run, _cancel_settles(r)
    PROVE  Core' /\ StepRules
<1>1. /\ phase = "up" /\ phase' = phase /\ accepting' = accepting /\ accepting \in BOOLEAN
      /\ UNCHANGED <<transcript, snapshot, bound, consent, abandoned>>
      /\ turn[r].pc \in {"unlaunched", "cut", "ended"}
  BY DEF Core, TicketsTypeOK, _cancel_settles, LoopFree
<1>2. stops' \in [Run -> Nat]
  BY DEF Core, TicketsTypeOK, _cancel_settles
<1>3. /\ CommandKept /\ faults' \in 0..MaxFaults
      /\ \/ AllParked /\ park_reason' = FALSE
         \/ tickets' = tickets /\ park_reason' = TRUE
  BY ParkingIs DEF Core, _cancel_settles
<1>4. CASE turn[r].pc = "unlaunched"
  <2>1. admission = r /\ admission' = NoRun
    BY <1>4, OneHolder DEF Core, _cancel_settles
  <2>2. turn' = [turn EXCEPT ![r] = Cleared("ended")]
    BY <1>4 DEF Core, TicketsTypeOK, _cancel_settles
  <2>3. /\ turn' \in [Run -> Turns] /\ turn'[r].pc = "ended"
        /\ turn'[r].initial = {} /\ turn'[r].delivered = {}
        /\ \A q \in Run : q # r => turn'[q] = turn[q]
    BY <2>2, ClearedIs, TurnIs DEF Core, TurnState
  <2>4. /\ tickets' \in [Ticket -> Rows] /\ MayPark /\ park_reason' \in BOOLEAN
        /\ \/ \A k \in Ticket : tickets'[k].state \notin {"queued", "preparing"}
           \/ park_reason'
    <3>1. CASE AllParked /\ park_reason' = FALSE
      BY <3>1, AllParkedIs DEF AllParked, parkable
    <3>2. CASE tickets' = tickets /\ park_reason' = TRUE
      BY <3>2 DEF Core, TicketsTypeOK, Rows, MayPark
    <3>. QED
      BY <1>3, <3>1, <3>2
  <2>5. Leaves(r)
    BY <1>1, <1>2, <1>3, <1>4, <2>1, <2>3, <2>4 DEF Leaves, Delivering, Committing
  <2>. QED
    BY <2>5, LeavesKept
<1>5. CASE turn[r].pc # "unlaunched"
  <2>1. turn' = turn /\ admission' = admission
    BY <1>5 DEF Core, TicketsTypeOK, _cancel_settles
  <2>2. turn \in [Run -> Turns]
    BY DEF Core, TicketsTypeOK, Turns
  <2>3. Parks
    BY <1>1, <1>2, <1>3, <2>1, <2>2 DEF Parks
  <2>. QED
    BY <2>3, ParksKept
<1>. QED
  BY <1>4, <1>5

LEMMA RefusedKept ==
    ASSUME Core, queue_continue_refused \/ start_next_queued_input_empty
    PROVE  Core' /\ StepRules
<1>1. /\ phase = "up" /\ phase' = phase /\ accepting' = accepting /\ turn' = turn
      /\ UNCHANGED <<transcript, snapshot, admission, stops, bound, consent, abandoned, faults>>
  BY DEF queue_continue_refused, start_next_queued_input_empty, LoopFree, history
<1>2. CommandKept
  <2>1. CASE queue_continue_refused
    BY <2>1 DEF queue_continue_refused, CommandKept, NoCommand
  <2>2. CASE start_next_queued_input_empty
    BY <2>2, WriteIs DEF Core, start_next_queued_input_empty
  <2>. QED
    BY <2>1, <2>2
<1>3. \/ AllParked /\ park_reason' = FALSE
      \/ tickets' = tickets /\ park_reason' = park_reason
  <2>1. CASE UNCHANGED <<tickets, park_reason>>
    BY <2>1
  <2>2. CASE tickets' = AtAdmission /\ park_reason' = FALSE
    BY <2>2, AdmissionParks DEF Core, TicketsTypeOK
  <2>. QED
    BY <2>1, <2>2, WriteIs DEF Core, queue_continue_refused, start_next_queued_input_empty
<1>4. turn \in [Run -> Turns] /\ accepting \in BOOLEAN /\ stops \in [Run -> Nat] /\ faults \in 0..MaxFaults
  BY DEF Core, TicketsTypeOK, Turns
<1>5. Parks
  BY <1>1, <1>2, <1>3, <1>4 DEF Parks
<1>. QED
  BY <1>5, ParksKept

-----------------------------------------------------------------------------
(* A new run                                                                 *)

\* A run takes the idle chat.  An owed parking is settled first; else the queue stays as it
\* is, except for the ticket that becomes the turn.
Launches(r) ==
    /\ phase = "up" /\ phase' = phase /\ admission = NoRun /\ admission' = r
    /\ turn[r].pc = "unused"
    /\ turn' \in [Run -> Turns]
    /\ turn'[r].pc \in {"launched", "resuming"} /\ turn'[r].delivered = {}
    /\ \A q \in Run : q # r => turn'[q] = turn[q]
    /\ UNCHANGED <<transcript, snapshot, stops, bound, abandoned, faults>>
    /\ accepting' = TRUE /\ park_reason' = FALSE
    /\ consent \subseteq consent' /\ consent' \subseteq Ticket
    /\ tickets' \in [Ticket -> Rows] /\ CommandKept
    /\ \/ AllParked /\ turn'[r].initial = {}
       \/ /\ ~park_reason
          /\ \A k \in Ticket : tickets'[k] # tickets[k] =>
                k \in turn'[r].initial /\ tickets'[k].state = "preparing"
          /\ \A k \in turn'[r].initial :
                \/ tickets[k].state = "queued"
                \/ tickets[k].state = "parked" /\ k \in consent'

LEMMA LaunchesKept ==
    ASSUME Core, NEW r \in Run, Launches(r)
    PROVE  Core' /\ StepRules
<1>1. /\ r # NoRun
      /\ \A q \in Run : turn[q].pc \in {"unused", "cut", "ended"} /\ q # NoRun
  BY OneHolder DEF Core, Launches
<1>2. \A k \in Ticket : tickets'[k] # tickets[k] =>
         /\ tickets[k].state \in parkable \cup {"parked"}
         /\ tickets'[k].state \in {"parked", "preparing"}
  BY DEF Launches, AllParked, parkable
<1>3. TicketsTypeOK'
  BY <1>1 DEF Core, Launches, TicketsTypeOK, Turns, Rows, CommandKept
<1>4. CompletedMeansPersisted'
  BY <1>2 DEF Core, Launches, CompletedMeansPersisted, In
<1>5. DeliveredIsHeld'
  <2>1. /\ In({"running"})' \subseteq In({"running"})
        /\ In({"transcript_committing"})' \subseteq In({"transcript_committing"})
    BY <1>2 DEF In
  <2>2. In({"running"}) \cup In({"transcript_committing"}) \subseteq abandoned
    BY <1>1 DEF Core, Launches, DeliveredIsHeld, Delivering, Committing
  <2>. QED
    BY <2>1, <2>2 DEF Launches, DeliveredIsHeld
<1>6. ClaimedIsHeld'
  <2>1. CASE AllParked
    BY <2>1, AllParkedIs DEF ClaimedIsHeld, In, parkable
  <2>2. CASE ~AllParked
    BY <1>1, <2>2 DEF Core, Launches, ClaimedIsHeld, In, Stopping
  <2>. QED
    BY <2>1, <2>2
<1>7. QueuedIsAwaited'
  <2>1. CASE AllParked
    BY <2>1, AllParkedIs DEF QueuedIsAwaited, In, parkable
  <2>2. CASE ~AllParked
    BY <1>1, <1>2, <2>2 DEF Core, Launches, QueuedIsAwaited, In, TicketsTypeOK
  <2>. QED
    BY <2>1, <2>2
<1>8. ReleasedIsParked' /\ StartsEmpty'
  BY <1>1 DEF Launches, ReleasedIsParked, StartsEmpty
<1>9. MemoryIsCurrent'
  BY <1>1, CommandStep DEF Core, Launches, MemoryIsCurrent
<1>10. StepRules
  <2>1. \A q \in Run : q # r => Given(q) = {}
    BY DEF Given, _inputs_for_commit, Launches
  <2>2. \A k \in Given(r) : /\ k \in Ticket
                            /\ ~park_reason
                            /\ \/ tickets[k].state = "queued"
                               \/ k \in consent'
    BY DEF Given, _inputs_for_commit, Launches, Turns
  <2>3. \A k \in Given(r) :
           \/ bound[k] \in {r, NoRun} \/ turn[bound[k]].pc = "cut" \/ k \in consent'
    BY <2>2 DEF Core, Launches, QueuedIsAwaited, In
  <2>4. KeepsSettled
    BY <1>2 DEF KeepsSettled, parkable, TICKET_TERMINAL_STATES
  <2>. QED
    BY <2>1, <2>3, <2>4 DEF StepRules, AsksFirst
<1>. QED
  BY <1>3, <1>4, <1>5, <1>6, <1>7, <1>8, <1>9, <1>10 DEF Core

LEMMA LaunchIs ==
    ASSUME TicketsTypeOK, NEW r \in Run, NEW pc \in {"launched", "resuming"},
           NEW initial \in SUBSET Ticket, Launch(r, pc, initial)
    PROVE  /\ admission' = r /\ accepting' = TRUE /\ park_reason' = FALSE
           /\ turn' \in [Run -> Turns]
           /\ turn'[r].pc = pc /\ turn'[r].initial = initial /\ turn'[r].delivered = {}
           /\ \A q \in Run : q # r => turn'[q] = turn[q]
<1>. DEFINE t == [Cleared(pc) EXCEPT !.initial = initial]
<1>1. t \in Turns /\ t.pc = pc /\ t.initial = initial /\ t.delivered = {}
  BY DEF Cleared, Turns, TurnState
<1>2. turn' = [turn EXCEPT ![r] = t]
  BY DEF Launch
<1>. HIDE DEF t
<1>. QED
  BY <1>1, <1>2, TurnIs DEF Launch

LEMMA ChatKept ==
    ASSUME Core, NEW r \in Run, _chat(r) \/ resume(r)
    PROVE  Core' /\ StepRules
<1>1. /\ phase = "up" /\ phase' = phase /\ admission = NoRun /\ turn[r].pc = "unused"
      /\ UNCHANGED <<transcript, snapshot, stops, bound, consent, abandoned, faults>>
      /\ Write(AtAdmission)
  BY DEF _chat, resume, CanReserve, LoopFree, history
<1>2. PICK pc \in {"launched", "resuming"} : Launch(r, pc, {})
  BY DEF _chat, resume
<1>3. /\ admission' = r /\ accepting' = TRUE /\ park_reason' = FALSE
      /\ turn' \in [Run -> Turns]
      /\ turn'[r].pc = pc /\ turn'[r].initial = {} /\ turn'[r].delivered = {}
      /\ \A q \in Run : q # r => turn'[q] = turn[q]
  <2>1. {} \in SUBSET Ticket
    OBVIOUS
  <2>. QED
    BY <1>2, <2>1, LaunchIs DEF Core
<1>4. CommandKept /\ tickets' = AtAdmission
  BY <1>1, WriteIs DEF Core
<1>5. AllParked \/ (~park_reason /\ tickets' = tickets)
  BY <1>4, AdmissionParks DEF Core
<1>6. tickets' \in [Ticket -> Rows] /\ consent \subseteq Ticket
  BY <1>5 DEF Core, TicketsTypeOK, AllParked, Rows
<1>7. Launches(r)
  BY <1>1, <1>3, <1>4, <1>5, <1>6 DEF Launches
<1>. QED
  BY <1>7, LaunchesKept

LEMMA StartNextKept ==
    ASSUME Core, NEW r \in Run, start_next_queued_input(r)
    PROVE  Core' /\ StepRules
<1>1. /\ phase = "up" /\ phase' = phase /\ admission = NoRun /\ turn[r].pc = "unused"
      /\ ~park_reason
      /\ UNCHANGED <<transcript, snapshot, stops, bound, consent, abandoned, faults>>
  BY DEF start_next_queued_input, CanReserve, LoopFree, history
<1>2. PICK k \in In({"queued"}) : /\ Write(Moved({k}, {"queued"}, "preparing"))
                                  /\ Launch(r, "launched", {k})
  BY DEF start_next_queued_input, Oldest, FollowUps, Steers
<1>3. k \in Ticket /\ tickets[k].state = "queued"
  BY DEF In
<1>4. /\ tickets' \in [Ticket -> Rows] /\ CommandKept
      /\ tickets'[k].state = "preparing" /\ \A j \in Ticket : j # k => tickets'[j] = tickets[j]
  BY <1>2, <1>3, WriteIs, MovedIs DEF Core, TICKET_STATES
<1>5. /\ admission' = r /\ accepting' = TRUE /\ park_reason' = FALSE
      /\ turn' \in [Run -> Turns]
      /\ turn'[r].pc = "launched" /\ turn'[r].initial = {k} /\ turn'[r].delivered = {}
      /\ \A q \in Run : q # r => turn'[q] = turn[q]
  <2>1. {k} \in SUBSET Ticket
    BY <1>3
  <2>. QED
    BY <1>2, <2>1, LaunchIs DEF Core
<1>6. consent \subseteq Ticket
  BY DEF Core, TicketsTypeOK
<1>7. Launches(r)
  BY <1>1, <1>3, <1>4, <1>5, <1>6 DEF Launches
<1>. QED
  BY <1>7, LaunchesKept

LEMMA ContinueKept ==
    ASSUME Core, NEW r \in Run, continue_parked_input(r)
    PROVE  Core' /\ StepRules
<1>1. /\ phase = "up" /\ phase' = phase /\ admission = NoRun /\ turn[r].pc = "unused"
      /\ ~park_reason /\ pending.fresh /\ pending' = NoCommand
      /\ UNCHANGED <<transcript, snapshot, stops, bound, abandoned, faults>>
  BY DEF continue_parked_input, CanReserve, LoopFree
<1>2. PICK k \in pending.ticket :
         /\ tickets' = [tickets EXCEPT ![k] = [state |-> "preparing", delivery |-> "follow_up"]]
         /\ consent' = consent \cup {k}
         /\ Launch(r, "launched", {k})
  BY DEF continue_parked_input
<1>3. k \in Ticket /\ tickets[k].state = "parked"
  BY <1>1 DEF Core, MemoryIsCurrent, In
<1>4. [state |-> "preparing", delivery |-> "follow_up"] \in Rows
  BY DEF Rows, TICKET_STATES, Delivery
<1>5. tickets \in [Ticket -> Rows] /\ consent \subseteq Ticket
  BY DEF Core, TicketsTypeOK, Rows
<1>6. /\ tickets' \in [Ticket -> Rows]
      /\ tickets'[k].state = "preparing" /\ \A j \in Ticket : j # k => tickets'[j] = tickets[j]
  BY <1>2, <1>3, <1>4, <1>5
<1>7. CommandKept
  BY <1>1 DEF CommandKept, NoCommand
<1>8. /\ admission' = r /\ accepting' = TRUE /\ park_reason' = FALSE
      /\ turn' \in [Run -> Turns]
      /\ turn'[r].pc = "launched" /\ turn'[r].initial = {k} /\ turn'[r].delivered = {}
      /\ \A q \in Run : q # r => turn'[q] = turn[q]
  <2>1. {k} \in SUBSET Ticket
    BY <1>3
  <2>. QED
    BY <1>2, <2>1, LaunchIs DEF Core
<1>9. Launches(r)
  BY <1>1, <1>2, <1>3, <1>5, <1>6, <1>7, <1>8 DEF Launches
<1>. QED
  BY <1>9, LaunchesKept

\* The resumed turn takes what its checkpoint delivered, and the held tickets it queues
\* again are the user's to resume.
LEMMA PromoteKept ==
    ASSUME Core, NEW r \in Run, promote_recovered_inputs(r)
    PROVE  Core' /\ StepRules
<1>. DEFINE t == [turn[r] EXCEPT !.pc = IF snapshot.commit_only THEN "finalizing" ELSE "looping",
                                 !.delivered = snapshot.delivered,
                                 !.answered = snapshot.commit_only]
<1>1. /\ phase = "up" /\ phase' = phase /\ turn[r].pc = "resuming"
      /\ UNCHANGED <<transcript, snapshot, admission, park_reason, stops, bound, abandoned, faults>>
      /\ consent' = consent \cup In({"resume_queued"}) \cup snapshot.delivered
  BY DEF promote_recovered_inputs, LoopFree
<1>2. /\ admission = r /\ r # NoRun
      /\ \A q \in Run : turn[q].pc \notin {"unused", "cut", "ended"} <=> q = r
  BY <1>1, OneHolder DEF Core
<1>3. snapshot.delivered \subseteq Ticket /\ snapshot.commit_only \in BOOLEAN
  BY DEF Core, TicketsTypeOK
<1>4. turn' = [turn EXCEPT ![r] = t]
  BY DEF Core, TicketsTypeOK, promote_recovered_inputs
<1>5. /\ t \in Turns /\ t.pc \in Delivering
      /\ t.initial = turn[r].initial /\ t.delivered = snapshot.delivered
  BY <1>3, OneHolder DEF Core, Turns, TurnState, Delivering
<1>. HIDE DEF t
<1>6. /\ turn' \in [Run -> Turns] /\ turn'[r] = t
      /\ \A q \in Run : q # r => turn'[q] = turn[q]
  BY <1>4, <1>5, TurnIs DEF Core
<1>7. tickets' = promoted /\ CommandKept
  BY WriteIs DEF Core, promote_recovered_inputs
<1>8. \A k \in Ticket : tickets'[k] # tickets[k] =>
         /\ tickets[k].state = "resume_queued"
         /\ \/ tickets'[k].state = "running" /\ k \in snapshot.delivered
            \/ tickets'[k].state = "queued"
  BY <1>7 DEF Core, TicketsTypeOK, promoted
<1>9. tickets' \in [Ticket -> Rows]
  BY <1>7 DEF Core, TicketsTypeOK, promoted, Rows, TICKET_STATES
<1>10. consent \subseteq consent' /\ consent' \subseteq Ticket
  BY <1>1, <1>3 DEF Core, TicketsTypeOK, In
<1>11. accepting' \in BOOLEAN
  BY <1>3 DEF Core, TicketsTypeOK, promote_recovered_inputs
<1>12. turn'[r].pc \notin {"unused", "cut", "ended", "releasing", "appended", "complete_failed"}
  BY <1>5, <1>6 DEF Delivering
<1>13. TicketsTypeOK'
  BY <1>1, <1>2, <1>6, <1>7, <1>9, <1>10, <1>11, <1>12
     DEF Core, TicketsTypeOK, Turns, Rows, CommandKept
<1>14. CompletedMeansPersisted'
  BY <1>1, <1>8 DEF Core, CompletedMeansPersisted, In
<1>15. DeliveredIsHeld'
  <2>1. In({"running"}) \cup In({"transcript_committing"}) \subseteq abandoned
    BY <1>1, <1>2 DEF Core, DeliveredIsHeld, Delivering, Committing
  <2>2. /\ In({"running"})' \subseteq In({"running"}) \cup snapshot.delivered
        /\ In({"transcript_committing"})' \subseteq In({"transcript_committing"})
    BY <1>8 DEF In
  <2>. QED
    BY <1>1, <1>5, <1>6, <2>1, <2>2 DEF DeliveredIsHeld, _inputs_for_commit
<1>16. ClaimedIsHeld'
  BY <1>1, <1>2, <1>5, <1>6, <1>8, <1>12 DEF Core, ClaimedIsHeld, In, Stopping
<1>17. QueuedIsAwaited'
  <2>. SUFFICES ASSUME NEW k \in Ticket, tickets'[k].state = "queued", bound[k] # NoRun
                PROVE  \/ k \in consent' \/ bound[k] = admission
                       \/ turn'[bound[k]].pc = "cut"
    BY <1>1, <1>2 DEF QueuedIsAwaited, In
  <2>1. CASE tickets[k].state = "queued"
    BY <1>1, <1>2, <1>6, <1>10, <2>1 DEF Core, QueuedIsAwaited, In, TicketsTypeOK
  <2>2. CASE tickets[k].state # "queued"
    BY <1>1, <1>8, <2>2 DEF In
  <2>. QED
    BY <2>1, <2>2
<1>18. ReleasedIsParked' /\ StartsEmpty'
  BY <1>1, <1>2, <1>6, <1>12 DEF ReleasedIsParked, StartsEmpty
<1>19. MemoryIsCurrent'
  BY <1>2, <1>6, <1>7, <1>12, CommandStep DEF Core, MemoryIsCurrent
<1>20. StepRules
  <2>1. \A q \in Run : q # r => Given(q) = {}
    BY <1>6 DEF Given, _inputs_for_commit
  <2>2. Given(r) \subseteq snapshot.delivered
    BY <1>5, <1>6 DEF Given, _inputs_for_commit
  <2>3. KeepsSettled
    BY <1>8 DEF KeepsSettled, TICKET_TERMINAL_STATES
  <2>. QED
    BY <1>1, <2>1, <2>2, <2>3 DEF StepRules, AsksFirst
<1>. QED
  BY <1>13, <1>14, <1>15, <1>16, <1>17, <1>18, <1>19, <1>20 DEF Core

-----------------------------------------------------------------------------
(* Commands on the queue                                                     *)

LEMMA EnqueueKept ==
    ASSUME Core, NEW k \in Ticket, NEW d \in Delivery, enqueue_input(k, d)
    PROVE  Core' /\ StepRules
<1>1. /\ phase = "up" /\ phase' = phase /\ tickets[k].state = "absent"
      /\ admission # NoRun => accepting
      /\ bound' = [bound EXCEPT ![k] = admission]
      /\ UNCHANGED <<transcript, snapshot, admission, accepting, park_reason, turn, stops,
                     consent, abandoned, faults>>
  BY DEF enqueue_input, LoopFree
<1>2. tickets' = [tickets EXCEPT ![k] = [state |-> "queued", delivery |-> d]] /\ CommandKept
  BY WriteIs DEF Core, enqueue_input
<1>3. [state |-> "queued", delivery |-> d] \in Rows
  BY DEF Rows, TICKET_STATES
<1>4. /\ tickets' \in [Ticket -> Rows]
      /\ tickets'[k].state = "queued" /\ \A j \in Ticket : j # k => tickets'[j] = tickets[j]
  BY <1>2, <1>3 DEF Core, TicketsTypeOK, Rows
<1>5. /\ bound' \in [Ticket -> Run \cup {NoRun}] /\ bound'[k] = admission
      /\ \A j \in Ticket : j # k => bound'[j] = bound[j]
  BY <1>1 DEF Core, TicketsTypeOK
<1>6. TicketsTypeOK'
  BY <1>1, <1>4, <1>5, <1>2 DEF Core, TicketsTypeOK, Rows, CommandKept
<1>7. CompletedMeansPersisted'
  BY <1>1, <1>4 DEF Core, CompletedMeansPersisted, In
<1>8. DeliveredIsHeld'
  BY <1>1, <1>4 DEF Core, DeliveredIsHeld, In, _inputs_for_commit
<1>9. ClaimedIsHeld'
  BY <1>1, <1>4 DEF Core, ClaimedIsHeld, In, Stopping
<1>10. QueuedIsAwaited'
  BY <1>1, <1>4, <1>5 DEF Core, QueuedIsAwaited, In, Stopping
<1>11. ReleasedIsParked'
  <2>1. \A q \in Run : turn[q].pc # "releasing"
    BY <1>1, OneHolder DEF Core, ReleasedIsParked
  <2>. QED
    BY <1>1, <2>1 DEF ReleasedIsParked
<1>12. StartsEmpty'
  BY <1>1 DEF StartsEmpty
<1>13. MemoryIsCurrent'
  BY <1>1, <1>2, CommandStep DEF Core, MemoryIsCurrent, _inputs_for_commit
<1>14. StepRules
  BY <1>1, <1>4 DEF StepRules, KeepsSettled, AsksFirst, Given, _inputs_for_commit,
                    TICKET_TERMINAL_STATES
<1>. QED
  BY <1>6, <1>7, <1>8, <1>9, <1>10, <1>11, <1>12, <1>13, <1>14 DEF Core

LEMMA RemoveKept ==
    ASSUME Core, NEW k \in Ticket, queue_remove(k)
    PROVE  Core' /\ StepRules
<1>1. /\ phase = "up" /\ phase' = phase
      /\ tickets[k].state \in {"queued", "resume_queued", "parked"}
      /\ UNCHANGED <<transcript, snapshot, admission, accepting, park_reason, turn, stops,
                     bound, consent, abandoned, faults>>
  BY DEF queue_remove, LoopFree, history
<1>2. /\ tickets' = Moved({k}, {"queued", "resume_queued", "parked"}, "cancelled")
      /\ CommandKept
  BY WriteIs DEF Core, queue_remove
<1>3. /\ tickets' \in [Ticket -> Rows]
      /\ tickets'[k].state = "cancelled" /\ \A j \in Ticket : j # k => tickets'[j] = tickets[j]
  BY <1>1, <1>2, MovedIs DEF Core, TICKET_STATES, TICKET_TERMINAL_STATES
<1>4. TicketsTypeOK'
  BY <1>1, <1>2, <1>3 DEF Core, TicketsTypeOK, Rows, CommandKept
<1>5. CompletedMeansPersisted'
  BY <1>1, <1>3 DEF Core, CompletedMeansPersisted, In
<1>6. DeliveredIsHeld'
  BY <1>1, <1>3 DEF Core, DeliveredIsHeld, In, _inputs_for_commit
<1>7. ClaimedIsHeld'
  BY <1>1, <1>3 DEF Core, ClaimedIsHeld, In, Stopping
<1>8. QueuedIsAwaited'
  BY <1>1, <1>3 DEF Core, QueuedIsAwaited, In, Stopping
<1>9. ReleasedIsParked' /\ StartsEmpty'
  BY <1>1, <1>3 DEF Core, ReleasedIsParked, StartsEmpty, In, parkable
<1>10. MemoryIsCurrent'
  BY <1>1, <1>2, CommandStep DEF Core, MemoryIsCurrent, _inputs_for_commit
<1>11. StepRules
  BY <1>1, <1>3 DEF StepRules, KeepsSettled, AsksFirst, Given, _inputs_for_commit,
                    TICKET_TERMINAL_STATES
<1>. QED
  BY <1>4, <1>5, <1>6, <1>7, <1>8, <1>9, <1>10, <1>11 DEF Core

LEMMA ContinueCheckKept ==
    ASSUME Core, NEW k \in Ticket, queue_continue(k)
    PROVE  Core' /\ StepRules
<1>1. /\ phase = "up" /\ tickets[k].state = "parked"
      /\ pending' = [ticket |-> {k}, fresh |-> TRUE]
      /\ UNCHANGED <<tickets, transcript, snapshot, admission, accepting, park_reason, turn,
                     stops, phase, bound, consent, abandoned, faults>>
  BY DEF queue_continue, LoopFree, durable, history
<1>2. TicketsTypeOK'
  BY <1>1 DEF Core, TicketsTypeOK
<1>3. CompletedMeansPersisted' /\ DeliveredIsHeld' /\ ClaimedIsHeld'
  BY <1>1 DEF Core, CompletedMeansPersisted, DeliveredIsHeld, ClaimedIsHeld, In, Stopping,
              _inputs_for_commit
<1>4. QueuedIsAwaited' /\ ReleasedIsParked' /\ StartsEmpty'
  BY <1>1 DEF Core, QueuedIsAwaited, ReleasedIsParked, StartsEmpty, In, Stopping
<1>5. MemoryIsCurrent'
  BY <1>1 DEF Core, MemoryIsCurrent, _inputs_for_commit, In
<1>6. StepRules
  BY <1>1 DEF StepRules, KeepsSettled, AsksFirst, Given, _inputs_for_commit
<1>. QED
  BY <1>2, <1>3, <1>4, <1>5, <1>6 DEF Core

-----------------------------------------------------------------------------
(* Restart                                                                   *)

LEMMA CrashKept ==
    ASSUME Core, Crash
    PROVE  Core' /\ StepRules
<1>1. /\ phase' = "starting" /\ admission' = NoRun /\ ~accepting' /\ ~park_reason'
      /\ accepting' \in BOOLEAN /\ park_reason' \in BOOLEAN
      /\ stops' = [r \in Run |-> 0] /\ pending' = NoCommand /\ abandoned' = {}
      /\ UNCHANGED <<tickets, transcript, snapshot, bound, consent>>
  BY DEF Crash, durable
<1>2. /\ turn' \in [Run -> Turns]
      /\ \A r \in Run : turn'[r].pc \in {"unused", "ended"}
      /\ \A r \in Run : turn'[r] = turn[r] \/ (turn'[r].initial = {} /\ turn'[r].delivered = {})
  BY OneHolder, ClearedIs DEF Core, Crash, TurnState
<1>3. faults' \in 0..MaxFaults
  BY TicketsAssumption DEF Core, TicketsTypeOK, Crash, Fault
<1>4. stops' \in [Run -> Nat] /\ pending' \in [ticket: SUBSET Ticket, fresh: BOOLEAN]
      /\ ~pending'.fresh /\ ~Stopping'
  BY <1>1 DEF NoCommand, Stopping
<1>5. \A r \in Run : r # NoRun
  BY OneHolder DEF Core
<1>6. TicketsTypeOK'
  BY <1>1, <1>2, <1>3, <1>4, <1>5 DEF Core, TicketsTypeOK, Turns
<1>7. CompletedMeansPersisted' /\ DeliveredIsHeld' /\ ClaimedIsHeld' /\ QueuedIsAwaited'
  BY <1>1 DEF Core, CompletedMeansPersisted, DeliveredIsHeld, ClaimedIsHeld, QueuedIsAwaited, In
<1>8. ReleasedIsParked' /\ StartsEmpty' /\ MemoryIsCurrent'
  BY <1>1, <1>2, <1>4 DEF ReleasedIsParked, StartsEmpty, MemoryIsCurrent
<1>9. StepRules
  <2>1. \A r \in Run : Given(r) = {}
    BY <1>2 DEF Given, _inputs_for_commit
  <2>. QED
    BY <1>1, <2>1 DEF StepRules, KeepsSettled, AsksFirst
<1>. QED
  BY <1>6, <1>7, <1>8, <1>9 DEF Core

LEMMA ReconcileKept ==
    ASSUME Core, NEW k \in Ticket, startup_reconcile_ticket(k)
    PROVE  Core' /\ StepRules
<1>. DEFINE row == Row(k, IF k \in transcript THEN "completed" ELSE "resume_queued")
<1>1. /\ phase = "starting" /\ tickets[k].state \notin TICKET_TERMINAL_STATES
      /\ UNCHANGED <<transcript, snapshot, admission, accepting, park_reason, turn, stops,
                     pending, phase, bound, consent, abandoned, faults>>
  BY DEF startup_reconcile_ticket, Unreconciled, In, TICKET_TERMINAL_STATES, loop, history
<1>2. /\ row \in Rows
      /\ \/ row.state = "completed" /\ k \in transcript
         \/ row.state = "resume_queued"
  BY DEF Core, TicketsTypeOK, Row, Rows, TICKET_STATES, TICKET_TERMINAL_STATES, Delivery
<1>3. tickets' = [tickets EXCEPT ![k] = row]
  BY DEF startup_reconcile_ticket
<1>. HIDE DEF row
<1>4. /\ tickets' \in [Ticket -> Rows] /\ tickets'[k] = row
      /\ \A j \in Ticket : j # k => tickets'[j] = tickets[j]
  BY <1>2, <1>3 DEF Core, TicketsTypeOK, Rows
<1>5. TicketsTypeOK'
  BY <1>1, <1>4 DEF Core, TicketsTypeOK, Rows
<1>6. CompletedMeansPersisted'
  BY <1>1, <1>2, <1>4 DEF Core, CompletedMeansPersisted, In
<1>7. DeliveredIsHeld' /\ ClaimedIsHeld' /\ QueuedIsAwaited'
  BY <1>1 DEF DeliveredIsHeld, ClaimedIsHeld, QueuedIsAwaited
<1>8. admission = NoRun /\ ~pending.fresh
  BY <1>1 DEF Core, StartsEmpty, NoCommand
<1>9. \A q \in Run : turn[q].pc \in {"unused", "cut", "ended"}
  BY <1>8, OneHolder DEF Core
<1>10. ReleasedIsParked' /\ StartsEmpty' /\ MemoryIsCurrent'
  BY <1>1, <1>8, <1>9 DEF Core, ReleasedIsParked, StartsEmpty, MemoryIsCurrent, Stopping
<1>11. StepRules
  BY <1>1, <1>4 DEF StepRules, KeepsSettled, AsksFirst, Given, _inputs_for_commit
<1>. QED
  BY <1>5, <1>6, <1>7, <1>10, <1>11 DEF Core

LEMMA ReconcileEndsKept ==
    ASSUME Core, startup_reconcile_ends
    PROVE  Core' /\ StepRules
<1>1. /\ phase = "starting" /\ Unreconciled = {} /\ phase' = "up"
      /\ UNCHANGED <<tickets, transcript, snapshot, admission, accepting, park_reason, turn,
                     stops, pending, bound, consent, abandoned, faults>>
  BY DEF startup_reconcile_ends, durable, history
<1>2. TicketsTypeOK' /\ CompletedMeansPersisted'
  BY <1>1 DEF Core, TicketsTypeOK, CompletedMeansPersisted, In
<1>3. DeliveredIsHeld' /\ ClaimedIsHeld' /\ QueuedIsAwaited'
  BY <1>1 DEF DeliveredIsHeld, ClaimedIsHeld, QueuedIsAwaited, Unreconciled, In
<1>4. ReleasedIsParked' /\ StartsEmpty' /\ MemoryIsCurrent'
  BY <1>1 DEF Core, ReleasedIsParked, StartsEmpty, MemoryIsCurrent, In, _inputs_for_commit
<1>5. StepRules
  BY <1>1 DEF StepRules, KeepsSettled, AsksFirst, Given, _inputs_for_commit
<1>. QED
  BY <1>2, <1>3, <1>4, <1>5 DEF Core

-----------------------------------------------------------------------------
LEMMA InitCore ==
    Init => Core
<1>. SUFFICES ASSUME Init PROVE Core
  OBVIOUS
<1>1. /\ \A k \in Ticket : tickets[k].state = "absent"
      /\ \A r \in Run : /\ turn[r] \in Turns /\ turn[r].pc = "unused"
                        /\ turn[r].initial = {} /\ turn[r].delivered = {}
      /\ phase = "up" /\ ~pending.fresh
  BY ClearedIs DEF Init, TurnState, NoCommand
<1>2. TicketsTypeOK
  <2>1. /\ tickets \in [Ticket -> Rows] /\ transcript \subseteq Ticket
        /\ snapshot \in [present: BOOLEAN, delivered: SUBSET Ticket, commit_only: BOOLEAN]
    BY NoSnapshotOK DEF Init, Rows, Delivery
  <2>2. /\ admission \in Run \cup {NoRun} /\ accepting \in BOOLEAN /\ park_reason \in BOOLEAN
        /\ \A r \in Run : turn[r].pc \in {"unused", "cut", "ended"} <=> admission # r
    BY <1>1, TicketsAssumption DEF Init, NoRun
  <2>3. turn \in [Run -> Turns]
    BY <1>1 DEF Init
  <2>4. /\ stops \in [Run -> Nat] /\ pending \in [ticket: SUBSET Ticket, fresh: BOOLEAN]
        /\ phase \in {"up", "starting"} /\ bound \in [Ticket -> Run \cup {NoRun}]
        /\ consent \subseteq Ticket /\ abandoned \subseteq Ticket /\ faults \in 0..MaxFaults
    BY TicketsAssumption DEF Init, NoCommand
  <2>. QED
    BY <2>1, <2>2, <2>3, <2>4 DEF TicketsTypeOK, Turns, Rows
<1>3. CompletedMeansPersisted /\ DeliveredIsHeld /\ ClaimedIsHeld /\ QueuedIsAwaited
  BY <1>1 DEF CompletedMeansPersisted, DeliveredIsHeld, ClaimedIsHeld, QueuedIsAwaited, In
<1>4. ReleasedIsParked /\ MemoryIsCurrent /\ StartsEmpty
  BY <1>1 DEF ReleasedIsParked, MemoryIsCurrent, StartsEmpty
<1>. QED
  BY <1>2, <1>3, <1>4 DEF Core

LEMMA NextKept ==
    ASSUME Core, Next
    PROVE  Core' /\ StepRules
<1>1. CASE Queue
  BY <1>1, EnqueueKept, RemoveKept, ContinueCheckKept, RefusedKept DEF Queue
<1>2. CASE \E r \in Run : Start(r)
  BY <1>2, ChatKept, StartNextKept, ContinueKept DEF Start
<1>3. CASE \E r \in Run : Loop(r)
  BY <1>3, SetupKept, PromoteKept, DrainKept, CheckpointKept, FinishTurnKept, CancelKept,
     CancelSettlesKept DEF Loop
<1>4. CASE \E r \in Run : Finalize(r)
  BY <1>4, BeginCommitKept, AppendKept, CompleteKept, FailKept, SettleKept, FinishRunKept
     DEF Finalize
<1>5. CASE Crash \/ Recover
  BY <1>5, CrashKept, ReconcileKept, ReconcileEndsKept DEF Recover
<1>. QED
  BY <1>1, <1>2, <1>3, <1>4, <1>5 DEF Next

LEMMA StutterKept ==
    ASSUME Core, UNCHANGED vars
    PROVE  Core' /\ StepRules
<1>1. UNCHANGED <<tickets, transcript, snapshot, admission, accepting, park_reason, turn,
                  stops, pending, phase, bound, consent, abandoned, faults>>
  BY DEF vars, durable, loop, history
<1>2. TicketsTypeOK' /\ CompletedMeansPersisted' /\ DeliveredIsHeld' /\ ClaimedIsHeld'
  BY <1>1 DEF Core, TicketsTypeOK, CompletedMeansPersisted, DeliveredIsHeld, ClaimedIsHeld, In,
              Stopping, _inputs_for_commit
<1>3. QueuedIsAwaited' /\ ReleasedIsParked' /\ MemoryIsCurrent' /\ StartsEmpty'
  BY <1>1 DEF Core, QueuedIsAwaited, ReleasedIsParked, MemoryIsCurrent, StartsEmpty, In,
              Stopping, _inputs_for_commit
<1>4. StepRules
  BY <1>1 DEF StepRules, KeepsSettled, AsksFirst, Given, _inputs_for_commit
<1>. QED
  BY <1>2, <1>3, <1>4 DEF Core

\* While nobody holds the chat, no run is left that could hold a ticket.
LEMMA NothingStranded ==
    Core => NoStrandedTicket
<1>. SUFFICES ASSUME Core, phase = "up", admission = NoRun, ~Stopping, ~park_reason
              PROVE  /\ In({"running", "preparing", "transcript_committing"}) \subseteq abandoned
                     /\ \A k \in In({"queued"}) : bound[k] = NoRun
  BY DEF NoStrandedTicket
<1>1. \A r \in Run : turn[r].pc \in {"unused", "cut", "ended"} /\ admission # r
  BY OneHolder DEF Core
<1>2. In({"running"}) \cup In({"transcript_committing"}) \subseteq abandoned
  BY <1>1 DEF Core, DeliveredIsHeld, Delivering, Committing
<1>3. In({"preparing"}) = {}
  BY <1>1 DEF Core, ClaimedIsHeld
<1>4. \A k \in In({"queued"}) : bound[k] = NoRun
  BY DEF Core, QueuedIsAwaited
<1>. QED
  BY <1>2, <1>3, <1>4 DEF In

LEMMA CoreAlways == Spec => []Core
<1>1. Init => Core
  BY InitCore
<1>2. Core /\ [Next]_vars => Core'
  BY NextKept, StutterKept
<1>. QED
  BY <1>1, <1>2, PTL DEF Spec

(* The invariant of the queue: well-typed state, no ticket stranded between  *)
(* runs, and no ticket reported completed that the transcript does not keep, *)
(* with the facts these rest on, whatever storage step fails, however often  *)
(* Stop is pressed and wherever the process dies.                            *)
THEOREM QueueInvariant == Spec => []TicketsInv
<1>1. Core => TicketsInv
  BY NothingStranded DEF Core, TicketsInv
<1>. QED
  BY <1>1, CoreAlways, PTL

(* Input queued for one run reaches a later one only by the user's choice,   *)
(* unless a Stop cut its run inside the settlement.                          *)
THEOREM LeftoversAreAsked == Spec => LeftoversNeedConsent
<1>1. Core /\ [Next]_vars => [AsksFirst]_vars
  BY NextKept, StutterKept DEF StepRules
<1>. QED
  BY <1>1, CoreAlways, PTL DEF Spec, LeftoversNeedConsent, AsksFirst

(* No command, commit, parking or recovery takes a ticket out of a terminal  *)
(* state.                                                                    *)
THEOREM SettledTicketsStay == Spec => TerminalTicketIsFinal
<1>1. Core /\ [Next]_vars => [KeepsSettled]_vars
  BY NextKept, StutterKept DEF StepRules
<1>. QED
  BY <1>1, CoreAlways, PTL DEF Spec, TerminalTicketIsFinal, KeepsSettled
=============================================================================
