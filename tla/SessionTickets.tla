--------------------------- MODULE SessionTickets ---------------------------
(***************************************************************************)
(* The durable input queue of one chat and the runs that consume it: input *)
(* tickets are queued while a run is active, drained at its boundaries,    *)
(* committed with the transcript, parked when the run ends, continued or   *)
(* removed by the user, and reconciled after a restart.                    *)
(*                                                                         *)
(* Ticket ids are numbered in creation order.  The code between two awaits *)
(* is one step of the event loop; where a crash can fall between two       *)
(* database writes of such a step, the writes are steps of their own and   *)
(* no other loop action runs in between (LoopFree).  Admission itself is   *)
(* the subject of SessionAdmission; here it is who holds the chat.         *)
(***************************************************************************)
EXTENDS Naturals

CONSTANTS
    Ticket,         \* ticket ids, 1..n in creation order
    Run,            \* runs of the chat, numbered from 1 in order of admission
    Failing,        \* the storage steps that may fail: park, append, complete
    MaxFaults       \* bound on storage failures, repeated Stops and process restarts

ASSUME TicketsAssumption ==
    /\ Ticket \subseteq Nat
    /\ Run \subseteq Nat \ {0}
    /\ Failing \subseteq {"park", "append", "complete"}
    /\ MaxFaults \in Nat

VARIABLES
    tickets,        \* astb_input_ticket: state and delivery of each ticket
    transcript,     \* tickets whose message is in the durable transcript
    snapshot,       \* the chat's resumable graph checkpoint
    admission,      \* the run that holds the chat
    accepting,      \* accepting_inputs of that admission
    park_reason,    \* a parking that failed and is still owed
    turn,           \* the task of each run
    stops,          \* of each run, how many Stop handlers await the end of the task
    pending,        \* a "continue" command between its check and its claim
    phase,          \* "up", or "starting" while startup_reconcile runs
    bound,          \* history: the run a ticket was queued for
    consent,        \* history: tickets the user chose to continue or resume
    abandoned,      \* history: delivered tickets a turn gave up without settling them
    faults

durable == <<tickets, transcript, snapshot>>
loop    == <<admission, accepting, park_reason, turn, stops, pending, phase>>
history == <<bound, consent, abandoned, faults>>
vars    == <<durable, loop, history>>

\* "selected" is a state only inside claim_input, treated as "preparing" everywhere,
\* and "rejected" is never written.
TICKET_TERMINAL_STATES == {"completed", "cancelled", "transcript_failed"}
TICKET_STATES == TICKET_TERMINAL_STATES \cup
    {"parked", "queued", "resume_queued", "preparing", "running", "transcript_committing"}

Delivery == {"steer", "follow_up"}

NoRun == 0

NoSnapshot == [present |-> FALSE, delivered |-> {}, commit_only |-> FALSE]
NoCommand  == [ticket |-> {}, fresh |-> FALSE]

TurnState == {"unused", "launched", "resuming", "unlaunched", "looping", "finalizing",
              "committing", "appended", "append_failed", "complete_failed", "settling",
              "releasing", "cut", "ended"}

Delivering == {"looping", "finalizing"}
Committing == {"committing", "appended", "append_failed", "complete_failed"}

TicketsTypeOK ==
    /\ tickets \in [Ticket -> [state: TICKET_STATES \cup {"absent"}, delivery: Delivery]]
    /\ transcript \subseteq Ticket
    /\ snapshot \in [present: BOOLEAN, delivered: SUBSET Ticket,
                     commit_only: BOOLEAN]
    /\ admission \in Run \cup {NoRun}
    /\ accepting \in BOOLEAN /\ park_reason \in BOOLEAN
    /\ turn \in [Run -> [pc: TurnState, initial: SUBSET Ticket, delivered: SUBSET Ticket,
                         answered: BOOLEAN]]
    /\ \A r \in Run : turn[r].pc \in {"unused", "cut", "ended"} <=> admission # r
    /\ stops \in [Run -> Nat]
    /\ pending \in [ticket: SUBSET Ticket, fresh: BOOLEAN]
    /\ phase \in {"up", "starting"}
    /\ bound \in [Ticket -> Run \cup {NoRun}]
    /\ consent \subseteq Ticket /\ abandoned \subseteq Ticket
    /\ faults \in 0..MaxFaults

\* clear_active_turn: a turn that is over keeps nothing.
Cleared(pc) == [pc |-> pc, initial |-> {}, delivered |-> {}, answered |-> FALSE]

Init ==
    /\ tickets = [k \in Ticket |-> [state |-> "absent", delivery |-> "steer"]]
    /\ transcript = {} /\ snapshot = NoSnapshot
    /\ admission = NoRun /\ accepting = FALSE /\ park_reason = FALSE
    /\ turn = [r \in Run |-> Cleared("unused")]
    /\ stops = [r \in Run |-> 0] /\ pending = NoCommand /\ phase = "up"
    /\ bound = [k \in Ticket |-> NoRun] /\ consent = {} /\ abandoned = {}
    /\ faults = 0

-----------------------------------------------------------------------------
In(S) == {k \in Ticket : tickets[k].state \in S}

\* The row of a ticket in a new state.  Nobody reads the delivery of a settled ticket, so
\* the model does not keep it.
Row(k, state) ==
    [state    |-> state,
     delivery |-> IF state \in TICKET_TERMINAL_STATES THEN "steer" ELSE tickets[k].delivery]

\* transition_ticket on every ticket of K that is in one of the expected states.
Moved(K, expected, state) ==
    [k \in Ticket |-> IF k \in K /\ tickets[k].state \in expected
                        THEN Row(k, state) ELSE tickets[k]]

\* Every write to the queue bumps its revision: a command checked before is stale.
Stale == [pending EXCEPT !.fresh = FALSE]
Write(ts) == tickets' = ts /\ pending' = IF ts = tickets THEN pending ELSE Stale

parkable == {"queued", "resume_queued", "preparing"}
park_tickets == Moved(Ticket, parkable, "parked")

LoopFree ==
    /\ phase = "up"
    /\ \A r \in Run : turn[r].pc \notin Committing

Fault == faults < MaxFaults /\ faults' = faults + 1

\* A storage step of the given kind fails.
Fails(step) == step \in Failing /\ Fault

\* Mutant: a failed parking is forgotten.
park_queued_input_tickets_forgets ==
    \/ Write(park_tickets) /\ park_reason' = FALSE /\ UNCHANGED faults
    \/ Fails("park") /\ UNCHANGED <<tickets, pending, park_reason>>

\* Parks all undelivered tickets; if storage fails the reason stays and is owed.
park_queued_input_tickets ==
    \/ Write(park_tickets) /\ park_reason' = FALSE /\ UNCHANGED faults
    \/ Fails("park") /\ park_reason' = TRUE /\ UNCHANGED <<tickets, pending>>

-----------------------------------------------------------------------------
(* Admission of a turn                                                     *)

\* The queue a new admission finds: an owed parking is settled first.
AtAdmission == IF park_reason THEN park_tickets ELSE tickets

CanReserve(r) ==
    /\ LoopFree
    /\ admission = NoRun
    /\ turn[r].pc = "unused" /\ \A q \in Run : q < r => turn[q].pc # "unused"

\* The turn starts with the ticket that is its message, if one is.
Launch(r, pc, initial) ==
    /\ admission' = r /\ accepting' = TRUE /\ park_reason' = FALSE
    /\ turn' = [turn EXCEPT ![r] = [Cleared(pc) EXCEPT !.initial = initial]]

\* A typed message starts a turn; refused while a finished answer awaits its commit.
_chat(r) ==
    /\ CanReserve(r)
    /\ ~(snapshot.present /\ snapshot.commit_only)
    /\ Write(AtAdmission)
    /\ Launch(r, "launched", {})
    /\ UNCHANGED <<transcript, snapshot, stops, phase, history>>

\* promote_recovered_inputs: what the checkpoint delivered waits for its commit,
\* the rest is queued again unless only the commit is left.
promoted ==
    [k \in Ticket |->
        IF tickets[k].state # "resume_queued" THEN tickets[k]
        ELSE IF k \in snapshot.delivered THEN [tickets[k] EXCEPT !.state = "running"]
        ELSE IF snapshot.commit_only THEN tickets[k]
        ELSE [tickets[k] EXCEPT !.state = "queued"]]

\* The user asks to resume the interrupted run from its checkpoint.
resume(r) ==
    /\ CanReserve(r)
    /\ snapshot.present
    /\ Write(AtAdmission)
    /\ Launch(r, "resuming", {})
    /\ UNCHANGED <<transcript, snapshot, stops, phase, history>>

\* The resumed turn sets up: held tickets are reconciled with its checkpoint.
promote_recovered_inputs(r) ==
    /\ LoopFree
    /\ turn[r].pc = "resuming"
    /\ Write(promoted)
    /\ consent' = consent \cup In({"resume_queued"}) \cup snapshot.delivered
    /\ turn' = [turn EXCEPT ![r].pc = IF snapshot.commit_only THEN "finalizing" ELSE "looping",
                            ![r].delivered = snapshot.delivered,
                            ![r].answered = snapshot.commit_only]
    /\ accepting' = (accepting /\ ~snapshot.commit_only)
    /\ UNCHANGED <<transcript, snapshot, admission, park_reason, stops, phase, bound,
                   abandoned, faults>>

\* The oldest queued ticket, follow-ups before steers.
Oldest(K) == {k \in K : \A j \in K : k <= j}
FollowUps == {k \in In({"queued"}) : tickets[k].delivery = "follow_up"}
Steers    == {k \in In({"queued"}) : tickets[k].delivery = "steer"}

\* A peer service wakes the idle chat with its oldest ticket.
start_next_queued_input(r) ==
    /\ CanReserve(r) /\ ~park_reason
    /\ \E k \in Oldest(IF FollowUps # {} THEN FollowUps ELSE Steers) :
         /\ Write(Moved({k}, {"queued"}, "preparing"))
         /\ Launch(r, "launched", {k})
    /\ UNCHANGED <<transcript, snapshot, stops, phase, history>>

\* The same call while a parking is owed settles it, finds the queue empty and
\* releases the admission it took.
start_next_queued_input_empty ==
    /\ LoopFree
    /\ admission = NoRun /\ park_reason
    /\ Write(AtAdmission) /\ park_reason' = FALSE
    /\ UNCHANGED <<transcript, snapshot, admission, accepting, turn, stops, phase, history>>

\* "chat:queue:continue" checks the revision and the ticket, then awaits.
queue_continue(k) ==
    /\ LoopFree
    /\ pending = NoCommand
    /\ tickets[k].state = "parked"
    /\ ~(snapshot.present /\ snapshot.commit_only)
    /\ pending' = [ticket |-> {k}, fresh |-> TRUE]
    /\ UNCHANGED <<durable, admission, accepting, park_reason, turn, stops, phase, history>>

\* Mutant: the claim does not compare the queue revision again.
continue_parked_input_blind(r) ==
    /\ CanReserve(r)
    /\ ~park_reason
    /\ \E k \in pending.ticket :
         /\ tickets' = [tickets EXCEPT ![k] = [state |-> "preparing", delivery |-> "follow_up"]]
         /\ consent' = consent \cup {k}
         /\ Launch(r, "launched", {k})
    /\ pending' = NoCommand
    /\ UNCHANGED <<transcript, snapshot, stops, phase, bound, abandoned, faults>>

\* The chat is still free and the queue unchanged: the ticket becomes the turn.
continue_parked_input(r) ==
    /\ CanReserve(r)
    /\ ~park_reason
    /\ pending.fresh
    /\ \E k \in pending.ticket :
         /\ tickets' = [tickets EXCEPT ![k] = [state |-> "preparing", delivery |-> "follow_up"]]
         /\ consent' = consent \cup {k}
         /\ Launch(r, "launched", {k})
    /\ pending' = NoCommand
    /\ UNCHANGED <<transcript, snapshot, stops, phase, bound, abandoned, faults>>

\* Busy, or the queue moved on: the command is refused (a short-lived admission is
\* released at once; an owed parking is settled on the way).
queue_continue_refused ==
    /\ LoopFree
    /\ pending.ticket # {}
    /\ \/ admission # NoRun /\ UNCHANGED <<tickets, park_reason>>
       \/ /\ admission = NoRun /\ (~pending.fresh \/ park_reason)
          /\ tickets' = AtAdmission /\ park_reason' = FALSE
    /\ pending' = NoCommand
    /\ UNCHANGED <<transcript, snapshot, admission, accepting, turn, stops, phase, history>>

-----------------------------------------------------------------------------
(* Input while a run is active                                             *)

\* A message for a busy chat, or a peer's for an idle one, becomes a ticket; a
\* finalizing run takes no more.
enqueue_input(k, d) ==
    /\ LoopFree
    /\ admission # NoRun => accepting
    /\ tickets[k].state = "absent" /\ \A j \in Ticket : j < k => tickets[j].state # "absent"
    /\ Write([tickets EXCEPT ![k] = [state |-> "queued", delivery |-> d]])
    /\ bound' = [bound EXCEPT ![k] = admission]
    /\ UNCHANGED <<transcript, snapshot, admission, accepting, park_reason, turn, stops,
                   phase, consent, abandoned, faults>>

\* "chat:queue:remove" at the current revision.
queue_remove(k) ==
    /\ LoopFree
    /\ tickets[k].state \in {"queued", "resume_queued", "parked"}
    /\ Write(Moved({k}, {"queued", "resume_queued", "parked"}, "cancelled"))
    /\ UNCHANGED <<transcript, snapshot, admission, accepting, park_reason, turn, stops,
                   phase, history>>

\* The body of the turn has set its own message up.
setup(r) ==
    /\ LoopFree
    /\ turn[r].pc = "launched"
    /\ turn' = [turn EXCEPT ![r].pc = "looping"]
    /\ UNCHANGED <<durable, admission, accepting, park_reason, stops, pending, phase, history>>

\* A graph boundary claims one ticket (steers first) and hands it to the model: the
\* claim, the preparation and the delivery record are one loop step.
drain_active_input(r) ==
    /\ LoopFree
    /\ turn[r].pc = "looping" /\ accepting
    /\ \E k \in Oldest(IF Steers # {} THEN Steers ELSE FollowUps) :
         /\ Write(Moved({k}, {"queued"}, "running"))
         /\ turn' = [turn EXCEPT ![r].delivered = @ \cup {k}]
    /\ UNCHANGED <<transcript, snapshot, admission, accepting, park_reason, stops, phase,
                   history>>

\* The graph saves its state at a node boundary.
checkpoint(r) ==
    /\ LoopFree
    /\ turn[r].pc = "looping"
    /\ snapshot' = [present |-> TRUE, delivered |-> turn[r].delivered, commit_only |-> FALSE]
    /\ UNCHANGED <<tickets, transcript, loop, history>>

\* The terminal answer is saved for its commit and input is closed.
finish_chat_turn(r) ==
    /\ LoopFree
    /\ turn[r].pc = "looping"
    /\ accepting' = FALSE
    /\ snapshot' = [present |-> TRUE, delivered |-> turn[r].delivered, commit_only |-> TRUE]
    /\ turn' = [turn EXCEPT ![r].pc = "finalizing", ![r].answered = TRUE]
    /\ UNCHANGED <<tickets, transcript, admission, park_reason, stops, pending, phase, history>>

-----------------------------------------------------------------------------
(* Commit and settlement                                                   *)

_inputs_for_commit(r) == turn[r].initial \cup turn[r].delivered

\* What a turn that gives up its commit leaves half-way until the next start.
LeftBehind(r) == _inputs_for_commit(r) \cap In({"running", "transcript_committing"})

begin_transcript_commit(r) ==
    /\ phase = "up"
    /\ turn[r].pc = "finalizing"
    /\ accepting' = FALSE
    /\ Write(Moved(_inputs_for_commit(r), {"running", "preparing", "parked"},
                   "transcript_committing"))
    /\ turn' = [turn EXCEPT ![r].pc = "committing"]
    /\ UNCHANGED <<transcript, snapshot, admission, park_reason, stops, phase, history>>

append_messages(r) ==
    /\ turn[r].pc = "committing"
    /\ \/ /\ transcript' = transcript \cup _inputs_for_commit(r)
          /\ turn' = [turn EXCEPT ![r].pc = "appended"]
          /\ UNCHANGED faults
       \/ /\ Fails("append")
          /\ turn' = [turn EXCEPT ![r].pc = "append_failed"]
          /\ UNCHANGED transcript
    /\ UNCHANGED <<tickets, snapshot, admission, accepting, park_reason, stops, pending, phase,
                   bound, consent, abandoned>>

\* commit_transcript_terminal: the saved answer is acknowledged and no longer resumable.
Acknowledged(r) == IF turn[r].answered THEN NoSnapshot ELSE snapshot

\* Mutant: completion only counts tickets still marked running.
complete_transcript_commit_running(r) ==
    /\ turn[r].pc = "appended"
    /\ Write(Moved(_inputs_for_commit(r), {"running", "preparing"}, "completed"))
    /\ snapshot' = Acknowledged(r)
    /\ turn' = [turn EXCEPT ![r].pc = "settling"]
    /\ UNCHANGED <<faults, transcript, admission, accepting, park_reason, stops, phase,
                   bound, consent, abandoned>>

\* The tickets are completed and the answer's checkpoint acknowledged.  In
\* finish_chat_turn a failing completion falls into the handler of a failed append;
\* in persist_unfinalized_turn it ends the turn.
complete_transcript_commit(r) ==
    /\ turn[r].pc = "appended"
    /\ \/ /\ Write(Moved(_inputs_for_commit(r),
                         {"transcript_committing", "running", "preparing"}, "completed"))
          /\ snapshot' = Acknowledged(r)
          /\ turn' = [turn EXCEPT ![r].pc = "settling"]
          /\ UNCHANGED <<abandoned, faults>>
       \/ /\ Fails("complete")
          /\ \/ /\ stops[r] = 0 /\ turn' = [turn EXCEPT ![r].pc = "complete_failed"]
                /\ UNCHANGED abandoned
             \/ /\ stops[r] > 0 /\ turn' = [turn EXCEPT ![r].pc = "settling"]
                /\ abandoned' = abandoned \cup LeftBehind(r)
          /\ UNCHANGED <<tickets, pending, snapshot>>
    /\ UNCHANGED <<transcript, admission, accepting, park_reason, stops, phase, bound,
                   consent>>

\* Fences the delivered tickets; the transcript that was appended all the same
\* still acknowledges the answer.
fail_transcript_commit(r) ==
    /\ turn[r].pc \in {"append_failed", "complete_failed"}
    /\ Write(Moved(_inputs_for_commit(r),
                   {"transcript_committing", "running", "preparing"}, "transcript_failed"))
    /\ snapshot' = IF turn[r].pc = "complete_failed" THEN Acknowledged(r) ELSE snapshot
    /\ turn' = [turn EXCEPT ![r].pc = "settling"]
    /\ UNCHANGED <<transcript, admission, accepting, park_reason, stops, phase, history>>

\* No loop remains: what was queued too late is parked.
settle_undelivered_inputs(r) ==
    /\ LoopFree
    /\ turn[r].pc = "settling"
    /\ accepting' = FALSE
    /\ park_queued_input_tickets
    /\ turn' = [turn EXCEPT ![r].pc = "releasing"]
    /\ UNCHANGED <<transcript, snapshot, admission, stops, phase, bound, consent, abandoned>>

finish_run(r) ==
    /\ LoopFree
    /\ turn[r].pc = "releasing"
    /\ admission' = NoRun
    /\ turn' = [turn EXCEPT ![r] = Cleared("ended")]
    /\ UNCHANGED <<durable, accepting, park_reason, stops, pending, phase, history>>

-----------------------------------------------------------------------------
(* Stop                                                                    *)

\* Where Stop sends the task: one that has not set up persists nothing (or never
\* starts), a looping one persists "Task stopped.", one already stopped that has not
\* persisted yet gives that up, one inside its settlement may be cut and released.
Interrupted(r) ==
    CASE turn[r].pc \in {"launched", "resuming"} -> {"settling", "unlaunched"}
      [] turn[r].pc \in {"looping", "finalizing"} ->
            IF stops[r] > 0 /\ ~turn[r].answered THEN {"settling"} ELSE {"finalizing"}
      [] turn[r].pc = "settling" -> {"settling", "cut"}
      [] turn[r].pc = "releasing" -> {"ended"}
      [] turn[r].pc = "unlaunched" -> {"unlaunched"}
      [] OTHER -> {}

\* Stop closes the admission, cancels the task and awaits its end.
_cancel(r) ==
    /\ LoopFree
    /\ admission = r
    /\ IF stops[r] = 0 THEN UNCHANGED faults ELSE Fault
    /\ \E pc \in Interrupted(r) :
         /\ IF pc \in {"cut", "ended"}
              THEN admission' = NoRun /\ turn' = [turn EXCEPT ![r] = Cleared(pc)]
              ELSE turn' = [turn EXCEPT ![r].pc = pc] /\ UNCHANGED admission
         /\ abandoned' = IF pc = "settling" THEN abandoned \cup LeftBehind(r) ELSE abandoned
    /\ accepting' = FALSE
    /\ stops' = [stops EXCEPT ![r] = @ + 1]
    /\ UNCHANGED <<durable, park_reason, pending, phase, bound, consent>>

\* Mutant: the Stop handler leaves undelivered input alone.
_cancel_settles_nothing(r) ==
    /\ LoopFree
    /\ stops[r] > 0 /\ turn[r].pc \in {"unlaunched", "cut", "ended"}
    /\ stops' = [stops EXCEPT ![r] = @ - 1]
    /\ admission' = IF turn[r].pc = "unlaunched" THEN NoRun ELSE admission
    /\ turn' = [turn EXCEPT ![r] = IF @.pc = "unlaunched" THEN Cleared("ended") ELSE @]
    /\ UNCHANGED <<durable, pending, park_reason, accepting, phase, history>>

\* After the task ended the handler parks the chat's undelivered tickets, and
\* releases the admission of a task that never started.
_cancel_settles(r) ==
    /\ LoopFree
    /\ stops[r] > 0 /\ turn[r].pc \in {"unlaunched", "cut", "ended"}
    /\ park_queued_input_tickets
    /\ stops' = [stops EXCEPT ![r] = @ - 1]
    /\ admission' = IF turn[r].pc = "unlaunched" THEN NoRun ELSE admission
    /\ turn' = [turn EXCEPT ![r] = IF @.pc = "unlaunched" THEN Cleared("ended") ELSE @]
    /\ UNCHANGED <<transcript, snapshot, accepting, phase, bound, consent, abandoned>>

-----------------------------------------------------------------------------
(* Restart                                                                 *)

\* The process dies at any point; what was in memory is gone.
Crash ==
    /\ Fault
    /\ phase' = "starting"
    /\ admission' = NoRun /\ accepting' = FALSE /\ park_reason' = FALSE
    /\ stops' = [r \in Run |-> 0] /\ pending' = NoCommand
    /\ turn' = [r \in Run |-> IF turn[r].pc = "unused" THEN turn[r]
                              ELSE Cleared("ended")]
    /\ abandoned' = {}
    /\ UNCHANGED <<durable, bound, consent>>

\* The tickets startup_reconcile has still to look at.
Unreconciled == In({"queued", "preparing", "transcript_committing", "running"})

\* One ticket of startup_reconcile: proof in the transcript completes it, otherwise
\* it is held for an explicit resume.
startup_reconcile_ticket(k) ==
    /\ phase = "starting" /\ k \in Unreconciled
    /\ tickets' = [tickets EXCEPT ![k] =
                     Row(k, IF k \in transcript THEN "completed" ELSE "resume_queued")]
    /\ UNCHANGED <<transcript, snapshot, loop, history>>

startup_reconcile_ends ==
    /\ phase = "starting" /\ Unreconciled = {}
    /\ phase' = "up"
    /\ UNCHANGED <<durable, admission, accepting, park_reason, turn, stops, pending, history>>

-----------------------------------------------------------------------------
Queue ==
    \/ \E k \in Ticket, d \in Delivery : enqueue_input(k, d)
    \/ \E k \in Ticket : queue_remove(k) \/ queue_continue(k)
    \/ queue_continue_refused \/ start_next_queued_input_empty

Start(r) == _chat(r) \/ resume(r) \/ start_next_queued_input(r) \/ continue_parked_input(r)

Finalize(r) ==
    \/ begin_transcript_commit(r) \/ append_messages(r) \/ complete_transcript_commit(r)
    \/ fail_transcript_commit(r) \/ settle_undelivered_inputs(r) \/ finish_run(r)

Loop(r) ==
    \/ setup(r) \/ promote_recovered_inputs(r) \/ drain_active_input(r) \/ checkpoint(r)
    \/ finish_chat_turn(r) \/ _cancel(r) \/ _cancel_settles(r)

Recover == startup_reconcile_ends \/ \E k \in Ticket : startup_reconcile_ticket(k)

Next == Queue \/ (\E r \in Run : Start(r) \/ Loop(r) \/ Finalize(r)) \/ Crash \/ Recover

(* The event loop keeps running ready tasks: a turn that sets up, finalizes or  *)
(* settles, a Stop handler, startup.  Nothing is assumed of their order.  That  *)
(* a graph ends is the model's and the step budget's doing: it is assumed here. *)
Ready ==
    \/ \E r \in Run : \/ setup(r) \/ promote_recovered_inputs(r) \/ finish_chat_turn(r)
                      \/ Finalize(r) \/ _cancel_settles(r)
    \/ Recover

Spec == Init /\ [][Next]_vars
FairSpec == Spec /\ WF_vars(Ready)

-----------------------------------------------------------------------------
(* Properties                                                              *)

(* Tickets a step hands to run r.                                            *)
Given(r) == _inputs_for_commit(r)' \ _inputs_for_commit(r)

(* Input queued for one run and not delivered by it is not handed to a later *)
(* run unless the user continued or resumed it, also when parking it failed  *)
(* at the end of the run.  Exempt is input whose run a Stop cut inside its   *)
(* settlement: chat_task then releases the chat before the Stop handler      *)
(* parks, and the code lets a peer wake-up claim the ticket in between.      *)
LeftoversNeedConsent ==
    [][\A r \in Run : \A k \in Given(r) :
          \/ bound[k] \in {r, NoRun} \/ turn[bound[k]].pc = "cut"
          \/ k \in consent']_vars

Stopping == \E r \in Run : stops[r] > 0

(* Once no run holds the chat, no Stop is settling and no parking is owed,   *)
(* no ticket is left half-way: nothing is running, preparing or committing,  *)
(* and nothing queued for a run that is gone still waits to be drained.      *)
(* Exempt is what a turn gave up: a second Stop before it persisted, or a    *)
(* completion that failed after a Stop.  The next start reconciles those.    *)
NoStrandedTicket ==
    (phase = "up" /\ admission = NoRun /\ ~Stopping /\ ~park_reason) =>
        /\ In({"running", "preparing", "transcript_committing"}) \subseteq abandoned
        /\ \A k \in In({"queued"}) : bound[k] = NoRun

(* A ticket is reported completed only when its message is in the durable    *)
(* transcript, across crashes between the commit's writes.                   *)
CompletedMeansPersisted == In({"completed"}) \subseteq transcript

(* Delivered tickets belong to the run that holds the chat until its commit  *)
(* is settled, or were given up.                                             *)
DeliveredIsHeld ==
    phase = "up" =>
        /\ \A k \in In({"running"}) \ abandoned : \E r \in Run :
              turn[r].pc \in Delivering \cup Committing /\ k \in _inputs_for_commit(r)
        /\ \A k \in In({"transcript_committing"}) \ abandoned : \E r \in Run :
              turn[r].pc \in Committing /\ k \in _inputs_for_commit(r)

(* A ticket that was made a turn is the first of the run that holds the chat *)
(* and has not parked yet, unless a Stop or the next admission will park it. *)
ClaimedIsHeld ==
    (phase = "up" /\ ~Stopping /\ ~park_reason) =>
        \A k \in In({"preparing"}) :
            \E r \in Run : admission = r /\ turn[r].pc # "releasing" /\ k \in turn[r].initial

(* Input queued for a run waits for that run; when the run is gone without   *)
(* parking it, a Stop or the next admission will.                            *)
QueuedIsAwaited ==
    phase = "up" =>
        \A k \in In({"queued"}) : bound[k] # NoRun =>
            /\ admission # NoRun \/ Stopping \/ park_reason
            /\ \/ k \in consent \/ bound[k] = admission \/ turn[bound[k]].pc = "cut"
               \/ admission = NoRun /\ park_reason

(* A run about to release the chat takes no more input, and has parked all   *)
(* that was queued or owes the parking.                                      *)
ReleasedIsParked ==
    \A r \in Run : turn[r].pc = "releasing" =>
        ~accepting /\ (park_reason \/ In(parkable) = {})

(* What the tasks and the "continue" command remember is still so: the       *)
(* messages of a turn past its append are in the transcript, and a checked   *)
(* command names a parked ticket.                                            *)
MemoryIsCurrent ==
    /\ \A r \in Run : turn[r].pc \in {"appended", "complete_failed"} =>
          _inputs_for_commit(r) \subseteq transcript
    /\ pending.fresh => pending.ticket \subseteq In({"parked"})

(* While a start is reconciling, nothing of the earlier process is left.     *)
StartsEmpty ==
    phase = "starting" => /\ admission = NoRun /\ ~accepting /\ ~park_reason
                          /\ ~Stopping /\ pending = NoCommand /\ abandoned = {}

(* Well-typed state, nothing stranded, and nothing reported that is not kept,*)
(* with the facts these rest on.                                             *)
TicketsInv ==
    /\ TicketsTypeOK /\ NoStrandedTicket /\ CompletedMeansPersisted
    /\ DeliveredIsHeld /\ ClaimedIsHeld /\ QueuedIsAwaited /\ ReleasedIsParked
    /\ MemoryIsCurrent /\ StartsEmpty

(* No command, commit, parking or recovery takes a ticket out of a terminal  *)
(* state.                                                                    *)
TerminalTicketIsFinal ==
    [][\A k \in Ticket : tickets[k].state \in TICKET_TERMINAL_STATES
                           => tickets'[k] = tickets[k]]_vars

(* Tickets that runs hold are settled: committed, failed, parked, held for   *)
(* an explicit resume, or their parking is owed to the next admission.  What *)
(* a turn gave up waits for the next start.                                  *)
HeldTicketSettles ==
    []<>(\/ In({"preparing", "running", "transcript_committing"}) \subseteq abandoned
         \/ park_reason)
=============================================================================
