----------------------------- MODULE GoalTurns -----------------------------
(***************************************************************************)
(* A composer goal: a durable objective whose single step is carried out   *)
(* by ordinary turns in the chat that owns it.  Supervisor jobs of the     *)
(* Work Fabric tick the goal; a tick leases the step, the parent-session   *)
(* adapter admits and launches a turn, and a durable wait holds the step   *)
(* until the turn ends.  The turn reports an outcome, the next tick        *)
(* settles the step, and the goal continues, succeeds or blocks.  Users    *)
(* pause, resume, continue, stop and remove the goal; the process crashes. *)
(*                                                                         *)
(* Everything runs on one event loop, so the code between two awaits is    *)
(* one step; where a crash can fall between two transactions of such a     *)
(* step there is an action for the crash.  The version of the goal row is  *)
(* kept only as far as it is the idempotency key of a supervisor job:      *)
(* taken says that a job with the key of the current version exists.       *)
(***************************************************************************)
EXTENDS Naturals, FiniteSets

CONSTANTS
    MaxAttempts,    \* bound on the attempts of the step
    MaxRepeats,     \* bound on runs of the user in the chat and on "continuing" reports
    MaxStops,       \* bound on Stop requests
    MaxCommands,    \* bound on pauses, by user or budget, and user continuations
    MaxFaults,      \* bound on process restarts, missed heartbeats and failing launches
    MaxJobs         \* bound on outstanding supervisor jobs

ASSUME GoalTurnsAssumption ==
    /\ MaxAttempts \in Nat \ {0} /\ MaxJobs \in Nat \ {0}
    /\ {MaxRepeats, MaxStops, MaxCommands, MaxFaults} \subseteq Nat

VARIABLES
    g,              \* the durable goal: row, step, effect, wait and state keys
    leaseLive,      \* the lease of the step has not expired
    open, taken,    \* outstanding supervisor jobs; the key of this version is used
    up,             \* the process is running
    tick,           \* the supervisor tick that is waiting for its step handler
    owner,          \* who holds the owning chat: nobody, a user run or the goal
    task,           \* the task of the turn of each attempt
    cleaners,       \* cancellations waiting to settle the goal's resources
    cleaning,       \* the cancellation that holds the cleanup lock, and what it awaits
    asked,          \* history: a user asked for the attempt that is leased next
    count           \* how often each bounded event has happened

supervision == <<leaseLive, open, taken, up, tick>>
supervisionButTaken == <<leaseLive, open, up, tick>>
turns       == <<owner, task>>
cleanup     == <<cleaners, cleaning>>
vars        == <<g, supervision, turns, cleanup, asked, count>>

Attempt == 1..MaxAttempts

\* goal.terminal, and the states _work_handler and recovery keep awake.
GOAL_TERMINAL == {"succeeded", "cancelled", "archived"}
GOAL_ACTIVE   == {"queued", "running", "waiting_external"}
GOAL_STATES   == GOAL_TERMINAL \cup GOAL_ACTIVE \cup {"draft", "blocked", "paused"}

STEP_STATES   == {"none", "pending", "retry_scheduled", "ready", "running", "waiting",
                  "succeeded", "failed", "blocked", "cancelled"}
EFFECT_STATES == {"none", "dispatched", "succeeded", "failed", "unknown_effect", "cancelled"}

\* A turn is launched, runs, releases its admission before its last writes, ends, and is
\* seen by the done callback; a crash loses it.  How it ended is kept until the next lease.
TURN_STATES == {"none", "launched", "running", "released", "done_ok", "done_error",
                "finished", "failed", "lost"}
Live       == {"launched", "running"}
Unfinished == Live \cup {"released"}
Settled    == {"finished", "failed", "lost"}

NoSlot == [attempt |-> 0, status |-> "none", report |-> "none", awaits |-> FALSE]
Idle   == [phase |-> "idle", result |-> "none"]

NoCleanup == [token |-> 0, awaits |-> 0]

Events == {"repeat", "command", "fault"}

Init ==
    /\ g = [status |-> "draft", step |-> "none", attempt |-> 0, effect |-> "none",
            wait |-> "none", slot |-> NoSlot, continuing |-> FALSE,
            token |-> 0, cleanup |-> "none"]
    /\ leaseLive = FALSE /\ open = 0 /\ taken = FALSE /\ up = TRUE /\ tick = Idle
    /\ owner = "nobody" /\ task = [n \in Attempt |-> "none"]
    /\ cleaners = {} /\ cleaning = NoCleanup
    /\ asked = FALSE /\ count = [e \in Events |-> 0]

-----------------------------------------------------------------------------
(* Helpers *)

Happens(e, max) == count[e] < max /\ count' = [count EXCEPT ![e] = @ + 1]

\* enqueue with a dedupe key of its own: always a new job.
Wake(n) == IF n < MaxJobs THEN n + 1 ELSE n

\* Any write to the goal advances its version and so frees the version's key.
Commit(new) ==
    /\ g' = new
    /\ taken' = (taken /\ new = g)

\* enqueue without a dedupe key, after the goal became new: the key is the version, and
\* an existing job, finished or not, is returned instead of a new one.
CommitAndEnqueue(new) ==
    /\ g' = new
    /\ taken' = TRUE
    /\ open' = IF taken /\ new = g THEN open ELSE Wake(open)

\* What ends with the process; the Work Fabric returns the job of an unfinished tick.
Dies ==
    /\ Happens("fault", MaxFaults)
    /\ up' = FALSE
    /\ tick' = Idle
    /\ open' = IF tick.phase = "idle" THEN open ELSE Wake(open)
    /\ owner' = "nobody"
    /\ task' = [n \in Attempt |->
                    IF task[n] \in Settled \cup {"none"} THEN task[n] ELSE "lost"]
    /\ cleaners' = {} /\ cleaning' = NoCleanup

\* The event loop is between two steps of code; execute does not await while it launches.
LoopFree == up /\ tick.phase # "dispatched"

-----------------------------------------------------------------------------
(* Pure decisions of a tick, as functions of the durable goal *)

\* An expired lease fences the attempt: an effect in flight becomes unknown and the
\* step is blocked, never replayed.
reconcile_expired_step_leases(d) ==
    IF d.step = "running" /\ ~leaseLive
    THEN [d EXCEPT !.step = "blocked",
                   !.effect = IF @ = "dispatched" THEN "unknown_effect" ELSE @]
    ELSE d

ChatBusy == owner # "nobody"

\* ParentSessionGoals.resolve: what a pending wait has come to, "pending" if nothing.
resolve(d) ==
    IF d.wait = "idle" THEN IF ChatBusy THEN "pending" ELSE "admit"
    ELSE IF d.slot.attempt # d.attempt THEN "lost"
    ELSE IF d.slot.status = "running"
         THEN IF task[d.attempt] \in Unfinished \/ owner = "goal" THEN "pending" ELSE "lost"
    ELSE IF d.slot.status = "finished" /\ d.slot.report = "continuing" /\ d.slot.awaits
         THEN "pending"
    ELSE IF d.slot.status = "finished" /\ d.slot.report = "completed" THEN "succeeded"
    ELSE "unfinished"

\* satisfy_wait with what the resolver returned, after the resolver's own writes.
_wake_due(d) ==
    LET r == IF d.wait = "none" THEN "pending" ELSE resolve(d)
        settled == [d EXCEPT !.wait = "none",
                             !.step = IF r = "succeeded" THEN "succeeded" ELSE "blocked"]
    IN  CASE r = "pending" -> d
          [] r = "admit"   -> [settled EXCEPT !.continuing = TRUE]
          [] r = "lost"    -> settled
          [] OTHER -> [settled EXCEPT
                !.continuing = d.slot.status = "finished" /\ d.slot.report = "continuing",
                !.effect = IF @ # "dispatched" THEN @
                           ELSE IF r = "succeeded" THEN "succeeded" ELSE "failed"]

_prepare_ready(d) ==
    [d EXCEPT !.step = IF @ \in {"pending", "retry_scheduled"} THEN "ready" ELSE @]

\* _aggregate_status, the automatic continuation and the final transition.
_aggregate_status(d) ==
    CASE d.step = "succeeded" -> "succeeded"
      [] d.step = "waiting"   -> "waiting_external"
      [] d.step \in {"failed", "blocked", "cancelled"} -> "blocked"
      [] OTHER -> "running"

Conclude(d) ==
    IF d.status \in GOAL_TERMINAL \cup {"paused"} THEN d
    ELSE IF d.step = "blocked" /\ d.continuing
         THEN [d EXCEPT !.step = "retry_scheduled", !.status = "running"]
    ELSE [d EXCEPT !.status = _aggregate_status(d)]

\* _work_handler: the supervisor is woken again for a step that can run or holds a lease.
Successor(d) == d.status \in GOAL_ACTIVE /\ d.step \in {"pending", "ready", "retry_scheduled", "running"}

-----------------------------------------------------------------------------
(* Submission *)

\* ComposerGoals.submit: plan and start the draft, then enqueue; a repeated submit after
\* a crash in between finds the goal queued and enqueues under the same dedupe key.
submit ==
    /\ up /\ g.status = "draft"
    /\ Commit([g EXCEPT !.status = "queued", !.step = "pending"])
    /\ open' = Wake(open)
    /\ UNCHANGED <<leaseLive, up, tick, turns, cleanup, asked, count>>

\* The process dies between the transition and the enqueue.
submit_crashes ==
    /\ up /\ g.status = "draft"
    /\ Commit([g EXCEPT !.status = "queued", !.step = "pending"])
    /\ Dies
    /\ UNCHANGED <<leaseLive, asked>>

-----------------------------------------------------------------------------
(* The supervisor *)

\* The tick up to the dispatch of its step; without a ready step it runs to its end.
tick_begins ==
    /\ up /\ tick.phase = "idle" /\ open > 0
    /\ LET r == reconcile_expired_step_leases(g)
           q == [r EXCEPT !.status = IF @ = "queued" THEN "running" ELSE @]
           p == _prepare_ready(_wake_due(q))
           e == Conclude(p)
       IN  \/ /\ r.status \in GOAL_TERMINAL \cup {"draft", "paused"}
              /\ Commit(r) /\ open' = open - 1
              /\ UNCHANGED <<leaseLive, tick, task, asked>>
           \/ /\ r.status \in GOAL_ACTIVE \cup {"blocked"}
              /\ p.step = "ready" /\ p.attempt < MaxAttempts
              /\ Commit([p EXCEPT !.step = "running", !.attempt = @ + 1, !.effect = "none"])
              /\ leaseLive' = TRUE
              /\ tick' = [phase |-> "leased", result |-> "none"]
              /\ open' = open - 1
              /\ task' = [n \in Attempt |-> IF task[n] \in Settled THEN "none" ELSE task[n]]
              /\ asked' = FALSE
           \/ /\ r.status \in GOAL_ACTIVE \cup {"blocked"}
              /\ p.step # "ready"
              /\ Commit(e)
              /\ open' = IF Successor(e) THEN open ELSE open - 1
              /\ UNCHANGED <<leaseLive, tick, task, asked>>
    /\ UNCHANGED <<up, owner, cleanup, count>>

\* The budget of the goal is exhausted at the start of the tick.
tick_pauses ==
    /\ up /\ tick.phase = "idle" /\ open > 0
    /\ LET r == reconcile_expired_step_leases(g)
       IN  /\ r.status \in GOAL_ACTIVE \cup {"blocked"}
           /\ Commit([r EXCEPT !.status = "paused"])
    /\ Happens("command", MaxCommands)
    /\ open' = open - 1
    /\ UNCHANGED <<leaseLive, up, tick, turns, cleanup, asked>>

\* should_stop of _execute_step_owned.
cancellation_requested == g.status = "cancelled" \/ g.step # "running" \/ ~leaseLive

Returns(result) == tick' = [phase |-> "returned", result |-> result]

\* ParentSessionGoals.execute up to the dispatched effect: a chat that is gone or archived
\* blocks the step, an idle one is admitted, a busy one makes the step wait for it.  An
\* exception before the effect is dispatched gives the admission back.
execute_admits ==
    /\ up /\ tick.phase = "leased"
    /\ \/ /\ Returns("blocked") /\ Happens("fault", MaxFaults)
          /\ UNCHANGED <<g, taken, owner>>
       \/ /\ cancellation_requested /\ Returns("cancelled")
          /\ UNCHANGED <<g, taken, owner, count>>
       \/ /\ ~cancellation_requested /\ ChatBusy /\ Returns("idle")
          /\ UNCHANGED <<g, taken, owner, count>>
       \/ /\ ~cancellation_requested /\ ~ChatBusy
          /\ Returns("failed") /\ Happens("fault", MaxFaults)
          /\ taken' \in {taken, FALSE}
          /\ UNCHANGED <<g, owner>>
       \/ /\ ~cancellation_requested /\ ~ChatBusy
          /\ owner' = "goal"
          /\ Commit([g EXCEPT !.effect = "dispatched"])
          /\ tick' = [phase |-> "dispatched", result |-> "none"]
          /\ UNCHANGED count
    /\ UNCHANGED <<leaseLive, open, up, task, cleanup, asked>>

SlotWritten == [g EXCEPT !.slot = [attempt |-> g.attempt, status |-> "running",
                                   report |-> "none", awaits |-> FALSE]]

\* Mutant: the outcome of the previous turn is kept.
execute_launches_stale ==
    /\ up /\ tick.phase = "dispatched"
    /\ Commit(SlotWritten)
    /\ task' = [task EXCEPT ![g.attempt] = "launched"]
    /\ Returns("turn")
    /\ UNCHANGED <<leaseLive, open, up, owner, cleanup, asked, count>>

\* The rest of execute, without an await: the slot, the outcome and the launch.
execute_launches ==
    /\ up /\ tick.phase = "dispatched"
    /\ Commit([SlotWritten EXCEPT !.continuing = FALSE])
    /\ task' = [task EXCEPT ![g.attempt] = "launched"]
    /\ Returns("turn")
    /\ UNCHANGED <<leaseLive, open, up, owner, cleanup, asked, count>>

\* A write or the launch raises: the admission is given back, what was written stays.  The
\* goal has no open wait that the idle event of its chat could wake.
execute_fails ==
    /\ up /\ tick.phase = "dispatched"
    /\ \E d \in {g, SlotWritten, [SlotWritten EXCEPT !.continuing = FALSE]} : Commit(d)
    /\ owner' = "nobody"
    /\ Returns("failed") /\ Happens("fault", MaxFaults)
    /\ UNCHANGED <<leaseLive, open, up, task, cleanup, asked>>

Refusals == {"cancelled", "blocked", "failed"}

\* Mutant: the result is applied whatever became of the step.
_apply_result_blind(d) ==
    IF tick.result \in Refusals THEN [d EXCEPT !.step = tick.result]
    ELSE _wake_due([d EXCEPT !.step = "waiting", !.wait = tick.result])

\* _apply_result: a result has authority only over the attempt it was leased for; a new
\* event-driven wait is checked once against events that came before it.
_apply_result(d) ==
    IF d.step # "running" \/ ~leaseLive THEN d
    ELSE IF tick.result \in Refusals THEN [d EXCEPT !.step = tick.result]
    ELSE _wake_due([d EXCEPT !.step = "waiting", !.wait = tick.result])

tick_ends ==
    /\ up /\ tick.phase = "returned"
    /\ LET e == Conclude(_apply_result(g))
       IN  /\ Commit(e)
           /\ open' = IF Successor(e) THEN Wake(open) ELSE open
    /\ tick' = Idle
    /\ UNCHANGED <<leaseLive, up, turns, cleanup, asked, count>>

\* Time passes without a heartbeat.
lease_expires ==
    /\ leaseLive /\ tick.phase # "dispatched" /\ Happens("fault", MaxFaults)
    /\ leaseLive' = FALSE
    /\ UNCHANGED <<g, open, taken, up, tick, turns, cleanup, asked>>

\* The process dies after the tick settled its wait and before it concluded.
tick_crashes ==
    /\ up /\ tick.phase = "idle" /\ open > 0 /\ g.status \in GOAL_ACTIVE
    /\ Commit(_wake_due(reconcile_expired_step_leases(g)))
    /\ Dies
    /\ UNCHANGED <<leaseLive, asked>>

-----------------------------------------------------------------------------
(* The turn and the chat *)

\* report_outcome, once per turn and only by the run that holds the chat for the slot.
report(status, awaits) ==
    /\ LoopFree
    /\ owner = "goal" /\ g.slot.status = "running" /\ task[g.slot.attempt] = "running"
    /\ g.slot.report = "none" /\ g.status \notin GOAL_TERMINAL
    /\ awaits => status = "continuing"
    /\ IF status = "continuing" THEN Happens("repeat", MaxRepeats) ELSE UNCHANGED count
    /\ Commit([g EXCEPT !.slot.report = status, !.slot.awaits = awaits])
    /\ UNCHANGED <<leaseLive, open, up, tick, turns, cleanup, asked>>

\* The awaited peer answers: its message is found from now on and wakes the goal.
notify_peer_result ==
    /\ LoopFree /\ g.slot.awaits /\ g.status \notin GOAL_TERMINAL
    /\ g' = [g EXCEPT !.slot.awaits = FALSE]
    /\ open' = Wake(open)
    /\ UNCHANGED <<taken, leaseLive, up, tick, turns, cleanup, asked, count>>

\* The idle event of the chat: a goal that waits for the chat is enqueued under the key
\* of its version.
notify_idle ==
    /\ owner' = "nobody"
    /\ IF g.wait = "idle" /\ g.status \notin GOAL_TERMINAL
       THEN CommitAndEnqueue(g)
       ELSE UNCHANGED <<g, open, taken>>

\* The loop takes the first step of the task.
turn_begins(n) ==
    /\ LoopFree /\ task[n] = "launched" /\ cleaning.awaits # n
    /\ task' = [task EXCEPT ![n] = "running"]
    /\ UNCHANGED <<g, supervision, owner, cleanup, asked, count>>

\* finish_run of a turn; its last writes go on.
turn_releases(n) ==
    /\ LoopFree /\ task[n] = "running"
    /\ task' = [task EXCEPT ![n] = "released"]
    /\ notify_idle
    /\ UNCHANGED <<leaseLive, up, tick, cleanup, asked, count>>

turn_ends(n) ==
    /\ LoopFree /\ task[n] = "released"
    /\ \E r \in {"done_ok", "done_error"} : task' = [task EXCEPT ![n] = r]
    /\ UNCHANGED <<g, supervision, owner, cleanup, asked, count>>

\* The cancelled task unwinds.  One cancelled before its body began has no finalizer, and
\* the done callback of the launch leaves a cancelled task alone: the chat stays held.
turn_cancelled(n) ==
    /\ LoopFree /\ task[n] \in Unfinished /\ cleaning.awaits = n
    /\ task' = [task EXCEPT ![n] = "done_error"]
    /\ IF task[n] = "running" THEN notify_idle ELSE UNCHANGED <<g, open, taken, owner>>
    /\ UNCHANGED <<leaseLive, up, tick, cleanup, asked, count>>

\* Mutant: the end of the turn is recorded and nobody is woken.
_finished_silently(n) ==
    /\ LoopFree /\ task[n] \in {"done_ok", "done_error"}
    /\ LET end == IF task[n] = "done_ok" THEN "finished" ELSE "failed"
       IN  /\ task' = [task EXCEPT ![n] = end]
           /\ IF g.slot.attempt # n \/ g.status \in GOAL_TERMINAL
              THEN UNCHANGED <<g, taken>>
              ELSE Commit([g EXCEPT !.slot.status = end])
    /\ UNCHANGED <<leaseLive, open, up, tick, owner, cleanup, asked, count>>

\* The done callback: only the turn of the current slot reports its end.
_finished(n) ==
    /\ LoopFree /\ task[n] \in {"done_ok", "done_error"}
    /\ LET end == IF task[n] = "done_ok" THEN "finished" ELSE "failed"
       IN  /\ task' = [task EXCEPT ![n] = end]
           /\ IF g.slot.attempt # n \/ g.status \in GOAL_TERMINAL
              THEN UNCHANGED <<g, open, taken>>
              ELSE Commit([g EXCEPT !.slot.status = end]) /\ open' = Wake(open)
    /\ UNCHANGED <<leaseLive, up, tick, owner, cleanup, asked, count>>

user_run_starts ==
    /\ LoopFree /\ owner = "nobody" /\ Happens("repeat", MaxRepeats)
    /\ owner' = "user"
    /\ UNCHANGED <<g, supervision, task, cleanup, asked>>

user_run_ends ==
    /\ LoopFree /\ owner = "user"
    /\ notify_idle
    /\ UNCHANGED <<leaseLive, up, tick, task, cleanup, asked, count>>

-----------------------------------------------------------------------------
(* The user's commands *)

pause ==
    /\ LoopFree /\ g.status \in GOAL_ACTIVE \cup {"blocked"}
    /\ Happens("command", MaxCommands)
    /\ Commit([g EXCEPT !.status = "paused"])
    /\ UNCHANGED <<leaseLive, open, up, tick, turns, cleanup, asked>>

Resumed == [g EXCEPT !.status = IF @ = "paused" THEN "queued" ELSE "running"]

resume ==
    /\ LoopFree /\ g.status \in {"paused", "blocked", "waiting_external"}
    /\ CommitAndEnqueue(Resumed)
    /\ UNCHANGED <<leaseLive, up, tick, turns, cleanup, asked, count>>

resume_crashes ==
    /\ LoopFree /\ g.status \in {"paused", "blocked", "waiting_external"}
    /\ Commit(Resumed)
    /\ Dies
    /\ UNCHANGED <<leaseLive, asked>>

\* continue_goal: another attempt of a blocked step, asked for by the user; repeated
\* after a crash it finds the step scheduled and only wakes the goal.
continue_goal ==
    /\ LoopFree /\ g.status = "blocked"
    /\ \/ /\ g.step \in {"blocked", "failed"} /\ Happens("command", MaxCommands)
          /\ asked' = TRUE
       \/ g.step = "retry_scheduled" /\ UNCHANGED <<asked, count>>
    /\ Commit([g EXCEPT !.step = "retry_scheduled", !.status = "running"])
    /\ open' = Wake(open)
    /\ UNCHANGED <<leaseLive, up, tick, turns, cleanup>>

continue_crashes ==
    /\ LoopFree /\ g.status = "blocked" /\ g.step \in {"blocked", "failed"}
    /\ asked' = TRUE
    /\ \E s \in {"blocked", "running"} :
          Commit([g EXCEPT !.step = "retry_scheduled", !.status = s])
    /\ Dies
    /\ UNCHANGED leaseLive

\* cancel_goal: one transaction ends the goal and all its open records and asks for the
\* cleanup of its resources; an ended goal only gets the cleanup.
cancel_goal ==
    /\ LoopFree /\ g.token < MaxStops
    /\ Commit([g EXCEPT
          !.status  = IF @ \in GOAL_TERMINAL THEN @ ELSE "cancelled",
          !.step    = IF @ \in {"none", "succeeded", "failed", "blocked", "cancelled"}
                      THEN @ ELSE "cancelled",
          !.wait    = "none",
          !.effect  = IF @ = "dispatched" THEN "cancelled" ELSE @,
          !.token   = @ + 1,
          !.cleanup = "pending"])
    /\ cleaners' = cleaners \cup {g.token + 1}
    /\ UNCHANGED <<supervisionButTaken, turns, cleaning, asked, count>>

\* _cancel_owned_resources takes the lock, gives up for a superseded or settled request,
\* and otherwise cancels the turn that holds the chat and waits for its end.
cleanup_starts(t) ==
    /\ LoopFree /\ t \in cleaners /\ cleaning = NoCleanup
    /\ cleaners' = cleaners \ {t}
    /\ cleaning' = IF g.token # t \/ g.cleanup = "complete" THEN NoCleanup
                   ELSE [token |-> t, awaits |-> IF owner = "goal" THEN g.slot.attempt ELSE 0]
    /\ UNCHANGED <<g, supervision, turns, asked, count>>

cleanup_ends ==
    /\ LoopFree /\ cleaning # NoCleanup
    /\ \A n \in Attempt : task[n] \in Unfinished => cleaning.awaits # n
    /\ \E r \in {"complete", "failed"} :
          Commit(IF g.token = cleaning.token THEN [g EXCEPT !.cleanup = r] ELSE g)
    /\ cleaning' = NoCleanup
    /\ UNCHANGED <<supervisionButTaken, turns, cleaners, asked, count>>

archive ==
    /\ LoopFree /\ g.status \in {"succeeded", "cancelled"}
    /\ g.cleanup \notin {"pending", "failed"}
    /\ Commit([g EXCEPT !.status = "archived"])
    /\ UNCHANGED <<supervisionButTaken, turns, cleanup, asked, count>>

-----------------------------------------------------------------------------
(* Restart *)

crash ==
    /\ up
    /\ Dies
    /\ UNCHANGED <<g, taken, leaseLive, asked>>

\* Mutant: recovery only fences.
restart_fences_only ==
    /\ ~up
    /\ up' = TRUE
    /\ Commit(reconcile_expired_step_leases(g))
    /\ UNCHANGED <<leaseLive, open, tick, turns, cleanup, asked, count>>

\* recover_goal_supervisors: fence expired leases, then a wake for every goal that has
\* work or a wait whose resolver can be asked.
restart ==
    /\ ~up
    /\ up' = TRUE
    /\ LET r == reconcile_expired_step_leases(g)
       IN  IF r.status \in {"queued", "running"} \/ (r.status = "waiting_external" /\ r.wait # "none")
           THEN CommitAndEnqueue(r)
           ELSE Commit(r) /\ UNCHANGED open
    /\ UNCHANGED <<leaseLive, tick, turns, cleanup, asked, count>>

-----------------------------------------------------------------------------

Next ==
    \/ submit \/ submit_crashes
    \/ tick_begins \/ tick_pauses \/ execute_admits \/ execute_launches \/ execute_fails
    \/ tick_ends \/ lease_expires \/ tick_crashes
    \/ \E s \in {"completed", "blocked", "continuing"}, w \in BOOLEAN : report(s, w)
    \/ notify_peer_result
    \/ \E n \in Attempt :
         turn_begins(n) \/ turn_releases(n) \/ turn_ends(n) \/ turn_cancelled(n) \/ _finished(n)
    \/ user_run_starts \/ user_run_ends
    \/ pause \/ resume \/ resume_crashes \/ continue_goal \/ continue_crashes
    \/ cancel_goal \/ (\E t \in 1..MaxStops : cleanup_starts(t)) \/ cleanup_ends
    \/ archive \/ crash \/ restart

Spec == Init /\ [][Next]_vars

\* The Work scheduler runs outstanding jobs, handlers and callbacks run, a cancelled task
\* ends, a user's run ends and the process is started again.  Turns, users and peers are
\* not obliged to act.
FairSpec ==
    /\ Spec
    /\ WF_vars(tick_begins \/ execute_admits \/ execute_launches \/ tick_ends)
    /\ WF_vars(user_run_ends) /\ WF_vars(restart)
    /\ WF_vars((\E t \in 1..MaxStops : cleanup_starts(t)) \/ cleanup_ends)
    /\ WF_vars(\E n \in Attempt :
                 turn_begins(n) \/ turn_ends(n) \/ turn_cancelled(n) \/ _finished(n))

-----------------------------------------------------------------------------
(* Properties *)

\* The durable goal and the state of the loop have the types of the source's records.
GoalTurnsTypeOK ==
    /\ g \in [status : GOAL_STATES, step : STEP_STATES, attempt : 0..MaxAttempts,
              effect : EFFECT_STATES, wait : {"none", "idle", "turn"},
              slot : [attempt : 0..MaxAttempts, status : {"none", "running", "finished", "failed"},
                      report : {"none", "completed", "blocked", "continuing"}, awaits : BOOLEAN],
              continuing : BOOLEAN, token : 0..MaxStops,
              cleanup : {"none", "pending", "failed", "complete"}]
    /\ {leaseLive, taken, up} \subseteq BOOLEAN /\ open \in 0..MaxJobs
    /\ tick \in [phase : {"idle", "leased", "dispatched", "returned"},
                 result : Refusals \cup {"none", "idle", "turn"}]
    /\ owner \in {"nobody", "user", "goal"} /\ task \in [Attempt -> TURN_STATES]
    /\ cleaners \subseteq 1..MaxStops
    /\ asked \in BOOLEAN
    /\ cleaning \in [token : 0..MaxStops, awaits : 0..MaxAttempts]

\* A goal with work to do is never forgotten: while the process is up there is a
\* supervisor job or a tick under way for every queued or running goal, whatever crash
\* fell between the write of its status and the enqueue of its job.
NeverForgotten ==
    up /\ tick.phase = "idle" /\ g.status \in {"queued", "running"} => open > 0

\* A crash never silently replays a turn: a new attempt follows one whose turn was
\* launched only if that turn finished, or if the user asked for the attempt.
NoSilentReplay ==
    [][\A n \in Attempt : n = g.attempt /\ g'.attempt # n =>
          task[n] \in {"none", "finished"} \/ asked]_vars

\* A goal succeeds only on the claim of the turn of its last attempt, which ended well.
SuccessIsClaimed ==
    g.status = "succeeded" =>
        /\ g.slot.attempt = g.attempt /\ g.slot.report = "completed"
        /\ task[g.attempt] = "finished"

\* Once the cleanup of the latest Stop is complete, or the goal is removed, no turn of the
\* goal runs or is about to begin.  (It does not say that the chat is free: turn_cancelled.)
CleanupMeansStopped ==
    g.cleanup = "complete" \/ g.status = "archived" => \A n \in Attempt : task[n] \notin Live

\* The step follows the goal: it is planned by the submission, is never left ready between
\* two ticks, waits exactly as long as a wait is open and succeeds only with its slot.
StepFollowsGoal ==
    /\ g.step # "ready"
    /\ g.step = "none" => g.status \in {"draft", "cancelled", "archived"}
    /\ g.status = "draft" => g.step = "none"
    /\ g.step \in {"none", "pending"} => g.attempt = 0
    /\ g.status \in GOAL_TERMINAL =>
          g.step \in {"none", "succeeded", "failed", "blocked", "cancelled"}
    /\ g.wait # "none" => g.step = "waiting"
    /\ g.status = "succeeded" => g.step = "succeeded"
    /\ g.step = "succeeded" =>
          g.slot.attempt = g.attempt /\ g.slot.status = "finished" /\ g.slot.report = "completed"

\* A tick in flight holds the attempt it leased: nobody launches a turn for it before the
\* tick does, and while the loop is dispatching nothing can end the step.
TickHoldsAttempt ==
    /\ tick.phase # "idle" => up /\ g.attempt \in Attempt /\ g.step \in {"running", "cancelled"}
    /\ tick.phase = "dispatched" =>
          owner = "goal" /\ g.step = "running" /\ g.status \notin GOAL_TERMINAL
    /\ tick.phase = "returned" => tick.result # "none"
    /\ tick.phase \in {"leased", "dispatched"} \/ tick.result \in Refusals \cup {"idle"}
       \/ g.wait = "idle" =>
          g.attempt \in Attempt /\ task[g.attempt] = "none"

\* The chat is the goal's while one turn is launched or runs, the one of the slot, or after
\* a Stop cancelled that turn before it began.
SlotHoldsChat ==
    /\ g.slot.attempt <= g.attempt
    /\ g.slot.status # "none" => g.slot.attempt # 0
    /\ owner = "goal" /\ tick.phase # "dispatched" =>
          /\ g.slot.attempt # 0
          /\ \/ task[g.slot.attempt] \in Live
             \/ task[g.slot.attempt] \in {"done_error", "failed"} /\ g.status \in GOAL_TERMINAL
    /\ \A n \in Attempt :
          /\ n > g.attempt => task[n] = "none"
          /\ task[n] \in Live =>
                owner = "goal" /\ n = g.slot.attempt /\ tick.phase # "dispatched"
          /\ g.slot.status = "finished" /\ g.slot.attempt = n /\ g.attempt = n =>
                task[n] = "finished"

\* What another attempt rests on: the turn of the last one finished or was never
\* launched, or the user asked.
RetryHasReason ==
    \A n \in Attempt : n = g.attempt =>
        /\ g.continuing => task[n] \in {"none", "finished"}
        /\ g.step = "retry_scheduled" => task[n] \in {"none", "finished"} \/ asked

\* The key of a version is used only by a job that is still outstanding when the goal of
\* that version has work to do.
KeyMeansJob ==
    taken /\ tick.phase = "idle" /\ g.status \in {"queued", "running"} => open > 0

\* A cleanup belongs to a Stop, and awaits the turn that is under way.
CleanupFollowsStop ==
    /\ cleaners # {} \/ cleaning # NoCleanup \/ g.cleanup # "none" => g.status \in GOAL_TERMINAL
    /\ g.status = "cancelled" => g.cleanup # "none"
    /\ cleaning # NoCleanup =>
          \A n \in Attempt : task[n] \in Live => cleaning.awaits = n

\* The invariants of the supervision of a goal, with the facts they rest on.
GoalTurnsInv ==
    /\ GoalTurnsTypeOK /\ NeverForgotten /\ SuccessIsClaimed /\ CleanupMeansStopped
    /\ StepFollowsGoal /\ TickHoldsAttempt /\ SlotHoldsChat /\ RetryHasReason
    /\ KeyMeansJob /\ CleanupFollowsStop

\* An ended goal stays ended: it is at most archived, and none of its records is revived.
EndedStaysEnded ==
    [][g.status \in GOAL_TERMINAL =>
          /\ g'.status \in {g.status, "archived"}
          /\ g'.step = g.step /\ g'.attempt = g.attempt /\ g'.wait = "none"
          /\ \A n \in Attempt : task'[n] \in Live => task[n] \in Live]_vars

\* The end of a turn is noticed: its wait is settled unless the user or the budget pauses
\* the goal or a peer's answer is still awaited.
TurnEndIsNoticed ==
    (g.wait = "turn" /\ g.slot.status \in {"finished", "failed"})
        ~> (g.wait # "turn" \/ g.status = "paused" \/ g.slot.awaits)

\* What the comment at the head of parent_session.py says: an idle event wakes a goal that
\* waits for its chat.
IdleEventWakes ==
    (g.status = "waiting_external" /\ g.wait = "idle" /\ owner = "nobody")
        ~> (g.wait # "idle" \/ owner # "nobody")
=============================================================================
