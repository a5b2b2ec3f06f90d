---------------------------- MODULE Automations ----------------------------
(***************************************************************************)
(* One saved automation: its definition in the automation store, the       *)
(* occurrences the store has accepted (scheduled and webhook claims), the   *)
(* Work job of each occurrence and the events that settle the claims.      *)
(*                                                                         *)
(* A claim is written before its job is created, so a crash in between is  *)
(* repaired by the scan of automation_loop; it is removed only after the   *)
(* job is terminal, when the job's event is delivered or the scan meets    *)
(* the finished job.  Users edit, disable, enable, remove and run the      *)
(* automation meanwhile.                                                   *)
(*                                                                         *)
(* The handlers run on one event loop and run_automation does not suspend  *)
(* once the Work Fabric is started, so a handler is one step; where it     *)
(* writes twice, another action is the crash between the writes.           *)
(***************************************************************************)
EXTENDS Integers, FiniteSets

CONSTANTS
    Hook,           \* idempotency keys of webhook requests
    Payload,        \* bodies of webhook requests
    Sched,          \* fresh identities for scheduled claims
    Manual,         \* fresh identities for manual runs
    MaxAttempts,    \* max_attempts of an automation job
    MaxClaims,      \* bound on uncompleted trigger claims
    MaxEdits,       \* bound on the user's edits
    MaxRequests,    \* bound on webhook requests and manual runs
    MaxFaults,      \* bound on crashes and lost leases
    MaxTime,        \* bound on the clock
    DayLength,      \* slots in a day
    WeekLength,     \* days in a week
    Workdays,       \* days of a week before its weekend
    Forward, Back,  \* when the clock is set forward and back
    Shift           \* by how many slots

\* The store and the callers prefix the three kinds of identities differently.
ASSUME AutomationsAssumption ==
    /\ Hook \cap Sched = {} /\ Hook \cap Manual = {} /\ Sched \cap Manual = {}
    /\ "none" \notin Hook \cup Sched \cup Manual
    /\ MaxAttempts \in Nat \ {0} /\ MaxClaims \in Nat \ {0}
    /\ {MaxEdits, MaxRequests, MaxFaults, MaxTime} \subseteq Nat
    /\ DayLength \in Nat \ {0} /\ WeekLength \in Nat \ {0} /\ Workdays \in 1..WeekLength
    /\ {Forward, Back, Shift} \subseteq Nat /\ Forward + Shift <= Back

VARIABLES
    store,          \* the task of the document: definition and claims
    job,            \* the Work job of every occurrence
    handler,        \* what the handler of a running job is doing
    events,         \* terminal jobs whose event is not acknowledged
    inflight,       \* _AUTOMATION_CLAIMS_INFLIGHT
    up, now,        \* the process runs; the clock
    accepted,       \* history: the settings at the time an occurrence was accepted
    count           \* how often each bounded event has happened

vars == <<store, job, handler, events, inflight, up, now, accepted, count>>

Id == Hook \cup Sched \cup Manual

\* "ended" stands for failed, cancelled and unknown_effect: a claim is settled the same
\* way by each of them.
JOB_TERMINAL_STATES == {"succeeded", "ended"}

NoBody == "none"
NoClaim == [id |-> "none", previous_last_run |-> 0, version |-> 0, epoch |-> 0]
NoJob   == [status |-> "none", attempt |-> 0, cancel |-> FALSE, skipped |-> FALSE,
            version |-> 0, payload |-> NoBody, epoch |-> 0, task_epoch |-> 0]

Init ==
    /\ \E t \in {"interval", "webhook"} :
          store = [live |-> TRUE, enabled |-> TRUE, epoch |-> 0, version |-> 0,
                   trigger |-> t, last_run |-> 0, scheduled |-> NoClaim, triggers |-> {}]
    /\ job = [i \in Id |-> NoJob]
    /\ handler = [i \in Id |-> "none"]
    /\ events = {} /\ inflight = {} /\ up = TRUE /\ now = 0
    /\ accepted = [i \in Id |-> [version |-> 0, payload |-> NoBody]]
    /\ count = [e \in {"edit", "request", "fault"} |-> 0]

-----------------------------------------------------------------------------
(* Schedules.  The clock shows local time in slots: DayLength slots a day, *)
(* WeekLength days a week; hour is the slot of the day and day the weekday *)
(* of the trigger.  Runs are stamped with slots of real time; between the  *)
(* times Forward and Back the clock is Shift slots ahead.                  *)

\* datetime.fromtimestamp; fold marks the second showing of a local time.
Local(t) == IF Forward <= t /\ t < Back THEN t + Shift ELSE t
Fold(t)  == Back <= t /\ t < Back + Shift

Skipped(n)  == Forward <= n /\ n < Forward + Shift
Repeated(n) == Back <= n /\ n < Back + Shift

\* datetime.timestamp of a local time, which the clock may skip or show twice.
timestamp(n, fold) ==
    IF \/ Forward + Shift <= n /\ n < Back
       \/ Repeated(n) /\ ~fold
       \/ Skipped(n) /\ fold
    THEN n - Shift ELSE n

Day(n) == n \div DayLength
Weekday(n) == Day(n) % WeekLength
At(n, hour) == Day(n) * DayLength + hour

_latest_daily(n, hour) == IF At(n, hour) <= n THEN At(n, hour) ELSE At(n, hour) - DayLength

_latest_weekday(n, hour) ==
    LET d == _latest_daily(n, hour)
        over == Weekday(d) + 1 - Workdays   \* days since the last workday
    IN  IF over > 0 THEN d - over * DayLength ELSE d

\* Mutant: the weekly occurrence is looked for on the weekday itself only.
latest_weekly_today(n, hour, day) ==
    IF Weekday(n) = day THEN At(n, hour) ELSE n + 1

\* The most recent occurrence of a weekday at an hour, at or before n.
latest_weekly(n, hour, day) ==
    LET since == (Weekday(n) - day + WeekLength) % WeekLength
        occ   == At(n - since * DayLength, hour)
    IN  IF occ > n THEN occ - WeekLength * DayLength ELSE occ

\* The clock has shown the target and the last run was before it.
Passed(target, fold, last, t) == Local(t) >= target /\ last < timestamp(target, fold)

\* datetime.replace keeps the fold of the current time, stepping over days drops it.
StillFolded(target, t) == Fold(t) /\ Day(target) = Day(Local(t))

is_due(type, policy, hour, day, last, t) ==
    LET n == Local(t)
    IN  CASE type = "interval" -> t - last >= 1
          [] type = "daily" ->
                LET target == IF policy = "latest" THEN _latest_daily(n, hour) ELSE At(n, hour)
                IN  Passed(target, StillFolded(target, t), last, t)
          [] type = "weekdays" ->
                LET target == IF policy = "latest" THEN _latest_weekday(n, hour) ELSE At(n, hour)
                IN  /\ policy = "latest" \/ Weekday(n) < Workdays
                    /\ Passed(target, StillFolded(target, t), last, t)
          [] type = "weekly" ->
                LET occ == latest_weekly(n, hour, day)
                IN  /\ policy = "latest" \/ (Weekday(n) = day /\ Day(occ) = Day(n))
                    /\ Passed(occ, FALSE, last, t)
          [] OTHER -> FALSE

-----------------------------------------------------------------------------
(* Helpers *)

Happens(e, max) == count[e] < max /\ count' = [count EXCEPT ![e] = @ + 1]

claim_is_active(s, i) ==
    s.live /\ s.enabled /\ (s.scheduled.id = i \/ \E c \in s.triggers : c.id = i)

\* Mutant: claims outlive the disabled definition.
_discard_pending_claims_keeps(s) == s

_discard_pending_claims(s) == [s EXCEPT !.scheduled = NoClaim, !.triggers = {}]

\* Mutant: the claim to release is not compared with the finished occurrence.
_finalize_automation_claim_any(s, ids) ==
    LET skipped == \E i \in ids : i \in Sched /\ job[i].skipped
    IN  [s EXCEPT !.triggers  = {c \in @ : c.id \notin ids},
                  !.scheduled = IF ids \cap Sched # {} THEN NoClaim ELSE @,
                  !.last_run  = IF skipped THEN s.scheduled.previous_last_run ELSE @]

\* _finalize_automation_claim for finished jobs: complete the trigger claim, complete the
\* scheduled claim, or release a skipped one so that its occurrence is due again.
_finalize_automation_claim(s, ids) ==
    LET mine == s.scheduled.id \in ids
    IN  [s EXCEPT !.triggers  = {c \in @ : c.id \notin ids},
                  !.scheduled = IF mine THEN NoClaim ELSE @,
                  !.last_run  = IF mine /\ job[s.scheduled.id].skipped
                                THEN s.scheduled.previous_last_run ELSE @]

\* The claims as run_automation is called with them.
Body(s, i) == IF i \in Hook THEN (CHOOSE c \in s.triggers : c.id = i).payload ELSE NoBody
Frozen(s, i) == IF i = s.scheduled.id THEN s.scheduled ELSE CHOOSE c \in s.triggers : c.id = i

\* Mutant: the job is created with the settings of the live definition.
task_for_claim_live(s, i) ==
    [version |-> s.version, epoch |-> s.epoch]

\* The settings an occurrence was accepted with.
task_for_claim(s, i) ==
    [version |-> Frozen(s, i).version, epoch |-> Frozen(s, i).epoch]

NewJob(s, task, body) ==
    [NoJob EXCEPT !.status = "queued", !.version = task.version, !.payload = body,
                  !.task_epoch = task.epoch, !.epoch = s.epoch]

\* run_automation raises WorkConflict: the key names a job with another payload.
Conflicts(s, i) == job[i].status # "none" /\ job[i].payload # Body(s, i)

\* Mutant: an existing job is returned as it is, finished or not.
Finished_never(s, ids) == {}

\* The claims run_automation settles at once because their job is already terminal.
Finished(s, ids) == {i \in ids : ~Conflicts(s, i) /\ job[i].status \in JOB_TERMINAL_STATES}

\* run_automation for the active claims ids of the store s.
run_automation(s, ids) ==
    /\ store' = _finalize_automation_claim(s, Finished(s, ids))
    /\ job' = [i \in Id |-> IF i \in ids /\ job[i].status = "none"
                            THEN NewJob(s, task_for_claim(s, i), Body(s, i)) ELSE job[i]]

\* admit_trigger and claim_due_tasks accept an occurrence with the current settings.
Accepts(i, payload) ==
    accepted' = IF job[i].status # "none" \/ claim_is_active(store, i) THEN accepted
                ELSE [accepted EXCEPT ![i] = [version |-> store.version, payload |-> payload]]

-----------------------------------------------------------------------------
(* Time and process *)

time_passes ==
    /\ now < MaxTime /\ now' = now + 1
    /\ UNCHANGED <<store, job, handler, events, inflight, up, accepted, count>>

Dies ==
    /\ Happens("fault", MaxFaults)
    /\ up' = FALSE
    /\ handler' = [i \in Id |-> "none"]
    /\ inflight' = {}

crash ==
    /\ up /\ Dies
    /\ UNCHANGED <<store, job, events, now, accepted>>

restart ==
    /\ ~up /\ up' = TRUE
    /\ UNCHANGED <<store, job, handler, events, inflight, now, accepted, count>>

-----------------------------------------------------------------------------
(* Accepting occurrences *)

admit_trigger(k, p) ==
    [store EXCEPT !.triggers = IF \E c \in @ : c.id = k THEN @
        ELSE @ \cup {[id |-> k, payload |-> p, version |-> store.version, epoch |-> store.epoch]}]

Admissible(k, p) ==
    /\ store.live /\ store.enabled /\ store.trigger = "webhook"
    /\ \A c \in store.triggers : c.id = k => c.payload = p
    /\ (\E c \in store.triggers : c.id = k) \/ Cardinality(store.triggers) < MaxClaims

\* handle_webhook: admit durably, then run; a failure of the run is left to the scan.
handle_webhook(k, p) ==
    /\ up /\ Happens("request", MaxRequests) /\ Admissible(k, p)
    /\ run_automation(admit_trigger(k, p), {k})
    /\ inflight' = inflight \ Finished(admit_trigger(k, p), {k})
    /\ Accepts(k, p)
    /\ UNCHANGED <<handler, events, up, now>>

handle_webhook_crashes(k, p) ==
    /\ up /\ count["request"] < MaxRequests /\ Admissible(k, p)
    /\ store' = admit_trigger(k, p)
    /\ Accepts(k, p)
    /\ Dies
    /\ UNCHANGED <<job, events, now>>

Due == store.live /\ store.enabled /\ store.scheduled = NoClaim
       /\ is_due(store.trigger, "latest", 0, 0, store.last_run, now)

claim_due_tasks(i) ==
    [store EXCEPT !.last_run = now,
        !.scheduled = [id |-> i, previous_last_run |-> store.last_run,
                       version |-> store.version, epoch |-> store.epoch]]

\* One round of automation_loop over the durable claims: every active claim that is not
\* in flight is run, the ones whose job is finished are settled.
_recover_durable_claims ==
    LET ids == {i \in Id : claim_is_active(store, i) /\ i \notin inflight}
    IN  /\ up /\ ids # {}
        /\ run_automation(store, ids)
        /\ inflight' = (inflight \cup {i \in ids : ~Conflicts(store, i)}) \ Finished(store, ids)
        /\ UNCHANGED <<handler, events, up, now, accepted, count>>

\* The same round, when the automation is due.
automation_loop_fires(i) ==
    /\ up /\ Due /\ i \in Sched /\ job[i].status = "none"
    /\ \A c \in Id : claim_is_active(store, c) => c \in inflight
    /\ run_automation(claim_due_tasks(i), {i})
    /\ inflight' = inflight \cup {i}
    /\ Accepts(i, NoBody)
    /\ UNCHANGED <<handler, events, up, now, count>>

automation_loop_crashes(i) ==
    /\ up /\ Due /\ i \in Sched /\ job[i].status = "none"
    /\ store' = claim_due_tasks(i)
    /\ Accepts(i, NoBody)
    /\ Dies
    /\ UNCHANGED <<job, events, now>>

\* _automation_run: a manual run has a key of its own and no claim.
_automation_run(i) ==
    /\ up /\ store.live /\ i \in Manual /\ job[i].status = "none" /\ Happens("request", MaxRequests)
    /\ job' = [job EXCEPT ![i] = NewJob(store, [version |-> store.version, epoch |-> store.epoch], NoBody)]
    /\ Accepts(i, NoBody)
    /\ UNCHANGED <<store, handler, events, inflight, up, now>>

-----------------------------------------------------------------------------
(* The user's edits *)

\* cancel_automation: every job that is not terminal is asked to cancel.
Cancelled(j) ==
    CASE j.status = "queued"  -> [j EXCEPT !.status = "ended", !.attempt = 0]
      [] j.status = "running" -> [j EXCEPT !.cancel = TRUE]
      [] OTHER -> j

cancel_automation ==
    /\ job' = [i \in Id |-> Cancelled(job[i])]
    /\ events' = events \cup {i \in Id : job[i].status = "queued"}

Disabled(s) ==
    [_discard_pending_claims(s) EXCEPT !.enabled = FALSE, !.epoch = @ + 1]

Removed(s) == [s EXCEPT !.live = FALSE, !.scheduled = NoClaim, !.triggers = {}]

update ==
    /\ up /\ store.live /\ Happens("edit", MaxEdits)
    /\ \/ store' = [store EXCEPT !.version = @ + 1]
       \/ ~store.enabled /\ store' = [store EXCEPT !.enabled = TRUE]
    /\ UNCHANGED <<job, handler, events, inflight, up, now, accepted>>

disable_or_remove ==
    /\ up /\ store.live /\ Happens("edit", MaxEdits)
    /\ store' \in {Disabled(store), Removed(store)}
    /\ cancel_automation
    /\ UNCHANGED <<handler, inflight, up, now, accepted>>

disable_or_remove_crashes ==
    /\ up /\ store.live
    /\ store' \in {Disabled(store), Removed(store)}
    /\ Dies
    /\ UNCHANGED <<job, events, now, accepted>>

-----------------------------------------------------------------------------
(* The job *)

\* The job leaves the running state; nobody reads the counters of a finished job.
Ends(i, status, skipped) ==
    LET left == [job[i] EXCEPT !.status = status, !.skipped = skipped]
        done == status \in JOB_TERMINAL_STATES
    IN  /\ job' = [job EXCEPT ![i] = IF done THEN [left EXCEPT !.attempt = 0, !.cancel = FALSE]
                                     ELSE left]
        /\ handler' = [handler EXCEPT ![i] = "none"]
        /\ events' = IF done THEN events \cup {i} ELSE events

job_starts(i) ==
    /\ up /\ job[i].status = "queued"
    /\ job' = [job EXCEPT ![i].status = "running", ![i].attempt = @ + 1]
    /\ handler' = [handler EXCEPT ![i] = "waiting"]
    /\ UNCHANGED <<store, events, inflight, up, now, accepted, count>>

\* What _automation_job checks under the lock of the automation.
Executable(i) ==
    /\ store.live /\ job[i].epoch = store.epoch
    /\ i \in Manual \/ claim_is_active(store, i)

_automation_job(i) ==
    /\ up /\ handler[i] = "waiting" /\ \A k \in Id : handler[k] # "executing"
    /\ IF job[i].cancel \/ ~Executable(i)
       THEN Ends(i, "ended", FALSE)
       ELSE /\ handler' = [handler EXCEPT ![i] = "executing"]
            /\ UNCHANGED <<job, events>>
    /\ UNCHANGED <<store, inflight, up, now, accepted, count>>

\* The worker returns: completed, skipped, truncated, failed or cancelled; an error is
\* retried while attempts remain, a requested cancellation overrules the result.
execute_automation_ends(i) ==
    /\ up /\ handler[i] = "executing"
    /\ IF job[i].cancel THEN Ends(i, "ended", FALSE)
       ELSE \/ Ends(i, "succeeded", FALSE) \/ Ends(i, "succeeded", TRUE) \/ Ends(i, "ended", FALSE)
            \/ job[i].attempt < MaxAttempts /\ Ends(i, "queued", FALSE)
    /\ UNCHANGED <<store, inflight, up, now, accepted, count>>

lease_lost(i) ==
    /\ up /\ handler[i] # "none" /\ Happens("fault", MaxFaults)
    /\ handler' = [handler EXCEPT ![i] = "none"]
    /\ UNCHANGED <<store, job, events, inflight, up, now, accepted>>

\* Work recovery of an expired lease under the retry policy of automation jobs.
recover_job(i) ==
    /\ up /\ job[i].status = "running" /\ handler[i] = "none"
    /\ Ends(i, IF ~job[i].cancel /\ job[i].attempt < MaxAttempts THEN "queued" ELSE "ended", FALSE)
    /\ UNCHANGED <<store, inflight, up, now, accepted, count>>

\* The event of a finished job is delivered and acknowledged.
_automation_work_event(i) ==
    /\ up /\ i \in events
    /\ store' = _finalize_automation_claim(store, {i})
    /\ inflight' = inflight \ {i}
    /\ events' = events \ {i}
    /\ UNCHANGED <<job, handler, up, now, accepted, count>>

\* The process dies before the acknowledgement: the event will be delivered again.
event_crashes(i) ==
    /\ up /\ i \in events
    /\ store' = _finalize_automation_claim(store, {i})
    /\ Dies
    /\ UNCHANGED <<job, events, now, accepted>>

-----------------------------------------------------------------------------

JobStep(i) == job_starts(i) \/ _automation_job(i) \/ execute_automation_ends(i) \/ recover_job(i)

Next ==
    \/ time_passes \/ crash \/ restart
    \/ \E k \in Hook, p \in Payload : handle_webhook(k, p) \/ handle_webhook_crashes(k, p)
    \/ _recover_durable_claims
    \/ \E i \in Sched : automation_loop_fires(i) \/ automation_loop_crashes(i)
    \/ \E i \in Manual : _automation_run(i)
    \/ update \/ disable_or_remove \/ disable_or_remove_crashes
    \/ \E i \in Id : JobStep(i) \/ lease_lost(i) \/ _automation_work_event(i) \/ event_crashes(i)

Spec == Init /\ [][Next]_vars

\* The loop wakes every 30 seconds, the Work scheduler and the event pump run, handlers
\* return, and the process is started again.
FairSpec ==
    /\ Spec
    /\ WF_vars(restart) /\ WF_vars(_recover_durable_claims)
    /\ \A i \in Id : WF_vars(JobStep(i) \/ _automation_work_event(i))

-----------------------------------------------------------------------------
(* Properties *)

ScheduledClaim ==
    [id : Sched \cup {"none"}, previous_last_run : 0..MaxTime, version : 0..MaxEdits,
     epoch : 0..(MaxEdits + MaxFaults)]

TriggerClaim ==
    [id : Hook, payload : Payload, version : 0..MaxEdits, epoch : 0..(MaxEdits + MaxFaults)]

Task ==
    [live : BOOLEAN, enabled : BOOLEAN, epoch : 0..(MaxEdits + MaxFaults), version : 0..MaxEdits,
     trigger : {"interval", "webhook"}, last_run : 0..MaxTime,
     scheduled : ScheduledClaim, triggers : SUBSET TriggerClaim]

Job ==
    [status : {"none", "queued", "running"} \cup JOB_TERMINAL_STATES, attempt : 0..MaxAttempts,
     cancel : BOOLEAN, skipped : BOOLEAN, version : 0..MaxEdits, payload : Payload \cup {NoBody},
     epoch : 0..(MaxEdits + MaxFaults), task_epoch : 0..(MaxEdits + MaxFaults)]

\* The records have the types of the store and of the Work Fabric, and every counter is
\* paid for by the bounded events that raise it.
AutomationsTypeOK ==
    /\ store \in Task /\ IsFiniteSet(store.triggers) /\ Cardinality(store.triggers) <= MaxClaims
    /\ job \in [Id -> Job]
    /\ \A i \in Id : job[i].status = "queued" => job[i].attempt < MaxAttempts
    /\ handler \in [Id -> {"none", "waiting", "executing"}]
    /\ events \subseteq Id /\ inflight \subseteq Id /\ up \in BOOLEAN /\ now \in 0..MaxTime
    /\ accepted \in [Id -> [version : 0..MaxEdits, payload : Payload \cup {NoBody}]]
    /\ count \in [{"edit", "request", "fault"} -> Nat]
    /\ count["edit"] <= MaxEdits /\ count["fault"] <= MaxFaults
    /\ store.version <= count["edit"] /\ store.epoch <= count["edit"] + count["fault"]

\* Two occurrences of one automation never execute at the same time, and what executes is
\* the occurrence as it was accepted: later edits of the definition, webhook requests that
\* reuse a key and recovery after a crash change neither its settings nor its payload.
RunsAsAccepted ==
    /\ \A i, k \in Id : handler[i] = "executing" /\ handler[k] = "executing" => i = k
    /\ \A i \in Id : handler[i] = "executing" =>
          job[i].version = accepted[i].version /\ job[i].payload = accepted[i].payload

\* A claim exists only while the definition is there and enabled, and was accepted since
\* it was last disabled; a webhook key has one claim.
ClaimsAreCurrent ==
    /\ store.scheduled.id = "none" => store.scheduled = NoClaim
    /\ store.scheduled # NoClaim \/ store.triggers # {} => store.live /\ store.enabled
    /\ store.scheduled # NoClaim => store.scheduled.epoch = store.epoch
    /\ \A c \in store.triggers : c.epoch = store.epoch
    /\ \A c, d \in store.triggers : c.id = d.id => c = d

\* The first claim of an occurrence carries what was accepted, and so does its job, which
\* was created under the epoch the occurrence was accepted in.
JobsAsAccepted ==
    /\ \A i \in Id : job[i].status # "none" =>
          job[i].version = accepted[i].version /\ job[i].payload = accepted[i].payload
    /\ \A i \in Id : job[i].task_epoch = job[i].epoch
    /\ \A c \in store.triggers : job[c.id].status = "none" =>
          accepted[c.id] = [version |-> c.version, payload |-> c.payload]
    /\ store.scheduled # NoClaim /\ job[store.scheduled.id].status = "none" =>
          accepted[store.scheduled.id] = [version |-> store.scheduled.version, payload |-> NoBody]

\* Only a running job has a handler, and only a finished one an event.
HandlersAndEvents ==
    /\ \A i \in Id : handler[i] # "none" => job[i].status = "running"
    /\ \A i \in events : job[i].status \in JOB_TERMINAL_STATES

\* The state of an automation is well formed and runs are as accepted, with the facts about
\* claims and jobs this rests on.
AutomationsInv ==
    /\ AutomationsTypeOK /\ RunsAsAccepted
    /\ ClaimsAreCurrent /\ JobsAsAccepted /\ HandlersAndEvents

\* Disabling or removing an automation stops everything accepted before: an occurrence
\* starts to execute only if the definition is there and was not disabled since the
\* occurrence was accepted, even when it was enabled again or the process crashed between
\* the disable and the cancellation of its jobs.
StoppedStaysStopped ==
    [][\A i \in Id : handler[i] # "executing" /\ handler'[i] = "executing" =>
          store.live /\ job[i].task_epoch = store.epoch]_vars

\* An accepted occurrence is not lost: its claim disappears only when its own job is
\* terminal or the user disables or removes the automation; late and repeated events of
\* other occurrences leave it alone.
AcceptedIsNotLost ==
    [][\A i \in Id :
          claim_is_active(store, i) /\ ~claim_is_active(store', i) =>
              job[i].status \in JOB_TERMINAL_STATES \/ ~store'.live \/ store'.epoch > store.epoch]_vars

\* Every claim is settled, so that the next scheduled occurrence is not blocked for ever,
\* except for a claim whose key names a job with another payload.
ClaimSettles ==
    \A i \in Hook \cup Sched : claim_is_active(store, i)
        ~> (~claim_is_active(store, i) \/ Conflicts(store, i))

\* The reference for is_due: at which local times a trigger occurs.
Occurs(type, hour, day, n) ==
    /\ n % DayLength = hour
    /\ type = "weekdays" => Weekday(n) < Workdays
    /\ type = "weekly" => Weekday(n) = day

\* The times of day that no change of the clock skips or repeats.
RegularHours ==
    {hour \in 0..(DayLength - 1) :
        \A s \in 0..(Shift - 1) : (Forward + s) % DayLength # hour /\ (Back + s) % DayLength # hour}

\* The inputs of two weeks, at regular hours, on which is_due differs from its reference:
\* due means that the clock has shown an occurrence since the last run, under "skip" one
\* of today.
WrongDue ==
    LET week == WeekLength * DayLength
        Input == [type : {"daily", "weekdays", "weekly"}, policy : {"latest", "skip"},
                  hour : RegularHours, day : 0..(WeekLength - 1),
                  last : 0..(2 * week), t : week..(2 * week)]
    IN  {x \in Input :
            is_due(x.type, x.policy, x.hour, x.day, x.last, x.t) #
            \E o \in (x.last + 1)..x.t : /\ Occurs(x.type, x.hour, x.day, Local(o))
                                         /\ x.policy = "latest" \/ Day(Local(o)) = Day(Local(x.t))}

\* The calendar arithmetic the loop acts on is exact across changes of the clock: whenever
\* it fires, is_due agrees with its reference for daily, weekday and weekly triggers at the
\* hours no change skips or repeats, however long the process was off.  (A skipped hour is
\* due again and again until its timestamp is reached, a repeated one twice.)
DueIsExact == Due => WrongDue = {}
=============================================================================
