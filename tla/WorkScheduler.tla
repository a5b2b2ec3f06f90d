--------------------------- MODULE WorkScheduler ---------------------------
(***************************************************************************)
(* The scheduler process of the Work Fabric (scheduler.py, jobs.py and the *)
(* lifecycle of service.py) running over the job table of WorkJobs.        *)
(*                                                                         *)
(* One host process runs at a time, under a worker_id of its own.  Each    *)
(* leased job is executed by one asyncio task; its database calls run in   *)
(* threads, so a call whose await was cancelled may still commit later.    *)
(* Such calls are the records of "late".  A handler is a coroutine or,     *)
(* for the kinds in SyncKind, a function in a thread that no cancellation  *)
(* can stop.  A crash loses the process, its tasks and its calls, and      *)
(* leaves the table.                                                       *)
(***************************************************************************)
EXTENDS WorkJobs, FiniteSets

CONSTANTS
  Kind,             \* registered job kinds
  KindOf,           \* [Job -> Kind]
  SyncKind,         \* kinds whose handler is not a coroutine function
  KindLimit,        \* [Kind -> Nat]: max_concurrency of a registration
  max_concurrency,  \* slots of the scheduler
  LostLeases        \* bound: epochs whose lease a live task may lose

ASSUME SchedulerAssumption ==
  /\ KindOf \in [Job -> Kind]
  /\ SyncKind \subseteq Kind
  /\ KindLimit \in [Kind -> Nat \ {0}]
  /\ max_concurrency \in Nat \ {0}
  /\ LostLeases \in Nat

VARIABLES
  owner,      \* worker_id of the current process, NoWorker when there is none
  stopping,   \* shutdown has begun
  choosing,   \* lease_next_job calls in flight, with the limits they were given
  granted,    \* leases such a call brought back, before their task exists
  spent,      \* worker_ids already used
  tasks,      \* live _execute tasks, the values of _active
  late,       \* database calls whose awaiting task was cancelled
  runs,       \* history: handler invocations of each job
  waits,      \* history: times a handler of the job marked it waiting
  completed,  \* history: epoch of the last handler that returned normally
  published   \* history: publications committed for each job

procvars == <<owner, stopping, spent>>
admission == <<choosing, granted>>
history == <<runs, waits, completed, published>>
schedvars == <<vars, procvars, admission, tasks, late, history>>

(* Where an _execute task stands: awaiting start_job, about to create the  *)
(* handler, running it, awaiting require, finish, acknowledge or release,  *)
(* or in the CancelledError branch before or after its own require.        *)
TaskState == {"starting", "started", "handler", "reading", "finishing", "acking",
              "releasing", "unknown", "interrupted", "settling"}

Task == [job: Job, epoch: Nat, pc: TaskState, stop: BOOLEAN]

(* A lease_next_job call carries what _admit_locked computed before it     *)
(* awaited the call; "awaited" is FALSE once shutdown cancelled the loop.  *)
Choice == [kinds: SUBSET Kind, excluded: SUBSET Job, awaited: BOOLEAN]
Grant == [job: Job, epoch: Nat]

LateCall == [job: Job, epoch: Nat, worker: Worker,
             op: {"start", "finish", "ack", "release", "unknown"}]

SchedInit ==
  /\ JobsInit
  /\ owner = NoWorker /\ stopping = FALSE /\ spent = {}
  /\ choosing = {} /\ granted = {}
  /\ tasks = {} /\ late = {}
  /\ runs = [j \in Job |-> 0]
  /\ waits = [j \in Job |-> 0]
  /\ completed = [j \in Job |-> 0]
  /\ published = [j \in Job |-> 0]

-----------------------------------------------------------------------------
Up == owner # NoWorker
active == {t.job : t \in tasks}
IsSync(j) == KindOf[j] \in SyncKind

(* A task moves on; a task whose coroutine ends leaves _active. *)
Moves(t, pc) == tasks' = (tasks \ {t}) \cup {[t EXCEPT !.pc = pc]}
Ends(t) == tasks' = tasks \ {t}

(* The task still holds the lease it was created with. *)
HoldsLease(t) == expect_lease(t.job, owner, t.epoch, JOB_LEASED_STATES)

(* Mutant: the live leases are counted, not the tasks. *)
eligible_kinds_leased ==
  {k \in Kind : Cardinality({j \in Job : KindOf[j] = k /\ job[j].lease_owner = owner}) < KindLimit[k]}

(* _eligible_kinds: the kinds below their limit, by the tasks in _active. *)
eligible_kinds ==
  {k \in Kind : Cardinality({t \in tasks : KindOf[t.job] = k}) < KindLimit[k]}

-----------------------------------------------------------------------------
(* Life of the process. *)

(* WorkService.start: a fresh worker_id. *)
start(w) ==
  /\ ~Up
  /\ w \notin spent
  /\ owner' = w /\ spent' = spent \cup {w}
  /\ UNCHANGED <<vars, stopping, admission, tasks, late, history>>

(* The scan at start and every _recovery_interval_s until shutdown. *)
run_periodic_recovery ==
  /\ Up /\ ~stopping
  /\ recover_expired_job_leases
  /\ UNCHANGED <<procvars, admission, tasks, late, history>>

crash ==
  /\ Up
  /\ spent # Worker
  /\ owner' = NoWorker /\ stopping' = FALSE
  /\ choosing' = {} /\ granted' = {}
  /\ tasks' = {} /\ late' = {}
  /\ UNCHANGED <<vars, spent, history>>

(* Task.cancel on an _execute task.  A handler in progress is told to stop *)
(* and the task keeps waiting for it; a cancelled database call may still  *)
(* commit.  In an except branch the second cancellation ends the task.     *)
CallOf(t) ==
  [job |-> t.job, epoch |-> t.epoch, worker |-> owner,
   op |-> CASE t.pc = "starting" -> "start"
            [] t.pc = "finishing" -> "finish"
            [] t.pc \in {"acking", "settling"} -> "ack"
            [] t.pc = "unknown" -> "unknown"
            [] OTHER -> "release"]

Interrupted(t) ==
  CASE t.pc = "handler" -> {[t EXCEPT !.stop = TRUE]}
    [] t.pc \in {"starting", "started", "reading", "finishing", "acking"} ->
         {[t EXCEPT !.pc = "interrupted"]}
    [] OTHER -> {}

LeftBehind(t) ==
  IF t.pc \in {"starting", "finishing", "acking", "settling", "releasing", "unknown"}
  THEN {CallOf(t)} ELSE {}

cancel_tasks(ts) ==
  /\ tasks' = (tasks \ ts) \cup UNION {Interrupted(t) : t \in ts}
  /\ late' = late \cup UNION {LeftBehind(t) : t \in ts}

(* shutdown cancels the loop and every task; leases stay for recovery.  A  *)
(* lease_next_job call nobody awaits any more may still commit, and a      *)
(* lease it has brought back gets no task.                                 *)
shutdown ==
  /\ Up /\ ~stopping
  /\ spent # Worker
  /\ stopping' = TRUE
  /\ choosing' = {[c EXCEPT !.awaited = FALSE] : c \in choosing}
  /\ granted' = {}
  /\ cancel_tasks(tasks)
  /\ UNCHANGED <<vars, owner, spent, history>>

(* The end of shutdown: gather has seen every task finish. *)
shutdown_done ==
  /\ stopping /\ tasks = {}
  /\ owner' = NoWorker /\ stopping' = FALSE
  /\ choosing' = {} /\ granted' = {}
  /\ late' = {}
  /\ UNCHANGED <<vars, spent, tasks, history>>

(* WorkService.cancel_job: the durable request, then the local task; a     *)
(* repeated request interrupts the task again.                             *)
cancel_job(j) ==
  /\ Up
  /\ \/ request_job_cancel(j)
     \/ /\ job[j].cancel_requested /\ job[j].status \notin JOB_TERMINAL_STATES
        /\ UNCHANGED vars
  /\ IF job'[j].status \in JOB_TERMINAL_STATES
     THEN UNCHANGED <<tasks, late>>
     ELSE cancel_tasks({t \in tasks : t.job = j})
  /\ UNCHANGED <<procvars, admission, history>>

-----------------------------------------------------------------------------
(* Admission. *)

(* Mutant: jobs whose handler is still unwinding are not excluded. *)
admit_choose_any ==
  /\ Up /\ ~stopping
  /\ choosing = {} /\ granted = {}
  /\ Cardinality(active) < max_concurrency
  /\ choosing' = {[kinds |-> eligible_kinds, excluded |-> {}, awaited |-> TRUE]}
  /\ UNCHANGED <<vars, procvars, granted, tasks, late, history>>

(* Mutant: rounds do not wait for each other. *)
admit_choose_unlocked ==
  /\ Up /\ ~stopping
  /\ Cardinality(active) < max_concurrency
  /\ eligible_kinds # {}
  /\ choosing' = choosing \cup {[kinds |-> eligible_kinds, excluded |-> active,
                                 awaited |-> TRUE]}
  /\ UNCHANGED <<vars, procvars, granted, tasks, late, history>>

(* One turn of the loop in _admit_locked, up to its await: run_once holds  *)
(* the _admission lock, whoever called it (the poll loop, a follow-up or a *)
(* pump of the host), and the limits are those of this moment.             *)
admit_choose ==
  /\ Up /\ ~stopping
  /\ choosing = {} /\ granted = {}
  /\ Cardinality(active) < max_concurrency
  /\ eligible_kinds # {}
  /\ choosing' = {[kinds |-> eligible_kinds, excluded |-> active, awaited |-> TRUE]}
  /\ UNCHANGED <<vars, procvars, granted, tasks, late, history>>

(* The call commits in its thread under the limits it was given; without   *)
(* anyone awaiting it, no task will ever serve the lease.                  *)
Candidates(c) == {i \in Job \ c.excluded : KindOf[i] \in c.kinds}

admit_lease(c) ==
  /\ \E j \in Job :
       /\ lease_next_job(owner, j, Candidates(c))
       /\ granted' = IF c.awaited
                     THEN granted \cup {[job |-> j, epoch |-> job'[j].lease_epoch]}
                     ELSE granted
  /\ choosing' = choosing \ {c}
  /\ UNCHANGED <<procvars, tasks, late, history>>

(* Nothing to lease: the round is over. *)
admit_none(c) ==
  /\ ~\E j \in Candidates(c) : Leasable(j)
  /\ choosing' = choosing \ {c}
  /\ UNCHANGED <<vars, procvars, granted, tasks, late, history>>

(* The loop resumes after its await, creates the task and tracks it.       *)
admit_track(g) ==
  /\ granted' = granted \ {g}
  /\ tasks' = tasks \cup {[job |-> g.job, epoch |-> g.epoch,
                           pc |-> "starting", stop |-> FALSE]}
  /\ UNCHANGED <<vars, procvars, choosing, late, history>>

AdmissionStep ==
  \/ admit_choose
  \/ \E c \in choosing : admit_lease(c) \/ admit_none(c)
  \/ \E g \in granted : admit_track(g)

-----------------------------------------------------------------------------
(* One _execute task. *)

(* await to_thread(start_job): the lease may be gone by now, which sends   *)
(* the task to its last except branch.                                     *)
execute_start(t) ==
  /\ t.pc = "starting"
  /\ \/ /\ start_job(t.job, owner, t.epoch, IsSync(t.job))
        /\ Moves(t, "started")
     \/ /\ ~expect_lease(t.job, owner, t.epoch, {"leased"})
        /\ Moves(t, "releasing")
        /\ UNCHANGED vars
  /\ UNCHANGED <<procvars, admission, late, history>>

(* start_job fails for a reason of the database, with the lease intact. *)
execute_start_error(t) ==
  /\ t.pc = "starting"
  /\ job[t.job].revision + 1 < MaxRevision
  /\ Moves(t, "releasing")
  /\ UNCHANGED <<vars, procvars, admission, late, history>>

(* The task resumes, creates the handler task and the heartbeat. *)
execute_invoke(t) ==
  /\ t.pc = "started"
  /\ Moves(t, "handler")
  /\ runs' = [runs EXCEPT ![t.job] = @ + 1]
  /\ UNCHANGED <<vars, procvars, admission, late, waits, completed, published>>

(* _heartbeat_loop: renew the lease, or find it lost and stop the handler. *)
heartbeat(t) ==
  /\ t.pc = "handler"
  /\ job[t.job].lease_left < LeaseTTL
  /\ \/ /\ heartbeat_job(t.job, owner, t.epoch)
        /\ UNCHANGED tasks
     \/ /\ ~HoldsLease(t) /\ ~t.stop
        /\ tasks' = (tasks \ {t}) \cup {[t EXCEPT !.stop = TRUE]}
        /\ UNCHANGED vars
  /\ UNCHANGED <<procvars, admission, late, history>>

(* The handler parks its job until something outside wakes it. *)
handler_waits(t) ==
  /\ t.pc = "handler"
  /\ mark_job_waiting(t.job, owner, t.epoch)
  /\ waits' = [waits EXCEPT ![t.job] = @ + 1]
  /\ UNCHANGED <<procvars, admission, tasks, late, runs, completed, published>>

(* Mutant: the publication is not fenced by the lease. *)
commit_result_unfenced(t) ==
  /\ t.pc = "handler"
  /\ ~(t.stop /\ IsSync(t.job))
  /\ published' = [published EXCEPT ![t.job] = @ + 1]
  /\ completed' = [completed EXCEPT ![t.job] = t.epoch]
  /\ finish_job(t.job, owner, t.epoch, "succeeded") \/ UNCHANGED vars
  /\ UNCHANGED <<procvars, admission, tasks, late, runs, waits>>

(* commit_result: publication and success in one transaction, unless the   *)
(* lease is gone or the job was cancelled.  A cancelled task flags its     *)
(* context only in the thread branch of _invoke_handler; a coroutine that  *)
(* holds on after its cancellation may still commit.  The handler makes    *)
(* this call itself and awaits nothing, so no copy of it is left behind.   *)
commit_result(t) ==
  /\ t.pc = "handler"
  /\ ~(t.stop /\ IsSync(t.job))
  /\ finish_job(t.job, owner, t.epoch, "succeeded")
  /\ published' = [published EXCEPT ![t.job] = @ + 1]
  /\ completed' = [completed EXCEPT ![t.job] = t.epoch]
  /\ UNCHANGED <<procvars, admission, tasks, late, runs, waits>>

(* The handler ends and _invoke_handler reports how: a result, RetryJob,   *)
(* UnknownJobEffect, another exception, or cancellation.  The result of a  *)
(* thread that was told to stop is thrown away; a coroutine may ignore its *)
(* cancellation and return.                                                *)
handler_ends(t) ==
  /\ t.pc = "handler"
  /\ \/ /\ ~(t.stop /\ IsSync(t.job))
        /\ Moves(t, "reading")
        /\ completed' = [completed EXCEPT ![t.job] = t.epoch]
     \/ /\ ~(t.stop /\ IsSync(t.job))
        /\ \E pc \in {"releasing", "unknown"} : Moves(t, pc)
        /\ UNCHANGED completed
     \/ /\ t.stop
        /\ Moves(t, "interrupted")
        /\ UNCHANGED completed
  /\ UNCHANGED <<vars, procvars, admission, late, runs, waits, published>>

(* current = await to_thread(require). *)
execute_read(t) ==
  /\ t.pc = "reading"
  /\ LET r == job[t.job]
     IN \/ r.status \in JOB_TERMINAL_STATES \cup {"waiting"} /\ Ends(t)
        \/ /\ r.status \notin JOB_TERMINAL_STATES \cup {"waiting"}
           /\ Moves(t, IF r.cancel_requested THEN "acking" ELSE "finishing")
  /\ UNCHANGED <<vars, procvars, admission, late, history>>

(* finish_job and acknowledge_job_cancel of the normal path; an exception, *)
(* a lost lease or a cancellation that came first, releases the job.       *)
execute_finish(t) ==
  /\ t.pc = "finishing"
  /\ \/ finish_job(t.job, owner, t.epoch, "succeeded") /\ Ends(t)
     \/ /\ ~HoldsLease(t) \/ job[t.job].cancel_requested
        /\ Moves(t, "releasing")
        /\ UNCHANGED vars
  /\ UNCHANGED <<procvars, admission, late, history>>

execute_acknowledge(t) ==
  /\ t.pc = "acking"
  /\ \/ acknowledge_job_cancel(t.job, owner, t.epoch) /\ Ends(t)
     \/ ~HoldsLease(t) /\ Moves(t, "releasing") /\ UNCHANGED vars
  /\ UNCHANGED <<procvars, admission, late, history>>

(* The except branches for RetryJob, UnknownJobEffect and Exception. *)
execute_release(t) ==
  /\ t.pc \in {"releasing", "unknown"}
  /\ Ends(t)
  /\ \/ release_job(t.job, owner, t.epoch, t.pc = "unknown")
     \/ ~HoldsLease(t) /\ UNCHANGED vars
  /\ UNCHANGED <<procvars, admission, late, history>>

(* except CancelledError: acknowledge a durable request, otherwise leave   *)
(* the lease to recovery.                                                  *)
execute_interrupted(t) ==
  /\ t.pc = "interrupted"
  /\ IF job[t.job].cancel_requested THEN Moves(t, "settling") ELSE Ends(t)
  /\ UNCHANGED <<vars, procvars, admission, late, history>>

execute_settle(t) ==
  /\ t.pc = "settling"
  /\ Ends(t)
  /\ \/ acknowledge_job_cancel(t.job, owner, t.epoch)
     \/ ~HoldsLease(t) /\ UNCHANGED vars
  /\ UNCHANGED <<procvars, admission, late, history>>

(* A call nobody awaits any more reaches the database. *)
late_call(c) ==
  /\ late' = late \ {c}
  /\ \/ c.op = "start" /\ start_job(c.job, c.worker, c.epoch, IsSync(c.job))
     \/ c.op = "finish" /\ finish_job(c.job, c.worker, c.epoch, "succeeded")
     \/ c.op = "ack" /\ acknowledge_job_cancel(c.job, c.worker, c.epoch)
     \/ c.op \in {"release", "unknown"} /\ release_job(c.job, c.worker, c.epoch, c.op = "unknown")
     \/ UNCHANGED vars
  /\ UNCHANGED <<procvars, admission, tasks, history>>

-----------------------------------------------------------------------------
Submit(j) == create_job(j) /\ UNCHANGED <<procvars, admission, tasks, late, history>>
Wake(j) == wake_job(j) /\ UNCHANGED <<procvars, admission, tasks, late, history>>

(* Bound: a job loses the leases of its first LostLeases epochs at any     *)
(* point of its task; the leases nobody serves any more always run out.    *)
served == active \cup {g.job : g \in granted}

Clock ==
  /\ Tick({j \in Job : job[j].lease_epoch <= LostLeases \/ j \notin served})
  /\ UNCHANGED <<procvars, admission, tasks, late, history>>

(* The steps of a task that its own coroutine takes. *)
TaskStep(t) ==
  \/ execute_start(t) \/ execute_invoke(t) \/ execute_read(t)
  \/ execute_finish(t) \/ execute_acknowledge(t) \/ execute_release(t)
  \/ execute_interrupted(t) \/ execute_settle(t)

HandlerStep(t) == handler_waits(t) \/ commit_result(t) \/ handler_ends(t)

SchedNext ==
  \/ \E w \in Worker : start(w)
  \/ crash \/ shutdown \/ shutdown_done \/ run_periodic_recovery
  \/ AdmissionStep
  \/ \E t \in tasks : TaskStep(t) \/ HandlerStep(t) \/ heartbeat(t) \/ execute_start_error(t)
  \/ \E c \in late : late_call(c)
  \/ \E j \in Job : Submit(j) \/ Wake(j) \/ cancel_job(j)
  \/ Clock

(* Fairness: the event loop runs every task and the poll loop, handlers    *)
(* end (a job handler is finite work), the recovery task runs while the    *)
(* host is up, time passes, and the host is started again after it stops.  *)
SchedFairness ==
  /\ \A j \in Job : WF_schedvars(\E t \in tasks : t.job = j /\ TaskStep(t))
  /\ \A j \in Job : WF_schedvars(\E t \in tasks : t.job = j /\ handler_ends(t))
  /\ WF_schedvars(AdmissionStep)
  /\ WF_schedvars(run_periodic_recovery)
  /\ WF_schedvars(shutdown_done)
  /\ WF_schedvars(\E w \in Worker : start(w))
  /\ WF_schedvars(Clock)

SchedSafety == SchedInit /\ [][SchedNext]_schedvars
SchedSpec == SchedSafety /\ SchedFairness

-----------------------------------------------------------------------------
SchedTypeOK ==
  /\ JobsTypeOK
  /\ owner \in Worker \cup {NoWorker} /\ spent \subseteq Worker
  /\ stopping \in BOOLEAN /\ choosing \subseteq Choice /\ granted \subseteq Grant
  /\ tasks \subseteq Task /\ IsFiniteSet(tasks) /\ late \subseteq LateCall
  /\ runs \in [Job -> Nat] /\ waits \in [Job -> Nat]
  /\ completed \in [Job -> Nat] /\ published \in [Job -> Nat]

TasksOf(k) == {t \in tasks : KindOf[t.job] = k}

(* The scheduler never exceeds its slots, nor a kind its own limit. *)
WithinLimits ==
  /\ Cardinality(tasks) <= max_concurrency
  /\ \A k \in Kind : Cardinality(TasksOf(k)) <= KindLimit[k]

(* Room for one more task of kind k. *)
Fits(k) == Cardinality(tasks) < max_concurrency /\ Cardinality(TasksOf(k)) < KindLimit[k]

(* What a round computed before its await is still true of the tasks after *)
(* it, whatever ended, expired, was recovered or was cancelled meanwhile.  *)
LimitsOutliveAwait ==
  /\ \A c \in choosing :
       c.awaited => active \subseteq c.excluded /\ \A k \in c.kinds : Fits(k)
  /\ \A g \in granted : g.job \notin active /\ Fits(KindOf[g.job])

(* Tasks, calls and leases in hand belong to a live process. *)
OwnedByProcess == (tasks # {} \/ late # {} \/ choosing # {} \/ granted # {}) => Up

(* A job never has two executions at once in the process. *)
OneTaskPerJob == \A s, t \in tasks : s.job = t.job => s = t

(* The lock of run_once: one round at a time, between its await and the    *)
(* task it creates.                                                        *)
OneRound ==
  /\ \A c, d \in choosing : c = d
  /\ \A g, h \in granted : g = h
  /\ choosing = {} \/ granted = {}

(* Slots and kind limits hold, counted by the tasks that still run and not *)
(* by the leases in the table, which recovery takes from tasks that unwind *)
(* or sit in a thread; a round uses after its await what it computed       *)
(* before.  And a job has one task, in a process that lives.               *)
SchedInv ==
  /\ SchedTypeOK /\ JobsInv /\ OwnedByProcess /\ OneTaskPerJob
  /\ OneRound /\ WithinLimits /\ LimitsOutliveAwait

(* Handler invocations of a job that are paid for and not yet made: the    *)
(* one its lease or its continuation allows, and the one its task is about *)
(* to make.                                                                *)
Promised(j) ==
  (IF job[j].continuation \/ job[j].status = "leased" THEN 1 ELSE 0)
    + (IF \E t \in tasks : t.job = j /\ t.pc = "started" THEN 1 ELSE 0)

(* A job never has two executions at once in the process, even when its    *)
(* lease expired, recovery queued it again and the first handler is still  *)
(* unwinding.  And every handler invocation is paid for: by a counted      *)
(* attempt, or by the wait that the previous invocation asked for; leases  *)
(* recovered or leaked before the handler started buy no second one.       *)
ExecutionsArePaidFor ==
  /\ OneTaskPerJob
  /\ \A j \in Job : runs[j] + Promised(j) <= job[j].attempt + waits[j]

(* Epochs only grow: a task, or a lease in hand that gets its task next,  *)
(* is of the job's last lease or of an older one, of the last one if the  *)
(* job has succeeded, and no older than any call left behind. What a task *)
(* or a late call is about to record as success was returned by the       *)
(* handler of its own lease.                                              *)
ResultsAreCurrent ==
  /\ \A t \in tasks :
       /\ t.epoch <= job[t.job].lease_epoch
       /\ job[t.job].status = "succeeded" => t.epoch = job[t.job].lease_epoch
       /\ t.pc \in {"reading", "finishing"} => completed[t.job] = t.epoch
  /\ \A c \in late :
       /\ c.epoch <= job[c.job].lease_epoch
       /\ \A t \in tasks : t.job = c.job => c.epoch <= t.epoch
       /\ (c.op = "finish" /\ c.epoch = job[c.job].lease_epoch)
            => completed[c.job] = c.epoch
  /\ \A g \in granted :
       /\ g.epoch <= job[g.job].lease_epoch
       /\ job[g.job].status = "succeeded" => g.epoch = job[g.job].lease_epoch
       /\ \A c \in late : c.job = g.job => c.epoch <= g.epoch

(* A job is recorded as succeeded only if the handler of its last lease    *)
(* returned a result or committed one itself.  Effects published through   *)
(* commit_result and success are one decision: a job publishes at most     *)
(* once, and then it stays succeeded.                                      *)
SuccessIsEarned ==
  /\ ResultsAreCurrent
  /\ \A j \in Job :
       /\ job[j].status = "succeeded" => completed[j] = job[j].lease_epoch
       /\ published[j] > 0 => published[j] = 1 /\ job[j].status = "succeeded"

(* A cancellation of a running job ends it: the handler stops and the task *)
(* acknowledges, or recovery does it after the process died.               *)
CancelSettles ==
  \A j \in Job : (job[j].status = "running" /\ job[j].cancel_requested)
                   ~> (job[j].status \in JOB_TERMINAL_STATES \cup {"waiting"})

(* Every job that was accepted settles, or is parked for the outside. *)
EveryJobSettles ==
  \A j \in Job : (job[j].status # "absent")
                   ~> (job[j].status \in JOB_TERMINAL_STATES \cup {"waiting", "paused"})
=============================================================================
