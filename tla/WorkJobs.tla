------------------------------ MODULE WorkJobs ------------------------------
(***************************************************************************)
(* The durable job table of the Work Fabric (work_fabric/repository.py).   *)
(*                                                                         *)
(* Every operation below is one BEGIN IMMEDIATE transaction of the         *)
(* repository: it reads the row, checks the caller's lease or revision,    *)
(* updates the row and appends the job's event, all or nothing.  A handler *)
(* proves its right to write with the pair (lease_owner, lease_epoch) it   *)
(* received when it leased the job.                                        *)
(*                                                                         *)
(* Time is relative: lease_left is lease_expires_at minus now and delay is *)
(* available_at minus now, so the clock itself needs no variable.          *)
(***************************************************************************)
EXTENDS Integers

CONSTANTS
  Job,            \* job rows that may be created
  Worker,         \* worker_id values, one per scheduler incarnation
  NoWorker,       \* the empty lease_owner
  MaxAttempts,    \* [Job -> Nat]: max_attempts of each job
  OnLeaseExpiry,  \* [Job -> policy]: retry_policy.on_lease_expiry
  Priority,       \* [Job -> Int]
  LeaseTTL,       \* ticks in lease_ttl_s
  MaxDelay,       \* bound: ticks of the longest retry delay
  MaxRevision     \* bound: revision past which nothing outside interferes

ASSUME JobsAssumption ==
  /\ NoWorker \notin Worker
  /\ MaxAttempts \in [Job -> Nat \ {0}]
  /\ OnLeaseExpiry \in [Job -> {"retry", "fail", "unknown_effect"}]
  /\ Priority \in [Job -> Int]
  /\ LeaseTTL \in Nat \ {0}
  /\ MaxDelay \in Nat
  /\ MaxRevision \in Nat

VARIABLES
  job,      \* [Job -> Row]: table work_job
  ledger    \* [Job -> Event]: the newest work_event of each job aggregate

vars == <<job, ledger>>

JOB_TERMINAL_STATES == {"succeeded", "failed", "cancelled", "unknown_effect"}
JOB_LEASED_STATES == {"leased", "running"}
JOB_STATES == {"queued", "waiting", "paused"}
                \cup JOB_LEASED_STATES \cup JOB_TERMINAL_STATES

NULL == -1      \* lease_expires_at IS NULL

Row == [status: JOB_STATES \cup {"absent"},
        lease_owner: Worker \cup {NoWorker}, lease_epoch: Nat,
        lease_left: {NULL} \cup (0..LeaseTTL), delay: 0..MaxDelay,
        continuation: BOOLEAN, sync_handler: BOOLEAN, attempt: Nat,
        cancel_requested: BOOLEAN, revision: Nat]

Event == [version: Nat, status: JOB_STATES \cup {"absent"}, attempt: Nat,
          continuation: BOOLEAN, cancel_requested: BOOLEAN]

EmptyRow == [status |-> "absent", lease_owner |-> NoWorker, lease_epoch |-> 0,
             lease_left |-> NULL, delay |-> 0, continuation |-> FALSE,
             sync_handler |-> FALSE, attempt |-> 0,
             cancel_requested |-> FALSE, revision |-> 0]

(* _job_payload: what the event of a row says about it. *)
job_payload(r) ==
  [version |-> r.revision, status |-> r.status, attempt |-> r.attempt,
   continuation |-> r.continuation, cancel_requested |-> r.cancel_requested]

JobsInit ==
  /\ job = [j \in Job |-> EmptyRow]
  /\ ledger = [j \in Job |-> job_payload(EmptyRow)]

-----------------------------------------------------------------------------
(* Helpers shared by the transactions. *)

Unleased(r) == [r EXCEPT !.lease_owner = NoWorker, !.lease_left = NULL]
Bump(r) == [r EXCEPT !.revision = @ + 1]

(* UPDATE work_job ... revision=revision+1, then _job_event_tx: the event  *)
(* must extend the aggregate's history by exactly one version, otherwise   *)
(* the transaction is rolled back.                                         *)
Commit(j, r) ==
  /\ ledger[j].version = job[j].revision
  /\ job' = [job EXCEPT ![j] = Bump(r)]
  /\ ledger' = [ledger EXCEPT ![j] = job_payload(Bump(r))]

(* _expect_lease: the caller's (owner, epoch) is the row's live lease. *)
expect_lease(j, w, e, states) ==
  /\ job[j].status \in states
  /\ job[j].lease_owner = w
  /\ job[j].lease_epoch = e
  /\ job[j].lease_left > 0

(* Mutant: continuations need a fresh attempt. *)
Leasable_attempts(j) ==
  /\ job[j].status = "queued"
  /\ job[j].delay = 0
  /\ ~job[j].cancel_requested
  /\ job[j].attempt < MaxAttempts[j]

(* The WHERE clause of lease_next_job. *)
Leasable(j) ==
  /\ job[j].status = "queued"
  /\ job[j].delay = 0
  /\ ~job[j].cancel_requested
  /\ job[j].attempt < MaxAttempts[j] \/ job[j].continuation

(* Rows recover_expired_job_leases selects. *)
LeaseExpired(j) == job[j].status \in JOB_LEASED_STATES /\ job[j].lease_left = 0

-----------------------------------------------------------------------------
(* Operations of any caller. *)

create_job(j) ==
  /\ job[j].status = "absent"
  /\ \E d \in 0..MaxDelay : Commit(j, [job[j] EXCEPT !.status = "queued", !.delay = d])

(* Mutant: the early return for settled jobs is missing. *)
request_job_cancel_settled(j) ==
  /\ job[j].status # "absent"
  /\ ~job[j].cancel_requested
  /\ Commit(j, [job[j] EXCEPT !.cancel_requested = TRUE])

request_job_cancel(j) ==
  LET r == job[j]
      immediate == r.status \in {"queued", "waiting", "paused", "leased"}
  IN /\ r.status \in JOB_STATES \ JOB_TERMINAL_STATES
     /\ ~r.cancel_requested
     /\ Commit(j, IF immediate
                  THEN Unleased([r EXCEPT !.status = "cancelled", !.cancel_requested = TRUE])
                  ELSE [r EXCEPT !.cancel_requested = TRUE])

pause_job(j) ==
  /\ job[j].revision < MaxRevision
  /\ job[j].status \in {"queued", "waiting"}
  /\ Commit(j, [job[j] EXCEPT !.status = "paused"])

wake_job(j) ==
  /\ job[j].revision < MaxRevision
  /\ job[j].status \in {"waiting", "paused"}
  /\ \E d \in 0..MaxDelay :
       Commit(j, [job[j] EXCEPT !.status = "queued", !.delay = d, !.cancel_requested = FALSE])

retry_job(j, reset_attempts) ==
  /\ job[j].revision < MaxRevision
  /\ job[j].status \in {"failed", "unknown_effect"}
  /\ reset_attempts \/ job[j].attempt < MaxAttempts[j]
  /\ \E d \in 0..MaxDelay :
       Commit(j, [job[j] EXCEPT !.status = "queued", !.delay = d, !.continuation = FALSE,
                                !.attempt = IF reset_attempts THEN 0 ELSE @,
                                !.cancel_requested = FALSE])

-----------------------------------------------------------------------------
(* Operations of the scheduler and of the handler that holds a lease. *)

(* Mutant: the new lease reuses the old epoch. *)
lease_next_job_same_epoch(w, j, candidates) ==
  /\ j \in candidates
  /\ Leasable(j)
  /\ Commit(j, [job[j] EXCEPT !.status = "leased", !.lease_owner = w, !.lease_left = LeaseTTL,
                              !.attempt = @ + (IF job[j].continuation THEN 0 ELSE 1)])

(* lease_next_job: candidates are the jobs of eligible kinds the scheduler *)
(* does not exclude; the highest priority is served first.                 *)
lease_next_job(w, j, candidates) ==
  /\ j \in candidates
  /\ Leasable(j)
  /\ \A i \in candidates : Leasable(i) => Priority[i] <= Priority[j]
  /\ Commit(j, [job[j] EXCEPT !.status = "leased", !.lease_owner = w,
                              !.lease_epoch = @ + 1, !.lease_left = LeaseTTL,
                              !.attempt = @ + (IF job[j].continuation THEN 0 ELSE 1)])

start_job(j, w, e, sync) ==
  /\ expect_lease(j, w, e, {"leased"})
  /\ Commit(j, [job[j] EXCEPT !.status = "running", !.continuation = FALSE,
                              !.sync_handler = sync])

(* heartbeat_job renews the lease and writes no event. *)
heartbeat_job(j, w, e) ==
  /\ expect_lease(j, w, e, JOB_LEASED_STATES)
  /\ job' = [job EXCEPT ![j].lease_left = LeaseTTL]
  /\ UNCHANGED ledger

update_job_progress(j, w, e) ==
  /\ job[j].revision < MaxRevision
  /\ expect_lease(j, w, e, JOB_LEASED_STATES) \/ job[j].status \in {"waiting", "paused"}
  /\ Commit(j, job[j])

(* Mutant: the waiting job keeps its lease. *)
mark_job_waiting_leased(j, w, e) ==
  /\ job[j].revision < MaxRevision
  /\ expect_lease(j, w, e, {"running"})
  /\ Commit(j, [job[j] EXCEPT !.status = "waiting", !.continuation = TRUE])

mark_job_waiting(j, w, e) ==
  /\ job[j].revision < MaxRevision
  /\ expect_lease(j, w, e, {"running"})
  /\ Commit(j, Unleased([job[j] EXCEPT !.status = "waiting", !.continuation = TRUE]))

acknowledge_job_cancel(j, w, e) ==
  /\ expect_lease(j, w, e, JOB_LEASED_STATES)
  /\ job[j].cancel_requested
  /\ Commit(j, Unleased([job[j] EXCEPT !.status = "cancelled"]))

(* Mutant: a job that was asked to stop may still succeed. *)
finish_job_despite_cancel(j, w, e, target) ==
  /\ target \in JOB_TERMINAL_STATES
  /\ expect_lease(j, w, e, JOB_LEASED_STATES)
  /\ Commit(j, Unleased([job[j] EXCEPT !.status = target]))

finish_job(j, w, e, target) ==
  /\ target \in JOB_TERMINAL_STATES
  /\ expect_lease(j, w, e, JOB_LEASED_STATES)
  /\ ~(job[j].cancel_requested /\ target = "succeeded")
  /\ Commit(j, Unleased([job[j] EXCEPT !.status = target]))

ReleaseTarget(j, unknown_effect) ==
  CASE job[j].cancel_requested -> "cancelled"
    [] ~job[j].cancel_requested /\ unknown_effect -> "unknown_effect"
    [] ~job[j].cancel_requested /\ ~unknown_effect ->
         IF job[j].attempt < MaxAttempts[j] THEN "queued" ELSE "failed"

release_job(j, w, e, unknown_effect) ==
  /\ expect_lease(j, w, e, JOB_LEASED_STATES)
  /\ job[j].status = "leased" => job[j].revision < MaxRevision
  /\ \E d \in 0..MaxDelay :
       Commit(j, Unleased([job[j] EXCEPT !.status = ReleaseTarget(j, unknown_effect),
                                         !.delay = d]))

-----------------------------------------------------------------------------
(* Recovery: fence expired workers and decide what became of their jobs.   *)

(* Mutant: recovery forgets that a synchronous handler may still run. *)
RecoveryTarget_requeues(j) ==
  IF job[j].cancel_requested THEN "cancelled"
  ELSE IF job[j].attempt < MaxAttempts[j] THEN "queued" ELSE "failed"

(* Mutant: recovery forgets the cancellation. *)
RecoveryTarget_uncancelled(j) ==
  IF job[j].attempt < MaxAttempts[j] THEN "queued" ELSE "unknown_effect"

RecoveryTarget(j) ==
  LET r == job[j]
      again == r.attempt < MaxAttempts[j]
  IN CASE r.cancel_requested -> "cancelled"
       [] ~r.cancel_requested /\ r.status = "leased" ->
            IF again THEN "queued" ELSE "failed"
       [] ~r.cancel_requested /\ r.status # "leased" /\ r.sync_handler -> "unknown_effect"
       [] ~r.cancel_requested /\ r.status # "leased" /\ ~r.sync_handler ->
            CASE OnLeaseExpiry[j] = "retry" /\ again -> "queued"
              [] OnLeaseExpiry[j] = "fail" -> "failed"
              [] OTHER -> "unknown_effect"

Recovered(j, d) ==
  LET target == RecoveryTarget(j)
  IN Bump(Unleased([job[j] EXCEPT
            !.status = target, !.delay = d,
            !.continuation = (job[j].status = "leased" /\ target = "queued")]))

(* All expired rows are reconciled in one transaction. *)
recover_expired_job_leases ==
  /\ \E j \in Job : LeaseExpired(j)
  /\ \A j \in Job : LeaseExpired(j) => ledger[j].version = job[j].revision
  /\ \E d \in 0..MaxDelay :
       /\ job' = [j \in Job |-> IF LeaseExpired(j) THEN Recovered(j, d) ELSE job[j]]
       /\ ledger' = [j \in Job |-> IF LeaseExpired(j) THEN job_payload(Recovered(j, d))
                                                      ELSE ledger[j]]

(* Time: every lease and every delay runs down together.  Only the leases  *)
(* of mayExpire run out in this tick.                                      *)
Countdown(n) == IF n > 0 THEN n - 1 ELSE n

Tick(mayExpire) ==
  /\ \E j \in Job : job[j].lease_left > 0 \/ job[j].delay > 0
  /\ \A j \in Job : job[j].lease_left = 1 => j \in mayExpire
  /\ job' = [j \in Job |-> [job[j] EXCEPT !.lease_left = Countdown(@), !.delay = Countdown(@)]]
  /\ UNCHANGED ledger

-----------------------------------------------------------------------------
LeaseHolderStep(j, w, e) ==
  \/ \E sync \in BOOLEAN : start_job(j, w, e, sync)
  \/ heartbeat_job(j, w, e)
  \/ update_job_progress(j, w, e)
  \/ mark_job_waiting(j, w, e)
  \/ acknowledge_job_cancel(j, w, e)
  \/ \E target \in JOB_TERMINAL_STATES : finish_job(j, w, e, target)
  \/ \E unknown_effect \in BOOLEAN : release_job(j, w, e, unknown_effect)

CallerStep(j) ==
  \/ create_job(j)
  \/ request_job_cancel(j)
  \/ pause_job(j)
  \/ wake_job(j)
  \/ \E reset_attempts \in BOOLEAN : retry_job(j, reset_attempts)

JobsNext ==
  \/ \E j \in Job : CallerStep(j)
  \/ \E w \in Worker, C \in SUBSET Job : \E j \in C : lease_next_job(w, j, C)
  \/ \E j \in Job, w \in Worker : LeaseHolderStep(j, w, job[j].lease_epoch)
  \/ recover_expired_job_leases
  \/ Tick({j \in Job : job[j].revision < MaxRevision})

JobsSpec == JobsInit /\ [][JobsNext]_vars

-----------------------------------------------------------------------------
JobsTypeOK == job \in [Job -> Row] /\ ledger \in [Job -> Event]

(* A lease exists exactly while the job is leased or running: every path   *)
(* out of those states clears lease_owner and lease_expires_at, and no     *)
(* other state carries a leftover lease a stale worker could match.        *)
LeaseMatchesStatus ==
  \A j \in Job :
    /\ (job[j].status \in JOB_LEASED_STATES) <=> (job[j].lease_owner # NoWorker)
    /\ (job[j].status \in JOB_LEASED_STATES) <=> (job[j].lease_left # NULL)

(* max_attempts is never exceeded, although continuations and recovered    *)
(* leases are leased again without counting an attempt.                    *)
AttemptsBounded == \A j \in Job : job[j].attempt <= MaxAttempts[j]

(* A queued job can be leased as soon as its delay is over: no sequence of *)
(* waits, pauses, releases, recoveries and retries leaves a queued row     *)
(* that the WHERE clause of lease_next_job skips for ever.                 *)
QueuedIsLeasable ==
  \A j \in Job : job[j].status = "queued" =>
    /\ ~job[j].cancel_requested
    /\ job[j].attempt < MaxAttempts[j] \/ job[j].continuation

(* The inductive invariant, row by row.  A parked row (queued, waiting or  *)
(* paused) keeps an attempt or a continuation, which is what makes it      *)
(* leasable once it is woken; a row not yet created has used nothing.      *)
RowInv(j, r) ==
  /\ (r.status \in JOB_LEASED_STATES) <=> (r.lease_owner # NoWorker)
  /\ (r.status \in JOB_LEASED_STATES) <=> (r.lease_left # NULL)
  /\ r.attempt <= MaxAttempts[j]
  /\ r.status \in {"queued", "waiting", "paused"} =>
       r.attempt < MaxAttempts[j] \/ r.continuation
  /\ r.status = "queued" => ~r.cancel_requested
  /\ r.status = "absent" => r.attempt = 0 /\ ~r.cancel_requested

(* The newest event of a job describes its row, at the row's revision: no  *)
(* mutation skips its event and no event is written for a change that did  *)
(* not happen, so readers of the event log see every state of the job.     *)
LedgerDescribesRow == \A j \in Job : ledger[j] = job_payload(job[j])

JobsInv ==
  /\ JobsTypeOK
  /\ \A j \in Job : RowInv(j, job[j])
  /\ LedgerDescribesRow

(* What one step may make of a row r, giving s.                            *)
SettledStep(r, s) ==
  (r.status \in JOB_TERMINAL_STATES /\ s # r) =>
    \/ s.status = r.status /\ s.revision = r.revision
    \/ /\ r.status \in {"failed", "unknown_effect"}
       /\ s.status = "queued"
       /\ s.revision = r.revision + 1

EpochStep(r, s) ==
  /\ s.lease_epoch >= r.lease_epoch
  /\ (s.lease_owner # NoWorker /\ s.lease_owner # r.lease_owner)
       => s.lease_epoch > r.lease_epoch

SyncStep(r, s) ==
  (r.status = "running" /\ r.sync_handler /\ r.lease_left <= 0) => s.status # "queued"

(* A settled job stays settled: only an explicit retry_job of a failed or  *)
(* unknown outcome, which bumps the revision, queues it again.             *)
SettledIsFinal == [][\A j \in Job : SettledStep(job[j], job'[j])]_vars

(* Lease epochs fence workers: an epoch, once granted, is never granted    *)
(* again, and a lease passes to a new owner only with a new epoch.         *)
EpochFences == [][\A j \in Job : EpochStep(job[j], job'[j])]_vars

(* A handler that may still be running in a thread is not doubled: a       *)
(* running row with a synchronous handler goes back to the queue only when *)
(* its own handler, whose lease is live, releases it.                      *)
SyncHandlerNotRequeued == [][\A j \in Job : SyncStep(job[j], job'[j])]_vars

-----------------------------------------------------------------------------
(* The life of a job in the terms of JobContract.                          *)

LifePhase(status) ==
  CASE status = "absent" -> "absent"
    [] status = "queued" -> "pending"
    [] status \in {"waiting", "paused"} -> "parked"
    [] status = "leased" -> "granted"
    [] status = "running" -> "executing"
    [] OTHER -> "settled"

LifeOf(r) ==
  [phase |-> LifePhase(r.status),
   outcome |-> IF r.status \in JOB_TERMINAL_STATES THEN r.status ELSE "none",
   grants |-> r.lease_epoch, spent |-> r.attempt,
   free |-> r.continuation, stopping |-> r.cancel_requested]

Contract == INSTANCE JobContract
              WITH Limit <- MaxAttempts, life <- [j \in Job |-> LifeOf(job[j])]

(* The job table implements the contract of the Work Fabric: whatever the  *)
(* interleaving of callers, lease holders, recovery and time, every        *)
(* transaction is one step of the contract's life for the jobs it touches, *)
(* or leaves their lives alone.                                            *)
ImplementsContract == Contract!Spec
=============================================================================
