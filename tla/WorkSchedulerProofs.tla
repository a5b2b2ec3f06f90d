------------------------- MODULE WorkSchedulerProofs -------------------------
(***************************************************************************)
(* Proofs about the durable job table and about the scheduler process over *)
(* it, for any jobs, workers, kinds, limits and any number of processes.   *)
(*                                                                         *)
(* Part I, the job table: its invariant, what no step may do, and the      *)
(* refinement of JobContract.  Every transaction but two replaces one row  *)
(* through Commit, so the proof of the invariant shows that the new row is *)
(* good and lets CommitInv do the rest; recovery and the clock rewrite all *)
(* rows at once.                                                           *)
(*                                                                         *)
(* Part II, the scheduler: Quiet says what a transaction of the job table  *)
(* may do to a row without the scheduler's books being touched; Survive    *)
(* says the same of the tasks.  Nearly every step of the scheduler is both *)
(* quiet and a survival, and the others are taken one by one.              *)
(***************************************************************************)
EXTENDS WorkScheduler, FiniteSetTheorems, FunctionTheorems, TLAPS

(***************************************************************************)
(* Part I.  The durable job table.                                         *)
(***************************************************************************)

(* A row an operation may write: well typed and good for its job.          *)
Good(j, r) == r \in Row /\ RowInv(j, r)

USE DEF JOB_STATES, JOB_LEASED_STATES, JOB_TERMINAL_STATES, NULL

(* The table starts in the invariant. *)
LEMMA JobsInitInv == JobsInit => JobsInv
<1>1. EmptyRow \in Row /\ job_payload(EmptyRow) \in Event
  BY JobsAssumption DEF EmptyRow, job_payload, Row, Event
<1>2. \A j \in Job : RowInv(j, EmptyRow)
  BY JobsAssumption DEF EmptyRow, RowInv
<1>. QED
  BY <1>1, <1>2 DEF JobsInit, JobsInv, JobsTypeOK, LedgerDescribesRow

(* Unleased and Bump keep a row well typed. *)
LEMMA UnleasedRow == \A r \in Row : Unleased(r) \in Row
BY JobsAssumption DEF Row, Unleased

LEMMA BumpGood ==
  ASSUME NEW j \in Job, NEW r, Good(j, r)
  PROVE  Good(j, Bump(r))
<1>1. Bump(r) \in Row
  BY DEF Good, Row, Bump
<1>2. RowInv(j, Bump(r))
  BY DEF Good, RowInv, Row, Bump
<1>. QED
  BY <1>1, <1>2 DEF Good

(* Committing a good row preserves the invariant. *)
LEMMA CommitInv ==
  ASSUME JobsInv, NEW j \in Job, NEW r, Commit(j, r), Good(j, r)
  PROVE  JobsInv'
<1>. Good(j, Bump(r))
  BY BumpGood
<1>1. job' \in [Job -> Row] /\ ledger' \in [Job -> Event]
  <2>1. job_payload(Bump(r)) \in Event
    BY DEF Good, Row, Event, job_payload
  <2>. QED
    BY <2>1 DEF Commit, Good, JobsInv, JobsTypeOK
<1>2. \A i \in Job : RowInv(i, job'[i])
  BY DEF Commit, Good, JobsInv, JobsTypeOK
<1>3. \A i \in Job : ledger'[i] = job_payload(job'[i])
  BY DEF Commit, JobsInv, JobsTypeOK, LedgerDescribesRow
<1>. QED
  BY <1>1, <1>2, <1>3 DEF JobsInv, JobsTypeOK, LedgerDescribesRow

(* What the invariant says of one row. *)
LEMMA RowFacts ==
  ASSUME JobsInv, NEW j \in Job
  PROVE  job[j] \in Row /\ RowInv(j, job[j]) /\ MaxAttempts[j] \in Nat \ {0}
BY JobsAssumption DEF JobsInv, JobsTypeOK

(* The columns of the rows that recovery, a lease, a retry and the clock   *)
(* write.                                                                  *)
LEMMA RecoveredRow ==
  ASSUME NEW x \in Row, NEW t \in JOB_STATES, NEW d \in 0..MaxDelay, NEW c \in BOOLEAN
  PROVE  LET r == [x EXCEPT !.status = t, !.delay = d, !.continuation = c]
         IN  /\ r \in Row /\ r.status = t /\ r.continuation = c
             /\ r.lease_epoch = x.lease_epoch /\ r.attempt = x.attempt
             /\ r.cancel_requested = x.cancel_requested
<1>. HIDE DEF JOB_STATES
<1>. QED
  BY DEF Row

LEMMA DelayedRow ==
  ASSUME NEW x \in Row, NEW t \in JOB_STATES, NEW d \in 0..MaxDelay
  PROVE  [x EXCEPT !.status = t, !.delay = d] \in Row
<1>. HIDE DEF JOB_STATES
<1>. QED
  BY DEF Row

LEMMA WokenRow ==
  ASSUME NEW x \in Row, NEW d \in 0..MaxDelay
  PROVE  [x EXCEPT !.status = "queued", !.delay = d, !.cancel_requested = FALSE] \in Row
<1>1. "queued" \in JOB_STATES
  OBVIOUS
<1>. HIDE DEF JOB_STATES
<1>. QED
  BY <1>1 DEF Row

LEMMA StartedRow ==
  ASSUME NEW x \in Row, NEW sync \in BOOLEAN
  PROVE  [x EXCEPT !.status = "running", !.continuation = FALSE, !.sync_handler = sync] \in Row
<1>1. "running" \in JOB_STATES
  OBVIOUS
<1>. HIDE DEF JOB_STATES
<1>. QED
  BY <1>1 DEF Row

LEMMA WaitingRow ==
  ASSUME NEW x \in Row
  PROVE  [x EXCEPT !.status = "waiting", !.continuation = TRUE] \in Row
<1>1. "waiting" \in JOB_STATES
  OBVIOUS
<1>. HIDE DEF JOB_STATES
<1>. QED
  BY <1>1 DEF Row

LEMMA LeasedRow ==
  ASSUME NEW x \in Row, NEW w \in Worker, NEW e \in Nat, NEW a \in Nat
  PROVE  LET r == [x EXCEPT !.status = "leased", !.lease_owner = w, !.lease_epoch = e,
                            !.lease_left = LeaseTTL, !.attempt = a]
         IN  /\ r \in Row /\ r.status = "leased" /\ r.lease_owner = w
             /\ r.lease_epoch = e /\ r.lease_left = LeaseTTL /\ r.attempt = a
             /\ r.continuation = x.continuation
             /\ r.cancel_requested = x.cancel_requested
<1>1. LeaseTTL \in {NULL} \cup (0..LeaseTTL) /\ "leased" \in JOB_STATES
  BY JobsAssumption
<1>. HIDE DEF JOB_STATES, NULL
<1>. QED
  BY <1>1 DEF Row

LEMMA RetriedRow ==
  ASSUME NEW x \in Row, NEW d \in 0..MaxDelay, NEW a \in Nat
  PROVE  LET r == [x EXCEPT !.status = "queued", !.delay = d, !.continuation = FALSE,
                            !.attempt = a, !.cancel_requested = FALSE]
         IN  /\ r \in Row /\ r.status = "queued" /\ r.cancel_requested = FALSE
             /\ r.attempt = a /\ r.lease_epoch = x.lease_epoch /\ r.continuation = FALSE
<1>1. "queued" \in JOB_STATES
  OBVIOUS
<1>. HIDE DEF JOB_STATES, NULL
<1>. QED
  BY <1>1 DEF Row

LEMMA TickedRow ==
  ASSUME NEW x \in Row, NEW l \in {NULL} \cup (0..LeaseTTL), NEW d \in 0..MaxDelay
  PROVE  [x EXCEPT !.lease_left = l, !.delay = d] \in Row
<1>. HIDE DEF JOB_STATES, NULL
<1>. QED
  BY DEF Row

-----------------------------------------------------------------------------
(* The callers' operations. *)

LEMMA CreateInv ==
  ASSUME JobsInv, NEW j \in Job, create_job(j)
  PROVE  JobsInv'
<1>1. PICK d \in 0..MaxDelay :
        Commit(j, [job[j] EXCEPT !.status = "queued", !.delay = d])
  BY DEF create_job
<1>. DEFINE r == [job[j] EXCEPT !.status = "queued", !.delay = d]
<1>2. r \in Row
  BY RowFacts DEF Row
<1>3. RowInv(j, r)
  BY RowFacts DEF create_job, RowInv, Row
<1>. QED
  BY <1>1, <1>2, <1>3, CommitInv DEF Good

LEMMA CancelInv ==
  ASSUME JobsInv, NEW j \in Job, request_job_cancel(j)
  PROVE  JobsInv'
<1>. DEFINE r == [job[j] EXCEPT !.status = "cancelled", !.cancel_requested = TRUE]
            later == [job[j] EXCEPT !.cancel_requested = TRUE]
            immediate == job[j].status \in {"queued", "waiting", "paused", "leased"}
<1>1. CASE immediate
  <2>1. r \in Row
    BY RowFacts DEF Row
  <2>2. Unleased(r) \in Row
    BY <2>1, UnleasedRow
  <2>3. RowInv(j, Unleased(r))
    BY RowFacts DEF RowInv, Row, Unleased
  <2>4. Commit(j, Unleased(r))
    BY <1>1 DEF request_job_cancel
  <2>. QED
    BY <2>2, <2>3, <2>4, CommitInv DEF Good
<1>2. CASE ~immediate
  <2>1. later \in Row
    BY RowFacts DEF Row
  <2>2. RowInv(j, later)
    BY <1>2, RowFacts DEF request_job_cancel, RowInv, Row
  <2>3. Commit(j, later)
    BY <1>2 DEF request_job_cancel
  <2>. QED
    BY <2>1, <2>2, <2>3, CommitInv DEF Good
<1>. QED
  BY <1>1, <1>2

LEMMA PauseInv ==
  ASSUME JobsInv, NEW j \in Job, pause_job(j)
  PROVE  JobsInv'
<1>. DEFINE r == [job[j] EXCEPT !.status = "paused"]
<1>1. r \in Row
  BY RowFacts DEF Row
<1>2. RowInv(j, r)
  BY RowFacts DEF pause_job, RowInv, Row
<1>. QED
  BY <1>1, <1>2, CommitInv DEF Good, pause_job

LEMMA WakeInv ==
  ASSUME JobsInv, NEW j \in Job, wake_job(j)
  PROVE  JobsInv'
<1>1. PICK d \in 0..MaxDelay :
        Commit(j, [job[j] EXCEPT !.status = "queued", !.delay = d, !.cancel_requested = FALSE])
  BY DEF wake_job
<1>. DEFINE r == [job[j] EXCEPT !.status = "queued", !.delay = d, !.cancel_requested = FALSE]
<1>2. r \in Row
  BY RowFacts, WokenRow
<1>3. RowInv(j, r)
  BY RowFacts DEF wake_job, RowInv, Row
<1>. QED
  BY <1>1, <1>2, <1>3, CommitInv DEF Good

LEMMA RetryInv ==
  ASSUME JobsInv, NEW j \in Job, NEW reset \in BOOLEAN, retry_job(j, reset)
  PROVE  JobsInv'
<1>. DEFINE used == IF reset THEN 0 ELSE job[j].attempt
            r(d) == [job[j] EXCEPT !.status = "queued", !.delay = d, !.continuation = FALSE,
                                   !.attempt = used, !.cancel_requested = FALSE]
<1>0. used \in Nat /\ used < MaxAttempts[j]
  BY RowFacts DEF retry_job, Row
<1>1. PICK d \in 0..MaxDelay : Commit(j, r(d))
  BY DEF retry_job
<1>. HIDE DEF used
<1>2. r(d) \in Row
  BY <1>0, RowFacts, RetriedRow
<1>3. RowInv(j, r(d))
  BY <1>0, RowFacts DEF retry_job, RowInv, Row
<1>. QED
  BY <1>1, <1>2, <1>3, CommitInv DEF Good

-----------------------------------------------------------------------------
(* The operations of the lease and its holder. *)

LEMMA LeaseInv ==
  ASSUME JobsInv, NEW w \in Worker, NEW j \in Job, NEW C, lease_next_job(w, j, C)
  PROVE  JobsInv'
<1>. DEFINE used == job[j].attempt + (IF job[j].continuation THEN 0 ELSE 1)
            epoch == job[j].lease_epoch + 1
            r == [job[j] EXCEPT !.status = "leased", !.lease_owner = w,
                                !.lease_epoch = epoch, !.lease_left = LeaseTTL,
                                !.attempt = used]
<1>0. /\ used \in Nat /\ used <= MaxAttempts[j] /\ epoch \in Nat
      /\ LeaseTTL \in {NULL} \cup (0..LeaseTTL)
  BY RowFacts, JobsAssumption DEF lease_next_job, Leasable, Row, RowInv
<1>1. Commit(j, r)
  BY DEF lease_next_job
<1>. HIDE DEF used, epoch
<1>2. r \in Row
  BY <1>0, RowFacts, LeasedRow
<1>3. RowInv(j, r)
  BY <1>0, RowFacts, JobsAssumption DEF RowInv, Row
<1>. QED
  BY <1>1, <1>2, <1>3, CommitInv DEF Good

LEMMA StartInv ==
  ASSUME JobsInv, NEW j \in Job, NEW w, NEW e, NEW sync \in BOOLEAN, start_job(j, w, e, sync)
  PROVE  JobsInv'
<1>. DEFINE r == [job[j] EXCEPT !.status = "running", !.continuation = FALSE,
                                !.sync_handler = sync]
<1>1. r \in Row
  BY RowFacts, StartedRow
<1>2. RowInv(j, r)
  BY RowFacts DEF start_job, expect_lease, RowInv, Row
<1>. QED
  BY <1>1, <1>2, CommitInv DEF Good, start_job

LEMMA HeartbeatInv ==
  ASSUME JobsInv, NEW j \in Job, NEW w, NEW e, heartbeat_job(j, w, e)
  PROVE  JobsInv'
<1>. DEFINE r == [job[j] EXCEPT !.lease_left = LeaseTTL]
<1>1. r \in Row
  BY RowFacts, JobsAssumption DEF Row
<1>2. RowInv(j, r)
  BY RowFacts, JobsAssumption DEF heartbeat_job, expect_lease, RowInv, Row
<1>3. job_payload(r) = job_payload(job[j])
  BY RowFacts DEF Row, job_payload
<1>4. job' = [job EXCEPT ![j] = r] /\ ledger' = ledger
  BY DEF heartbeat_job
<1>. QED
  BY <1>1, <1>2, <1>3, <1>4 DEF JobsInv, JobsTypeOK, LedgerDescribesRow

LEMMA ProgressInv ==
  ASSUME JobsInv, NEW j \in Job, NEW w, NEW e, update_job_progress(j, w, e)
  PROVE  JobsInv'
BY RowFacts, CommitInv DEF update_job_progress, Good

LEMMA WaitingInv ==
  ASSUME JobsInv, NEW j \in Job, NEW w, NEW e, mark_job_waiting(j, w, e)
  PROVE  JobsInv'
<1>. DEFINE r == [job[j] EXCEPT !.status = "waiting", !.continuation = TRUE]
<1>1. r \in Row
  BY RowFacts, WaitingRow
<1>2. Unleased(r) \in Row
  BY <1>1, UnleasedRow
<1>3. RowInv(j, Unleased(r))
  BY RowFacts DEF RowInv, Row, Unleased
<1>. QED
  BY <1>2, <1>3, CommitInv DEF Good, mark_job_waiting

(* A settled row without a lease is good, whatever the outcome. *)
LEMMA SettledGood ==
  ASSUME JobsInv, NEW j \in Job, NEW target \in JOB_TERMINAL_STATES
  PROVE  Good(j, Unleased([job[j] EXCEPT !.status = target]))
<1>. DEFINE r == [job[j] EXCEPT !.status = target]
<1>1. r \in Row
  BY RowFacts DEF Row
<1>2. Unleased(r) \in Row
  BY <1>1, UnleasedRow
<1>3. RowInv(j, Unleased(r))
  BY RowFacts DEF RowInv, Row, Unleased
<1>. QED
  BY <1>2, <1>3 DEF Good

LEMMA AckInv ==
  ASSUME JobsInv, NEW j \in Job, NEW w, NEW e, acknowledge_job_cancel(j, w, e)
  PROVE  JobsInv'
BY SettledGood, CommitInv DEF acknowledge_job_cancel

LEMMA FinishInv ==
  ASSUME JobsInv, NEW j \in Job, NEW w, NEW e, NEW target, finish_job(j, w, e, target)
  PROVE  JobsInv'
BY SettledGood, CommitInv DEF finish_job

LEMMA ReleaseInv ==
  ASSUME JobsInv, NEW j \in Job, NEW w, NEW e, NEW unknown \in BOOLEAN,
         release_job(j, w, e, unknown)
  PROVE  JobsInv'
<1>. DEFINE t == ReleaseTarget(j, unknown)
            r(d) == [job[j] EXCEPT !.status = t, !.delay = d]
<1>0. /\ t \in JOB_TERMINAL_STATES \cup {"queued"}
      /\ t = "queued" => ~job[j].cancel_requested /\ job[j].attempt < MaxAttempts[j]
  BY RowFacts DEF ReleaseTarget, Row
<1>1. PICK d \in 0..MaxDelay : Commit(j, Unleased(r(d)))
  BY DEF release_job
<1>. HIDE DEF t
<1>2. r(d) \in Row
  BY <1>0, RowFacts, DelayedRow
<1>3. Unleased(r(d)) \in Row
  BY <1>2, UnleasedRow
<1>4. RowInv(j, Unleased(r(d)))
  BY <1>0, RowFacts DEF RowInv, Row, Unleased
<1>. QED
  BY <1>1, <1>3, <1>4, CommitInv DEF Good

-----------------------------------------------------------------------------
(* Recovery and the clock, which rewrite the whole table. *)

LEMMA RecoveredGood ==
  ASSUME JobsInv, NEW j \in Job, NEW d \in 0..MaxDelay
  PROVE  Good(j, Recovered(j, d))
<1>. DEFINE t == RecoveryTarget(j)
            r == [job[j] EXCEPT !.status = t, !.delay = d,
                                !.continuation = (job[j].status = "leased" /\ t = "queued")]
<1>0. /\ t \in JOB_TERMINAL_STATES \cup {"queued"}
      /\ t = "queued" => ~job[j].cancel_requested /\ job[j].attempt < MaxAttempts[j]
  BY RowFacts DEF RecoveryTarget, Row
<1>1. Recovered(j, d) = Bump(Unleased(r))
  BY DEF Recovered
<1>. HIDE DEF t
<1>2. r \in Row
  BY <1>0, RowFacts, RecoveredRow
<1>3. Unleased(r) \in Row
  BY <1>2, UnleasedRow
<1>4. RowInv(j, Unleased(r))
  BY <1>0, RowFacts DEF RowInv, Row, Unleased
<1>. QED
  BY <1>1, <1>3, <1>4, BumpGood DEF Good

LEMMA RecoverInv ==
  ASSUME JobsInv, recover_expired_job_leases
  PROVE  JobsInv'
<1>1. PICK d \in 0..MaxDelay :
        /\ job' = [j \in Job |-> IF LeaseExpired(j) THEN Recovered(j, d) ELSE job[j]]
        /\ ledger' = [j \in Job |-> IF LeaseExpired(j) THEN job_payload(Recovered(j, d))
                                                       ELSE ledger[j]]
  BY DEF recover_expired_job_leases
<1>2. \A j \in Job : Recovered(j, d) \in Row /\ RowInv(j, Recovered(j, d))
  BY RecoveredGood DEF Good
<1>3. \A r \in Row : job_payload(r) \in Event
  BY DEF Row, Event, job_payload
<1>. QED
  BY <1>1, <1>2, <1>3 DEF JobsInv, JobsTypeOK, LedgerDescribesRow

LEMMA TickInv ==
  ASSUME JobsInv, NEW E, Tick(E)
  PROVE  JobsInv'
<1>. DEFINE r(j) == [job[j] EXCEPT !.lease_left = Countdown(@), !.delay = Countdown(@)]
<1>1. ASSUME NEW j \in Job
      PROVE  r(j) \in Row /\ RowInv(j, r(j)) /\ job_payload(r(j)) = job_payload(job[j])
  <2>1. /\ Countdown(job[j].lease_left) \in {NULL} \cup (0..LeaseTTL)
        /\ Countdown(job[j].lease_left) = NULL <=> job[j].lease_left = NULL
        /\ Countdown(job[j].delay) \in 0..MaxDelay
    BY RowFacts, JobsAssumption DEF Row, Countdown
  <2>2. r(j) \in Row
    BY <2>1, RowFacts, TickedRow
  <2>3. RowInv(j, r(j))
    BY <2>1, RowFacts DEF Row, RowInv
  <2>4. job_payload(r(j)) = job_payload(job[j])
    BY RowFacts DEF Row, job_payload
  <2>. QED
    BY <2>2, <2>3, <2>4
<1>2. job' = [j \in Job |-> r(j)] /\ ledger' = ledger
  BY DEF Tick
<1>. HIDE DEF r
<1>. QED
  BY <1>1, <1>2 DEF JobsInv, JobsTypeOK, LedgerDescribesRow

-----------------------------------------------------------------------------
(* Every step of the table preserves the invariant. *)
LEMMA JobsNextInv == JobsInv /\ [JobsNext]_vars => JobsInv'
<1>. SUFFICES ASSUME JobsInv, [JobsNext]_vars PROVE JobsInv'
  OBVIOUS
<1>1. ASSUME NEW j \in Job, CallerStep(j) PROVE JobsInv'
  BY <1>1, CreateInv, CancelInv, PauseInv, WakeInv, RetryInv DEF CallerStep
<1>2. ASSUME NEW w \in Worker, NEW C \in SUBSET Job, NEW j \in C, lease_next_job(w, j, C)
      PROVE  JobsInv'
  BY <1>2, LeaseInv
<1>3. ASSUME NEW j \in Job, NEW w \in Worker, LeaseHolderStep(j, w, job[j].lease_epoch)
      PROVE  JobsInv'
  BY <1>3, StartInv, HeartbeatInv, ProgressInv, WaitingInv, AckInv, FinishInv, ReleaseInv
     DEF LeaseHolderStep
<1>4. CASE UNCHANGED vars
  BY <1>4 DEF vars, JobsInv, JobsTypeOK, LedgerDescribesRow
<1>. QED
  BY <1>1, <1>2, <1>3, <1>4, RecoverInv, TickInv DEF JobsNext

(* The inductive invariant holds of every reachable job table, for any     *)
(* number of jobs and workers, any retry limits and any lease length.      *)
THEOREM JobsInvariant == JobsSpec => []JobsInv
BY JobsInitInv, JobsNextInv, PTL DEF JobsSpec

(* Rows and events of repository.py are always well formed. *)
THEOREM JobsTypeCorrect == JobsSpec => []JobsTypeOK
<1>1. JobsInv => JobsTypeOK
  BY DEF JobsInv
<1>. QED
  BY <1>1, JobsInvariant, PTL

(* _expect_lease can only match the lease of a leased or running row. *)
THEOREM LeaseCorrect == JobsSpec => []LeaseMatchesStatus
<1>1. JobsInv => LeaseMatchesStatus
  BY DEF JobsInv, RowInv, LeaseMatchesStatus
<1>. QED
  BY <1>1, JobsInvariant, PTL

(* max_attempts bounds the attempts of every job. *)
THEOREM AttemptsCorrect == JobsSpec => []AttemptsBounded
<1>1. JobsInv => AttemptsBounded
  BY DEF JobsInv, RowInv, AttemptsBounded
<1>. QED
  BY <1>1, JobsInvariant, PTL

(* No queued row is invisible to lease_next_job for ever. *)
THEOREM QueuedCorrect == JobsSpec => []QueuedIsLeasable
<1>1. JobsInv => QueuedIsLeasable
  BY DEF JobsInv, RowInv, QueuedIsLeasable
<1>. QED
  BY <1>1, JobsInvariant, PTL

(* The event log always describes the newest state of every job. *)
THEOREM LedgerCorrect == JobsSpec => []LedgerDescribesRow
<1>1. JobsInv => LedgerDescribesRow
  BY DEF JobsInv
<1>. QED
  BY <1>1, JobsInvariant, PTL

-----------------------------------------------------------------------------
(* What no step may do to a row.                                           *)
Allowed(r, s) == SettledStep(r, s) /\ EpochStep(r, s) /\ SyncStep(r, s)

(* A row that stays as it is. *)
LEMMA SameAllowed == \A r \in Row : Allowed(r, r)
BY DEF Allowed, SettledStep, EpochStep, SyncStep, Row

(* A transaction that commits an allowed row touches no other row.         *)
LEMMA CommitAllowed ==
  ASSUME JobsInv, NEW j \in Job, NEW r, Commit(j, r), Allowed(job[j], Bump(r))
  PROVE  \A i \in Job : Allowed(job[i], job'[i])
BY SameAllowed DEF Commit, JobsInv, JobsTypeOK

(* A row that was not settled, keeps its epoch, keeps or drops its lease,  *)
(* and, if its lease had run out, is not queued from running.              *)
LEMMA KeptEpochAllowed ==
  ASSUME JobsInv, NEW j \in Job, NEW r \in Row,
         job[j].status \notin JOB_TERMINAL_STATES,
         r.lease_epoch = job[j].lease_epoch,
         r.lease_owner \in {NoWorker, job[j].lease_owner},
         job[j].status = "running" /\ job[j].lease_left <= 0 => r.status # "queued"
  PROVE  Allowed(job[j], Bump(r))
<1>1. /\ Bump(r).lease_epoch = r.lease_epoch /\ Bump(r).lease_owner = r.lease_owner
      /\ Bump(r).status = r.status
  BY DEF Bump, Row
<1>. QED
  BY <1>1, RowFacts DEF Allowed, SettledStep, EpochStep, SyncStep, Row

(* Giving a lease up changes the owner and the expiry only. *)
LEMMA UnleasedFields ==
  ASSUME NEW r \in Row
  PROVE  /\ Unleased(r) \in Row
         /\ Unleased(r).lease_epoch = r.lease_epoch
         /\ Unleased(r).lease_owner = NoWorker
         /\ Unleased(r).status = r.status
BY UnleasedRow DEF Row, Unleased

(* The callers' operations are allowed. *)
LEMMA CallerAllowed ==
  ASSUME JobsInv, NEW j \in Job, CallerStep(j)
  PROVE  \A i \in Job : Allowed(job[i], job'[i])
<1>1. CASE create_job(j)
  <2>1. PICK d \in 0..MaxDelay :
          Commit(j, [job[j] EXCEPT !.status = "queued", !.delay = d])
    BY <1>1 DEF create_job
  <2>. DEFINE r == [job[j] EXCEPT !.status = "queued", !.delay = d]
  <2>2. /\ r \in Row /\ r.lease_epoch = job[j].lease_epoch
        /\ r.lease_owner = job[j].lease_owner
    BY RowFacts DEF Row
  <2>3. job[j].status = "absent"
    BY <1>1 DEF create_job
  <2>4. Allowed(job[j], Bump(r))
    BY <2>2, <2>3, KeptEpochAllowed
  <2>. QED
    BY <2>1, <2>4, CommitAllowed
<1>2. CASE request_job_cancel(j)
  <2>. DEFINE now == [job[j] EXCEPT !.status = "cancelled", !.cancel_requested = TRUE]
              later == [job[j] EXCEPT !.cancel_requested = TRUE]
  <2>1. job[j].status \notin JOB_TERMINAL_STATES
    BY <1>2 DEF request_job_cancel
  <2>2. /\ now \in Row /\ now.lease_epoch = job[j].lease_epoch
        /\ later \in Row /\ later.lease_epoch = job[j].lease_epoch
        /\ later.lease_owner = job[j].lease_owner
        /\ now.status = "cancelled" /\ later.status = job[j].status
    BY RowFacts DEF Row
  <2>. HIDE DEF now, later
  <2>3. /\ Unleased(now) \in Row /\ Unleased(now).lease_epoch = job[j].lease_epoch
        /\ Unleased(now).lease_owner = NoWorker /\ Unleased(now).status = "cancelled"
    BY <2>2, UnleasedFields
  <2>4. Allowed(job[j], Bump(Unleased(now))) /\ Allowed(job[j], Bump(later))
    BY <2>1, <2>2, <2>3, KeptEpochAllowed
  <2>5. Commit(j, Unleased(now)) \/ Commit(j, later)
    BY <1>2 DEF request_job_cancel, now, later
  <2>. QED
    BY <2>4, <2>5, CommitAllowed
<1>3. CASE pause_job(j)
  <2>. DEFINE r == [job[j] EXCEPT !.status = "paused"]
  <2>1. /\ r \in Row /\ r.lease_epoch = job[j].lease_epoch
        /\ r.lease_owner = job[j].lease_owner
    BY RowFacts DEF Row
  <2>2. job[j].status \in {"queued", "waiting"} /\ Commit(j, r)
    BY <1>3 DEF pause_job
  <2>3. Allowed(job[j], Bump(r))
    BY <2>1, <2>2, KeptEpochAllowed
  <2>. QED
    BY <2>2, <2>3, CommitAllowed
<1>4. CASE wake_job(j)
  <2>1. PICK d \in 0..MaxDelay :
          Commit(j, [job[j] EXCEPT !.status = "queued", !.delay = d, !.cancel_requested = FALSE])
    BY <1>4 DEF wake_job
  <2>. DEFINE r == [job[j] EXCEPT !.status = "queued", !.delay = d, !.cancel_requested = FALSE]
  <2>2. /\ r \in Row /\ r.lease_epoch = job[j].lease_epoch
        /\ r.lease_owner = job[j].lease_owner
    BY RowFacts DEF Row
  <2>3. job[j].status \in {"waiting", "paused"}
    BY <1>4 DEF wake_job
  <2>4. Allowed(job[j], Bump(r))
    BY <2>2, <2>3, KeptEpochAllowed
  <2>. QED
    BY <2>1, <2>4, CommitAllowed
<1>5. ASSUME NEW reset \in BOOLEAN, retry_job(j, reset)
      PROVE  \A i \in Job : Allowed(job[i], job'[i])
  <2>. DEFINE used == IF reset THEN 0 ELSE job[j].attempt
              r(d) == [job[j] EXCEPT !.status = "queued", !.delay = d, !.continuation = FALSE,
                                     !.attempt = used, !.cancel_requested = FALSE]
  <2>1. PICK d \in 0..MaxDelay : Commit(j, r(d))
    BY <1>5 DEF retry_job
  <2>2. job[j].status \in {"failed", "unknown_effect"}
    BY <1>5 DEF retry_job
  <2>. HIDE DEF used
  <2>3. /\ Bump(r(d)).status = "queued"
        /\ Bump(r(d)).revision = job[j].revision + 1
        /\ Bump(r(d)).lease_epoch = job[j].lease_epoch
        /\ Bump(r(d)).lease_owner = job[j].lease_owner
    BY RowFacts DEF Row, Bump
  <2>4. Allowed(job[j], Bump(r(d)))
    BY <2>2, <2>3, RowFacts DEF Allowed, SettledStep, EpochStep, SyncStep, Row
  <2>. QED
    BY <2>1, <2>4, CommitAllowed
<1>. QED
  BY <1>1, <1>2, <1>3, <1>4, <1>5 DEF CallerStep

(* Granting a lease is allowed: it takes a new epoch. *)
LEMMA LeaseAllowed ==
  ASSUME JobsInv, NEW w \in Worker, NEW j \in Job, NEW C, lease_next_job(w, j, C)
  PROVE  \A i \in Job : Allowed(job[i], job'[i])
<1>. DEFINE used == job[j].attempt + (IF job[j].continuation THEN 0 ELSE 1)
            r == [job[j] EXCEPT !.status = "leased", !.lease_owner = w,
                                !.lease_epoch = @ + 1, !.lease_left = LeaseTTL,
                                !.attempt = used]
<1>1. Commit(j, r) /\ job[j].status = "queued"
  BY DEF lease_next_job, Leasable
<1>. HIDE DEF used
<1>2. Bump(r).status = "leased" /\ Bump(r).lease_epoch = job[j].lease_epoch + 1
  BY RowFacts DEF Row, Bump
<1>3. Allowed(job[j], Bump(r))
  BY <1>1, <1>2, RowFacts DEF Allowed, SettledStep, EpochStep, SyncStep, Row
<1>. QED
  BY <1>1, <1>3, CommitAllowed

(* A lease holder writes under a live lease, so whatever row it commits    *)
(* with the epoch kept and the lease kept or dropped is allowed.           *)
LEMMA HolderCommitAllowed ==
  ASSUME JobsInv, NEW j \in Job, NEW w, NEW e, NEW r \in Row,
         expect_lease(j, w, e, JOB_LEASED_STATES),
         r.lease_epoch = job[j].lease_epoch,
         r.lease_owner \in {NoWorker, job[j].lease_owner},
         Commit(j, r)
  PROVE  \A i \in Job : Allowed(job[i], job'[i])
<1>1. job[j].status \notin JOB_TERMINAL_STATES /\ ~(job[j].lease_left <= 0)
  BY RowFacts DEF expect_lease, Row
<1>. QED
  BY <1>1, KeptEpochAllowed, CommitAllowed

LEMMA HolderAllowed ==
  ASSUME JobsInv, NEW j \in Job, NEW w \in Worker, NEW e, LeaseHolderStep(j, w, e)
  PROVE  \A i \in Job : Allowed(job[i], job'[i])
<1>1. ASSUME NEW sync \in BOOLEAN, start_job(j, w, e, sync)
      PROVE  \A i \in Job : Allowed(job[i], job'[i])
  <2>. DEFINE r == [job[j] EXCEPT !.status = "running", !.continuation = FALSE,
                                  !.sync_handler = sync]
  <2>1. /\ r \in Row /\ r.lease_epoch = job[j].lease_epoch
        /\ r.lease_owner = job[j].lease_owner
    BY RowFacts DEF Row
  <2>2. expect_lease(j, w, e, JOB_LEASED_STATES) /\ Commit(j, r)
    BY <1>1 DEF start_job, expect_lease
  <2>. QED
    BY <2>1, <2>2, HolderCommitAllowed
<1>2. CASE heartbeat_job(j, w, e)
  <2>. DEFINE r == [job[j] EXCEPT !.lease_left = LeaseTTL]
  <2>1. /\ r.status = job[j].status /\ r.revision = job[j].revision
        /\ r.lease_epoch = job[j].lease_epoch /\ r.lease_owner = job[j].lease_owner
    BY RowFacts DEF Row
  <2>2. job' = [job EXCEPT ![j] = r]
    BY <1>2 DEF heartbeat_job
  <2>. HIDE DEF r
  <2>3. Allowed(job[j], r)
    BY <2>1, RowFacts DEF Allowed, SettledStep, EpochStep, SyncStep, Row
  <2>. QED
    BY <2>2, <2>3, SameAllowed DEF JobsInv, JobsTypeOK
<1>3. CASE update_job_progress(j, w, e)
  <2>1. job[j].status \in JOB_LEASED_STATES \cup {"waiting", "paused"} /\ Commit(j, job[j])
    BY <1>3 DEF update_job_progress, expect_lease
  <2>2. Allowed(job[j], Bump(job[j]))
    BY <2>1, RowFacts, KeptEpochAllowed
  <2>. QED
    BY <2>1, <2>2, CommitAllowed
<1>4. CASE mark_job_waiting(j, w, e)
  <2>. DEFINE r == [job[j] EXCEPT !.status = "waiting", !.continuation = TRUE]
  <2>1. r \in Row /\ r.lease_epoch = job[j].lease_epoch
    BY RowFacts DEF Row
  <2>2. expect_lease(j, w, e, JOB_LEASED_STATES) /\ Commit(j, Unleased(r))
    BY <1>4 DEF mark_job_waiting, expect_lease
  <2>. HIDE DEF r
  <2>. QED
    BY <2>1, <2>2, UnleasedFields, HolderCommitAllowed
<1>5. ASSUME NEW target \in JOB_TERMINAL_STATES, expect_lease(j, w, e, JOB_LEASED_STATES),
             Commit(j, Unleased([job[j] EXCEPT !.status = target]))
      PROVE  \A i \in Job : Allowed(job[i], job'[i])
  <2>. DEFINE r == [job[j] EXCEPT !.status = target]
  <2>1. r \in Row /\ r.lease_epoch = job[j].lease_epoch
    BY RowFacts DEF Row
  <2>2. Commit(j, Unleased(r))
    BY <1>5
  <2>. HIDE DEF r
  <2>. QED
    BY <1>5, <2>1, <2>2, UnleasedFields, HolderCommitAllowed
<1>6. ASSUME NEW unknown \in BOOLEAN, release_job(j, w, e, unknown)
      PROVE  \A i \in Job : Allowed(job[i], job'[i])
  <2>. DEFINE t == ReleaseTarget(j, unknown)
              r(d) == [job[j] EXCEPT !.status = t, !.delay = d]
  <2>1. t \in JOB_STATES
    BY RowFacts DEF ReleaseTarget, Row
  <2>2. PICK d \in 0..MaxDelay : Commit(j, Unleased(r(d)))
    BY <1>6 DEF release_job
  <2>3. expect_lease(j, w, e, JOB_LEASED_STATES)
    BY <1>6 DEF release_job
  <2>. HIDE DEF t
  <2>4. r(d) \in Row
    BY <2>1, RowFacts, DelayedRow
  <2>5. r(d).lease_epoch = job[j].lease_epoch
    BY RowFacts DEF Row
  <2>. HIDE DEF r
  <2>. QED
    BY <2>2, <2>3, <2>4, <2>5, UnleasedFields, HolderCommitAllowed
<1>7. CASE acknowledge_job_cancel(j, w, e)
  BY <1>5, <1>7 DEF acknowledge_job_cancel
<1>8. ASSUME NEW target \in JOB_TERMINAL_STATES, finish_job(j, w, e, target)
      PROVE  \A i \in Job : Allowed(job[i], job'[i])
  BY <1>5, <1>8 DEF finish_job
<1>. QED
  BY <1>1, <1>2, <1>3, <1>4, <1>6, <1>7, <1>8 DEF LeaseHolderStep

(* Recovery rewrites only rows whose lease ran out, and holds a running    *)
(* row with a synchronous handler back from the queue.                     *)
LEMMA RecoverAllowed ==
  ASSUME JobsInv, recover_expired_job_leases
  PROVE  \A i \in Job : Allowed(job[i], job'[i])
<1>1. PICK d \in 0..MaxDelay :
        job' = [j \in Job |-> IF LeaseExpired(j) THEN Recovered(j, d) ELSE job[j]]
  BY DEF recover_expired_job_leases
<1>2. ASSUME NEW j \in Job, LeaseExpired(j)
      PROVE  Allowed(job[j], Recovered(j, d))
  <2>. DEFINE t == RecoveryTarget(j)
              r == [job[j] EXCEPT !.status = t, !.delay = d,
                                  !.continuation = (job[j].status = "leased" /\ t = "queued")]
  <2>1. /\ t \in JOB_TERMINAL_STATES \cup {"queued"}
        /\ job[j].status = "running" /\ job[j].sync_handler => t # "queued"
    BY RowFacts DEF RecoveryTarget, Row
  <2>2. Recovered(j, d) = Bump(Unleased(r))
    BY DEF Recovered
  <2>. HIDE DEF t
  <2>3. r \in Row
    BY <2>1, RowFacts, RecoveredRow
  <2>4. r.lease_epoch = job[j].lease_epoch /\ r.status = t
    BY RowFacts DEF Row
  <2>. HIDE DEF r
  <2>5. /\ Bump(Unleased(r)).lease_epoch = job[j].lease_epoch
        /\ Bump(Unleased(r)).lease_owner = NoWorker
        /\ Bump(Unleased(r)).status = t
    BY <2>3, <2>4, UnleasedFields DEF Bump, Row
  <2>. QED
    BY <1>2, <2>1, <2>2, <2>5, RowFacts
       DEF LeaseExpired, Allowed, SettledStep, EpochStep, SyncStep, Row
<1>. QED
  BY <1>1, <1>2, SameAllowed DEF JobsInv, JobsTypeOK

(* The clock changes no status, epoch, owner or revision. *)
LEMMA TickAllowed ==
  ASSUME JobsInv, NEW E, Tick(E)
  PROVE  \A i \in Job : Allowed(job[i], job'[i])
<1>. DEFINE r(j) == [job[j] EXCEPT !.lease_left = Countdown(@), !.delay = Countdown(@)]
<1>1. ASSUME NEW j \in Job
      PROVE  /\ r(j).status = job[j].status /\ r(j).revision = job[j].revision
             /\ r(j).lease_epoch = job[j].lease_epoch
             /\ r(j).lease_owner = job[j].lease_owner
  BY RowFacts DEF Row
<1>2. job' = [j \in Job |-> r(j)]
  BY DEF Tick
<1>. HIDE DEF r
<1>3. ASSUME NEW j \in Job PROVE Allowed(job[j], r(j))
  BY <1>1, RowFacts DEF Allowed, SettledStep, EpochStep, SyncStep, Row
<1>. QED
  BY <1>2, <1>3

(* No step of the table does what is not allowed. *)
LEMMA JobsNextAllowed ==
  JobsInv /\ [JobsNext]_vars => \A i \in Job : Allowed(job[i], job'[i])
<1>. SUFFICES ASSUME JobsInv, [JobsNext]_vars
              PROVE  \A i \in Job : Allowed(job[i], job'[i])
  OBVIOUS
<1>1. ASSUME NEW w \in Worker, NEW C \in SUBSET Job, NEW j \in C, lease_next_job(w, j, C)
      PROVE  \A i \in Job : Allowed(job[i], job'[i])
  BY <1>1, LeaseAllowed
<1>2. CASE UNCHANGED vars
  BY <1>2, SameAllowed DEF vars, JobsInv, JobsTypeOK
<1>. QED
  BY <1>1, <1>2, CallerAllowed, HolderAllowed, RecoverAllowed, TickAllowed DEF JobsNext

(* Only retry_job takes a job out of a terminal state, and never out of    *)
(* succeeded or cancelled, whatever lease holders, cancellations, recovery *)
(* and the clock do.                                                       *)
THEOREM SettledCorrect == JobsSpec => SettledIsFinal
<1>1. JobsInv /\ [JobsNext]_vars => [\A j \in Job : SettledStep(job[j], job'[j])]_vars
  BY JobsNextAllowed DEF Allowed
<1>. QED
  BY <1>1, JobsInvariant, PTL DEF JobsSpec, SettledIsFinal

(* The pair (lease_owner, lease_epoch) of _expect_lease is never granted   *)
(* twice, so a worker that lost its lease can never match a later one.     *)
THEOREM EpochCorrect == JobsSpec => EpochFences
<1>1. JobsInv /\ [JobsNext]_vars => [\A j \in Job : EpochStep(job[j], job'[j])]_vars
  BY JobsNextAllowed DEF Allowed
<1>. QED
  BY <1>1, JobsInvariant, PTL DEF JobsSpec, EpochFences

(* Recovery never queues a job whose synchronous handler may still run.    *)
THEOREM SyncCorrect == JobsSpec => SyncHandlerNotRequeued
<1>1. JobsInv /\ [JobsNext]_vars => [\A j \in Job : SyncStep(job[j], job'[j])]_vars
  BY JobsNextAllowed DEF Allowed
<1>. QED
  BY <1>1, JobsInvariant, PTL DEF JobsSpec, SyncHandlerNotRequeued

-----------------------------------------------------------------------------
(* The refinement of JobContract.  The provers do not see through a record *)
(* with several fields replaced, so a step of the contract is recognised   *)
(* by the fields it changes and those it keeps.                            *)

(* Two lives that agree on every field are one. *)
LEMMA SameLife ==
  ASSUME NEW a \in Contract!Life, NEW b \in Contract!Life,
         a.phase = b.phase, a.outcome = b.outcome, a.grants = b.grants,
         a.spent = b.spent, a.free = b.free, a.stopping = b.stopping
  PROVE  a = b
BY DEF Contract!Life

(* A grant: pending, not stopping, paid for unless free, within the limit. *)
LEMMA GrantByFields ==
  ASSUME NEW j, NEW a \in Contract!Life, NEW b \in Contract!Life,
         a.phase = "pending", ~a.stopping, b.phase = "granted",
         b.grants = a.grants + 1, b.spent = a.spent + (IF a.free THEN 0 ELSE 1),
         b.spent <= MaxAttempts[j],
         b.outcome = a.outcome, b.free = a.free, b.stopping = a.stopping
  PROVE  Contract!Grant(j, a, b)
<1>. DEFINE g == a.grants + 1
            s == a.spent + (IF a.free THEN 0 ELSE 1)
            c == [a EXCEPT !.phase = "granted", !.grants = g, !.spent = s]
<1>1. g \in Nat /\ s \in Nat
  BY DEF Contract!Life
<1>2. b.grants = g /\ b.spent = s
  OBVIOUS
<1>. HIDE DEF g, s
<1>3. /\ c \in Contract!Life /\ c.phase = "granted" /\ c.grants = g /\ c.spent = s
      /\ c.outcome = a.outcome /\ c.free = a.free /\ c.stopping = a.stopping
  BY <1>1 DEF Contract!Life
<1>. HIDE DEF c
<1>4. b = c
  BY <1>2, <1>3, SameLife
<1>. QED
  BY <1>4 DEF Contract!Grant, c, g, s

(* Handing back a job that can pay for another grant, or need not. *)
LEMMA RequeueByFields ==
  ASSUME NEW j, NEW a \in Contract!Life, NEW b \in Contract!Life,
         a.phase \in {"granted", "executing"}, ~a.stopping, b.phase = "pending",
         b.free \/ b.spent < MaxAttempts[j],
         b.outcome = a.outcome, b.grants = a.grants, b.spent = a.spent,
         b.stopping = a.stopping
  PROVE  Contract!Requeue(j, a, b)
<1>. DEFINE f == b.free
            c == [a EXCEPT !.phase = "pending", !.free = f]
<1>1. f \in BOOLEAN
  BY DEF Contract!Life
<1>. HIDE DEF f
<1>2. /\ c \in Contract!Life /\ c.phase = "pending" /\ c.free = f
      /\ c.outcome = a.outcome /\ c.grants = a.grants /\ c.spent = a.spent
      /\ c.stopping = a.stopping
  BY <1>1 DEF Contract!Life
<1>. HIDE DEF c
<1>3. b = c
  BY <1>2, SameLife DEF f
<1>. QED
  BY <1>1, <1>3 DEF Contract!Requeue, c

LEMMA BeginByFields ==
  ASSUME NEW a \in Contract!Life, NEW b \in Contract!Life,
         a.phase = "granted", b.phase = "executing", b.free = FALSE,
         b.outcome = a.outcome, b.grants = a.grants, b.spent = a.spent,
         b.stopping = a.stopping
  PROVE  Contract!Begin(a, b)
<1>. DEFINE c == [a EXCEPT !.phase = "executing", !.free = FALSE]
<1>1. /\ c \in Contract!Life /\ c.phase = "executing" /\ c.free = FALSE
      /\ c.outcome = a.outcome /\ c.grants = a.grants /\ c.spent = a.spent
      /\ c.stopping = a.stopping
  BY DEF Contract!Life
<1>. HIDE DEF c
<1>2. b = c
  BY <1>1, SameLife
<1>. QED
  BY <1>2 DEF Contract!Begin, c

LEMMA SuspendByFields ==
  ASSUME NEW a \in Contract!Life, NEW b \in Contract!Life,
         a.phase = "executing", b.phase = "parked", b.free = TRUE,
         b.outcome = a.outcome, b.grants = a.grants, b.spent = a.spent,
         b.stopping = a.stopping
  PROVE  Contract!Suspend(a, b)
<1>. DEFINE c == [a EXCEPT !.phase = "parked", !.free = TRUE]
<1>1. /\ c \in Contract!Life /\ c.phase = "parked" /\ c.free = TRUE
      /\ c.outcome = a.outcome /\ c.grants = a.grants /\ c.spent = a.spent
      /\ c.stopping = a.stopping
  BY DEF Contract!Life
<1>. HIDE DEF c
<1>2. b = c
  BY <1>1, SameLife
<1>. QED
  BY <1>2 DEF Contract!Suspend, c

LEMMA WakeByFields ==
  ASSUME NEW a \in Contract!Life, NEW b \in Contract!Life,
         a.phase = "parked", b.phase = "pending", b.stopping = FALSE,
         b.outcome = a.outcome, b.grants = a.grants, b.spent = a.spent, b.free = a.free
  PROVE  Contract!Wake(a, b)
<1>. DEFINE c == [a EXCEPT !.phase = "pending", !.stopping = FALSE]
<1>1. /\ c \in Contract!Life /\ c.phase = "pending" /\ c.stopping = FALSE
      /\ c.outcome = a.outcome /\ c.grants = a.grants /\ c.spent = a.spent /\ c.free = a.free
  BY DEF Contract!Life
<1>. HIDE DEF c
<1>2. b = c
  BY <1>1, SameLife
<1>. QED
  BY <1>2 DEF Contract!Wake, c

(* A cancellation that settles a job which does not execute. *)
LEMMA CancelByFields ==
  ASSUME NEW a \in Contract!Life, NEW b \in Contract!Life,
         a.phase \in {"pending", "parked", "granted"}, ~a.stopping,
         b.phase = "settled", b.outcome = "cancelled", b.stopping = TRUE,
         b.grants = a.grants, b.spent = a.spent, b.free = a.free
  PROVE  Contract!Cancel(a, b)
<1>. DEFINE c == [a EXCEPT !.phase = "settled", !.outcome = "cancelled", !.stopping = TRUE]
<1>1. /\ c \in Contract!Life /\ c.phase = "settled" /\ c.outcome = "cancelled"
      /\ c.stopping = TRUE /\ c.grants = a.grants /\ c.spent = a.spent /\ c.free = a.free
  BY DEF Contract!Life, Contract!Outcome
<1>. HIDE DEF c
<1>2. b = c
  BY <1>1, SameLife
<1>. QED
  BY <1>2 DEF Contract!Cancel, c

(* Settling: the outcome is any but success after a cancellation. *)
LEMMA SettleByFields ==
  ASSUME NEW a \in Contract!Life, NEW b \in Contract!Life,
         a.phase \in {"granted", "executing"}, b.phase = "settled",
         b.outcome \in Contract!Outcome, a.stopping => b.outcome # "succeeded",
         b.grants = a.grants, b.spent = a.spent, b.stopping = a.stopping
  PROVE  Contract!Settle(a, b)
<1>. DEFINE o == b.outcome
            f == b.free
            c == [a EXCEPT !.phase = "settled", !.outcome = o, !.free = f]
<1>1. o \in Contract!Outcome /\ f \in BOOLEAN
  BY DEF Contract!Life
<1>. HIDE DEF o, f
<1>2. /\ c \in Contract!Life /\ c.phase = "settled" /\ c.outcome = o /\ c.free = f
      /\ c.grants = a.grants /\ c.spent = a.spent /\ c.stopping = a.stopping
  BY <1>1 DEF Contract!Life
<1>. HIDE DEF c
<1>3. b = c
  BY <1>2, SameLife DEF o, f
<1>. QED
  BY <1>1, <1>3 DEF Contract!Settle, c, o

LEMMA ReopenByFields ==
  ASSUME NEW j, NEW a \in Contract!Life, NEW b \in Contract!Life,
         a.phase = "settled", a.outcome \in {"failed", "unknown_effect"},
         b.phase = "pending", b.outcome = "none", b.free = FALSE, b.stopping = FALSE,
         b.spent \in {0, a.spent}, b.spent < MaxAttempts[j], b.grants = a.grants
  PROVE  Contract!Reopen(j, a, b)
<1>. DEFINE n == b.spent
            c == [a EXCEPT !.phase = "pending", !.outcome = "none", !.spent = n,
                           !.free = FALSE, !.stopping = FALSE]
<1>1. n \in Nat
  BY DEF Contract!Life
<1>. HIDE DEF n
<1>2. /\ c \in Contract!Life /\ c.phase = "pending" /\ c.outcome = "none" /\ c.spent = n
      /\ c.free = FALSE /\ c.stopping = FALSE /\ c.grants = a.grants
  BY <1>1 DEF Contract!Life
<1>. HIDE DEF c
<1>3. b = c
  BY <1>2, SameLife DEF n
<1>. QED
  BY <1>3 DEF Contract!Reopen, c, n

(* In the contract's terms, row s is row r or one step of its life later. *)
Follows(j, r, s) == LifeOf(s) = LifeOf(r) \/ Contract!JobStep(j, LifeOf(r), LifeOf(s))

(* The phase of each status of a row that exists. *)
LEMMA Phases ==
  /\ LifePhase("queued") = "pending"
  /\ LifePhase("waiting") = "parked" /\ LifePhase("paused") = "parked"
  /\ LifePhase("leased") = "granted" /\ LifePhase("running") = "executing"
  /\ \A s \in JOB_TERMINAL_STATES : LifePhase(s) = "settled"
BY DEF LifePhase

(* A row tells a life of the contract, and its revision does not matter. *)
LEMMA LifeOfRow ==
  ASSUME NEW r \in Row
  PROVE  LifeOf(r) \in Contract!Life /\ LifeOf(Bump(r)) = LifeOf(r)
<1>0. LifePhase(r.status) \in {"absent", "pending", "parked", "granted", "executing", "settled"}
  BY DEF LifePhase
<1>1. LifeOf(r) \in Contract!Life
  BY <1>0 DEF Row, LifeOf, Contract!Life, Contract!Outcome
<1>2. LifeOf(Bump(r)) = LifeOf(r)
  BY DEF Row, Bump, LifeOf
<1>. QED
  BY <1>1, <1>2

(* The fields of a life. *)
LEMMA LifeFields ==
  ASSUME NEW r
  PROVE  /\ LifeOf(r).phase = LifePhase(r.status)
         /\ LifeOf(r).outcome = IF r.status \in JOB_TERMINAL_STATES THEN r.status ELSE "none"
         /\ LifeOf(r).grants = r.lease_epoch /\ LifeOf(r).spent = r.attempt
         /\ LifeOf(r).free = r.continuation /\ LifeOf(r).stopping = r.cancel_requested
BY DEF LifeOf

(* The same steps, told by the columns of the rows before and after.       *)

(* lease_next_job. *)
LEMMA GrantRows ==
  ASSUME NEW j, NEW x \in Row, NEW r \in Row,
         x.status = "queued", ~x.cancel_requested, r.status = "leased",
         r.lease_epoch = x.lease_epoch + 1,
         r.attempt = x.attempt + (IF x.continuation THEN 0 ELSE 1),
         r.attempt <= MaxAttempts[j],
         r.continuation = x.continuation, r.cancel_requested = x.cancel_requested
  PROVE  Contract!Grant(j, LifeOf(x), LifeOf(r))
<1>1. LifeOf(x) \in Contract!Life /\ LifeOf(r) \in Contract!Life
  BY LifeOfRow
<1>2. LifeOf(x).phase = "pending" /\ LifeOf(r).phase = "granted"
  BY LifeFields, Phases
<1>3. LifeOf(x).outcome = "none" /\ LifeOf(r).outcome = "none"
  BY LifeFields
<1>4. /\ ~LifeOf(x).stopping /\ LifeOf(r).stopping = LifeOf(x).stopping
      /\ LifeOf(r).grants = LifeOf(x).grants + 1 /\ LifeOf(r).free = LifeOf(x).free
      /\ LifeOf(r).spent = LifeOf(x).spent + (IF LifeOf(x).free THEN 0 ELSE 1)
      /\ LifeOf(r).spent <= MaxAttempts[j]
  BY LifeFields
<1>. QED
  BY ONLY <1>1, <1>2, <1>3, <1>4, GrantByFields

(* start_job. *)
LEMMA BeginRows ==
  ASSUME NEW x \in Row, NEW r \in Row,
         x.status = "leased", r.status = "running", r.continuation = FALSE,
         r.lease_epoch = x.lease_epoch, r.attempt = x.attempt,
         r.cancel_requested = x.cancel_requested
  PROVE  Contract!Begin(LifeOf(x), LifeOf(r))
<1>1. LifeOf(x) \in Contract!Life /\ LifeOf(r) \in Contract!Life
  BY LifeOfRow
<1>2. LifeOf(x).phase = "granted" /\ LifeOf(r).phase = "executing"
  BY LifeFields, Phases
<1>3. LifeOf(x).outcome = "none" /\ LifeOf(r).outcome = "none"
  BY LifeFields
<1>4. /\ LifeOf(r).grants = LifeOf(x).grants /\ LifeOf(r).spent = LifeOf(x).spent
      /\ LifeOf(r).free = FALSE /\ LifeOf(r).stopping = LifeOf(x).stopping
  BY LifeFields
<1>. QED
  BY ONLY <1>1, <1>2, <1>3, <1>4, BeginByFields

(* mark_job_waiting. *)
LEMMA SuspendRows ==
  ASSUME NEW x \in Row, NEW r \in Row,
         x.status = "running", r.status = "waiting", r.continuation = TRUE,
         r.lease_epoch = x.lease_epoch, r.attempt = x.attempt,
         r.cancel_requested = x.cancel_requested
  PROVE  Contract!Suspend(LifeOf(x), LifeOf(r))
<1>1. LifeOf(x) \in Contract!Life /\ LifeOf(r) \in Contract!Life
  BY LifeOfRow
<1>2. LifeOf(x).phase = "executing" /\ LifeOf(r).phase = "parked"
  BY LifeFields, Phases
<1>3. LifeOf(x).outcome = "none" /\ LifeOf(r).outcome = "none"
  BY LifeFields
<1>4. /\ LifeOf(r).grants = LifeOf(x).grants /\ LifeOf(r).spent = LifeOf(x).spent
      /\ LifeOf(r).free = TRUE /\ LifeOf(r).stopping = LifeOf(x).stopping
  BY LifeFields
<1>. QED
  BY ONLY <1>1, <1>2, <1>3, <1>4, SuspendByFields

(* wake_job. *)
LEMMA WakeRows ==
  ASSUME NEW x \in Row, NEW r \in Row,
         x.status \in {"waiting", "paused"}, r.status = "queued", r.cancel_requested = FALSE,
         r.lease_epoch = x.lease_epoch, r.attempt = x.attempt,
         r.continuation = x.continuation
  PROVE  Contract!Wake(LifeOf(x), LifeOf(r))
<1>1. LifeOf(x) \in Contract!Life /\ LifeOf(r) \in Contract!Life
  BY LifeOfRow
<1>2. LifeOf(x).phase = "parked" /\ LifeOf(r).phase = "pending"
  BY LifeFields, Phases
<1>3. LifeOf(x).outcome = "none" /\ LifeOf(r).outcome = "none"
  BY LifeFields
<1>4. /\ LifeOf(r).grants = LifeOf(x).grants /\ LifeOf(r).spent = LifeOf(x).spent
      /\ LifeOf(r).free = LifeOf(x).free /\ LifeOf(r).stopping = FALSE
  BY LifeFields
<1>. QED
  BY ONLY <1>1, <1>2, <1>3, <1>4, WakeByFields

(* request_job_cancel of a job that does not execute. *)
LEMMA CancelRows ==
  ASSUME NEW x \in Row, NEW r \in Row,
         x.status \in {"queued", "waiting", "paused", "leased"}, ~x.cancel_requested,
         r.status = "cancelled", r.cancel_requested = TRUE,
         r.lease_epoch = x.lease_epoch, r.attempt = x.attempt,
         r.continuation = x.continuation
  PROVE  Contract!Cancel(LifeOf(x), LifeOf(r))
<1>1. LifeOf(x) \in Contract!Life /\ LifeOf(r) \in Contract!Life
  BY LifeOfRow
<1>2. /\ LifeOf(x).phase \in {"pending", "parked", "granted"}
      /\ LifeOf(r).phase = "settled"
  BY LifeFields, Phases
<1>3. LifeOf(r).outcome = "cancelled"
  BY LifeFields
<1>4. /\ LifeOf(r).grants = LifeOf(x).grants /\ LifeOf(r).spent = LifeOf(x).spent
      /\ LifeOf(r).free = LifeOf(x).free /\ LifeOf(r).stopping = TRUE
      /\ ~LifeOf(x).stopping
  BY LifeFields
<1>. QED
  BY ONLY <1>1, <1>2, <1>3, <1>4, CancelByFields

(* request_job_cancel of a job that executes. *)
LEMMA StopRows ==
  ASSUME NEW x \in Row, NEW r \in Row,
         x.status = "running", ~x.cancel_requested,
         r.status = "running", r.cancel_requested = TRUE,
         r.lease_epoch = x.lease_epoch, r.attempt = x.attempt,
         r.continuation = x.continuation
  PROVE  Contract!Cancel(LifeOf(x), LifeOf(r))
<1>. DEFINE c == [LifeOf(x) EXCEPT !.stopping = TRUE]
<1>1. LifeOf(x) \in Contract!Life /\ LifeOf(r) \in Contract!Life
  BY LifeOfRow
<1>2. c \in Contract!Life
  BY <1>1 DEF Contract!Life
<1>3. /\ c.phase = LifeOf(x).phase /\ c.outcome = LifeOf(x).outcome
      /\ c.grants = LifeOf(x).grants /\ c.spent = LifeOf(x).spent
      /\ c.free = LifeOf(x).free /\ c.stopping = TRUE
  BY <1>1 DEF Contract!Life
<1>. HIDE DEF c
<1>4. LifeOf(r) = c
  <2>1. /\ LifeOf(r).phase = c.phase /\ LifeOf(r).outcome = c.outcome
        /\ LifeOf(r).grants = c.grants /\ LifeOf(r).spent = c.spent
    BY <1>3, LifeFields
  <2>2. LifeOf(r).free = c.free /\ LifeOf(r).stopping = c.stopping
    BY <1>3, LifeFields
  <2>. QED
    BY ONLY <1>1, <1>2, <2>1, <2>2 DEF Contract!Life
<1>5. LifeOf(x).phase = "executing" /\ ~LifeOf(x).stopping
  BY LifeFields, Phases
<1>. QED
  BY <1>4, <1>5 DEF Contract!Cancel, c

(* finish_job, acknowledge_job_cancel, release_job and recovery. *)
LEMMA SettleRows ==
  ASSUME NEW x \in Row, NEW r \in Row,
         x.status \in JOB_LEASED_STATES, r.status \in JOB_TERMINAL_STATES,
         x.cancel_requested => r.status # "succeeded",
         r.lease_epoch = x.lease_epoch, r.attempt = x.attempt,
         r.cancel_requested = x.cancel_requested
  PROVE  Contract!Settle(LifeOf(x), LifeOf(r))
<1>1. LifeOf(x) \in Contract!Life /\ LifeOf(r) \in Contract!Life
  BY LifeOfRow
<1>2. LifeOf(x).phase \in {"granted", "executing"} /\ LifeOf(r).phase = "settled"
  BY LifeFields, Phases
<1>3. /\ LifeOf(r).outcome \in Contract!Outcome
      /\ LifeOf(x).stopping => LifeOf(r).outcome # "succeeded"
  BY LifeFields DEF Contract!Outcome
<1>4. /\ LifeOf(r).grants = LifeOf(x).grants /\ LifeOf(r).spent = LifeOf(x).spent
      /\ LifeOf(r).stopping = LifeOf(x).stopping
  BY LifeFields
<1>. QED
  BY ONLY <1>1, <1>2, <1>3, <1>4, SettleByFields

(* release_job and recovery, back to the queue. *)
LEMMA RequeueRows ==
  ASSUME NEW j, NEW x \in Row, NEW r \in Row,
         x.status \in JOB_LEASED_STATES, ~x.cancel_requested, r.status = "queued",
         r.attempt < MaxAttempts[j], r.lease_epoch = x.lease_epoch, r.attempt = x.attempt,
         r.cancel_requested = x.cancel_requested
  PROVE  Contract!Requeue(j, LifeOf(x), LifeOf(r))
<1>1. LifeOf(x) \in Contract!Life /\ LifeOf(r) \in Contract!Life
  BY LifeOfRow
<1>2. LifeOf(x).phase \in {"granted", "executing"} /\ LifeOf(r).phase = "pending"
  BY LifeFields, Phases
<1>3. LifeOf(x).outcome = "none" /\ LifeOf(r).outcome = "none"
  BY LifeFields
<1>4. /\ LifeOf(r).grants = LifeOf(x).grants /\ LifeOf(r).spent = LifeOf(x).spent
      /\ LifeOf(r).stopping = LifeOf(x).stopping
      /\ ~LifeOf(x).stopping /\ LifeOf(r).spent < MaxAttempts[j]
  BY LifeFields
<1>. QED
  BY ONLY <1>1, <1>2, <1>3, <1>4, RequeueByFields

(* retry_job. *)
LEMMA ReopenRows ==
  ASSUME NEW j, NEW x \in Row, NEW r \in Row,
         x.status \in {"failed", "unknown_effect"}, r.status = "queued",
         r.attempt \in {0, x.attempt}, r.attempt < MaxAttempts[j],
         r.lease_epoch = x.lease_epoch, r.continuation = FALSE, r.cancel_requested = FALSE
  PROVE  Contract!Reopen(j, LifeOf(x), LifeOf(r))
<1>1. LifeOf(x) \in Contract!Life /\ LifeOf(r) \in Contract!Life
  BY LifeOfRow
<1>2. LifeOf(x).phase = "settled" /\ LifeOf(r).phase = "pending"
  BY LifeFields, Phases
<1>3. /\ LifeOf(x).outcome \in {"failed", "unknown_effect"}
      /\ LifeOf(r).outcome = "none"
  BY LifeFields
<1>4. /\ LifeOf(r).grants = LifeOf(x).grants /\ LifeOf(r).free = FALSE
      /\ LifeOf(r).stopping = FALSE /\ LifeOf(r).spent \in {0, LifeOf(x).spent}
      /\ LifeOf(r).spent < MaxAttempts[j]
  BY LifeFields
<1>. QED
  BY ONLY <1>1, <1>2, <1>3, <1>4, ReopenByFields

(* Committing a row that follows the old one moves no other life. *)
LEMMA CommitFollows ==
  ASSUME JobsInv, NEW j \in Job, NEW r \in Row, Commit(j, r), Follows(j, job[j], r)
  PROVE  \A i \in Job : Follows(i, job[i], job'[i])
<1>1. Follows(j, job[j], Bump(r))
  BY LifeOfRow DEF Follows
<1>. QED
  BY <1>1 DEF Commit, JobsInv, JobsTypeOK, Follows

(* The callers submit, cancel, pause, wake and reopen. *)
LEMMA CallerFollows ==
  ASSUME JobsInv, NEW j \in Job, CallerStep(j)
  PROVE  \A i \in Job : Follows(i, job[i], job'[i])
<1>1. CASE create_job(j)
  <2>1. PICK d \in 0..MaxDelay :
          Commit(j, [job[j] EXCEPT !.status = "queued", !.delay = d])
    BY <1>1 DEF create_job
  <2>. DEFINE r == [job[j] EXCEPT !.status = "queued", !.delay = d]
  <2>2. r \in Row
    BY RowFacts DEF Row
  <2>3. Contract!Submit(LifeOf(job[j]), LifeOf(r))
    BY <1>1, RowFacts DEF create_job, Contract!Submit, LifeOf, LifePhase, Row
  <2>. QED
    BY <2>1, <2>2, <2>3, CommitFollows DEF Follows, Contract!JobStep
<1>2. CASE request_job_cancel(j)
  <2>. DEFINE now == [job[j] EXCEPT !.status = "cancelled", !.cancel_requested = TRUE]
              later == [job[j] EXCEPT !.cancel_requested = TRUE]
              immediate == job[j].status \in {"queued", "waiting", "paused", "leased"}
  <2>1. now \in Row /\ later \in Row
    BY RowFacts DEF Row
  <2>4. Unleased(now) \in Row
    BY <2>1, UnleasedRow
  <2>2. CASE immediate
    <3>1. /\ Unleased(now).status = "cancelled" /\ Unleased(now).cancel_requested = TRUE
          /\ Unleased(now).lease_epoch = job[j].lease_epoch
          /\ Unleased(now).attempt = job[j].attempt
          /\ Unleased(now).continuation = job[j].continuation
      BY RowFacts DEF Row, Unleased
    <3>2. ~job[j].cancel_requested /\ Commit(j, Unleased(now))
      BY <1>2, <2>2 DEF request_job_cancel
    <3>. HIDE DEF now
    <3>3. Contract!Cancel(LifeOf(job[j]), LifeOf(Unleased(now)))
      BY <2>4, <2>2, <3>1, <3>2, RowFacts, CancelRows
    <3>. QED
      BY <2>4, <3>2, <3>3, CommitFollows DEF Follows, Contract!JobStep
  <2>3. CASE ~immediate
    <3>1. /\ job[j].status = "running" /\ ~job[j].cancel_requested /\ Commit(j, later)
      BY <1>2, <2>3 DEF request_job_cancel
    <3>2. /\ later.status = job[j].status /\ later.cancel_requested = TRUE
          /\ later.lease_epoch = job[j].lease_epoch /\ later.attempt = job[j].attempt
          /\ later.continuation = job[j].continuation
      BY RowFacts DEF Row
    <3>. HIDE DEF later
    <3>3. Contract!Cancel(LifeOf(job[j]), LifeOf(later))
      BY <2>1, <3>1, <3>2, RowFacts, StopRows
    <3>. QED
      BY <2>1, <3>1, <3>3, CommitFollows DEF Follows, Contract!JobStep
  <2>. QED
    BY <2>2, <2>3
<1>3. CASE pause_job(j)
  <2>. DEFINE r == [job[j] EXCEPT !.status = "paused"]
  <2>1. r \in Row
    BY RowFacts DEF Row
  <2>2. Contract!Pause(LifeOf(job[j]), LifeOf(r))
    BY <1>3, RowFacts DEF pause_job, Contract!Pause, LifeOf, LifePhase, Row
  <2>. QED
    BY <1>3, <2>1, <2>2, CommitFollows DEF pause_job, Follows, Contract!JobStep
<1>4. CASE wake_job(j)
  <2>1. PICK d \in 0..MaxDelay :
          Commit(j, [job[j] EXCEPT !.status = "queued", !.delay = d, !.cancel_requested = FALSE])
    BY <1>4 DEF wake_job
  <2>. DEFINE r == [job[j] EXCEPT !.status = "queued", !.delay = d, !.cancel_requested = FALSE]
  <2>2. r \in Row
    BY RowFacts, WokenRow
  <2>3. job[j].status \in {"waiting", "paused"}
    BY <1>4 DEF wake_job
  <2>4. /\ r.status = "queued" /\ r.cancel_requested = FALSE /\ r.attempt = job[j].attempt
        /\ r.lease_epoch = job[j].lease_epoch /\ r.continuation = job[j].continuation
    BY RowFacts DEF Row
  <2>. HIDE DEF r
  <2>5. Contract!Wake(LifeOf(job[j]), LifeOf(r))
    BY <2>2, <2>3, <2>4, RowFacts, WakeRows
  <2>. USE DEF r
  <2>. QED
    BY <2>1, <2>2, <2>5, CommitFollows DEF Follows, Contract!JobStep
<1>5. ASSUME NEW reset \in BOOLEAN, retry_job(j, reset)
      PROVE  \A i \in Job : Follows(i, job[i], job'[i])
  <2>. DEFINE used == IF reset THEN 0 ELSE job[j].attempt
              r(d) == [job[j] EXCEPT !.status = "queued", !.delay = d, !.continuation = FALSE,
                                     !.attempt = used, !.cancel_requested = FALSE]
  <2>1. /\ used \in Nat /\ used < MaxAttempts[j] /\ used \in {0, job[j].attempt}
        /\ job[j].status \in {"failed", "unknown_effect"}
    BY <1>5, RowFacts DEF retry_job, Row
  <2>2. PICK d \in 0..MaxDelay : Commit(j, r(d))
    BY <1>5 DEF retry_job
  <2>. HIDE DEF used
  <2>3. r(d) \in Row
    BY <2>1, RowFacts, RetriedRow
  <2>4. /\ r(d).status = "queued" /\ r(d).cancel_requested = FALSE /\ r(d).attempt = used
        /\ r(d).lease_epoch = job[j].lease_epoch /\ r(d).continuation = FALSE
    BY RowFacts DEF Row
  <2>. HIDE DEF r
  <2>5. Contract!Reopen(j, LifeOf(job[j]), LifeOf(r(d)))
    BY <2>1, <2>3, <2>4, RowFacts, ReopenRows
  <2>. QED
    BY <2>2, <2>3, <2>5, CommitFollows DEF Follows, Contract!JobStep
<1>. QED
  BY <1>1, <1>2, <1>3, <1>4, <1>5 DEF CallerStep

(* Granting a lease is a grant of the contract, paid for or continued. *)
LEMMA LeaseFollows ==
  ASSUME JobsInv, NEW w \in Worker, NEW j \in Job, NEW C, lease_next_job(w, j, C)
  PROVE  \A i \in Job : Follows(i, job[i], job'[i])
<1>. DEFINE used == job[j].attempt + (IF job[j].continuation THEN 0 ELSE 1)
            epoch == job[j].lease_epoch + 1
            r == [job[j] EXCEPT !.status = "leased", !.lease_owner = w,
                                !.lease_epoch = epoch, !.lease_left = LeaseTTL,
                                !.attempt = used]
<1>1. /\ used \in Nat /\ used <= MaxAttempts[j] /\ epoch \in Nat
      /\ LeaseTTL \in {NULL} \cup (0..LeaseTTL)
      /\ job[j].status = "queued" /\ ~job[j].cancel_requested
  BY RowFacts, JobsAssumption DEF lease_next_job, Leasable, Row, RowInv
<1>2. Commit(j, r)
  BY DEF lease_next_job
<1>. HIDE DEF used, epoch
<1>3. r \in Row
  BY <1>1, RowFacts, LeasedRow
<1>4. /\ r.status = "leased" /\ r.attempt = used /\ r.lease_epoch = epoch
      /\ r.continuation = job[j].continuation /\ r.cancel_requested = job[j].cancel_requested
  BY RowFacts DEF Row
<1>. HIDE DEF r
<1>5. Contract!Grant(j, LifeOf(job[j]), LifeOf(r))
  BY <1>1, <1>3, <1>4, RowFacts, GrantRows DEF used, epoch
<1>. QED
  BY <1>2, <1>3, <1>5, CommitFollows DEF Follows, Contract!JobStep

(* Ending an execution under a live lease settles the job, and it does not *)
(* succeed once it was asked to stop.                                      *)
LEMMA SettleFollows ==
  ASSUME JobsInv, NEW j \in Job, NEW target \in JOB_TERMINAL_STATES, NEW r \in Row,
         job[j].status \in JOB_LEASED_STATES,
         r.status = target, r.lease_epoch = job[j].lease_epoch, r.attempt = job[j].attempt,
         r.cancel_requested = job[j].cancel_requested,
         job[j].cancel_requested => target # "succeeded"
  PROVE  Follows(j, job[j], r)
<1>1. Contract!Settle(LifeOf(job[j]), LifeOf(r))
  BY RowFacts, SettleRows
<1>. QED
  BY <1>1 DEF Follows, Contract!JobStep

(* Handing a leased or running job back that can pay for another grant. *)
LEMMA RequeueFollows ==
  ASSUME JobsInv, NEW j \in Job, NEW r \in Row,
         job[j].status \in JOB_LEASED_STATES, ~job[j].cancel_requested,
         job[j].attempt < MaxAttempts[j],
         r.status = "queued", r.lease_epoch = job[j].lease_epoch, r.attempt = job[j].attempt,
         r.cancel_requested = job[j].cancel_requested
  PROVE  Follows(j, job[j], r)
<1>1. Contract!Requeue(j, LifeOf(job[j]), LifeOf(r))
  BY RowFacts, RequeueRows
<1>. QED
  BY <1>1 DEF Follows, Contract!JobStep

(* What Unleased keeps of a row besides its epoch and status. *)
LEMMA UnleasedLife ==
  ASSUME NEW r \in Row
  PROVE  /\ Unleased(r).attempt = r.attempt
         /\ Unleased(r).cancel_requested = r.cancel_requested
BY DEF Row, Unleased

(* A lease holder begins, reports, suspends and ends the execution. *)
LEMMA HolderFollows ==
  ASSUME JobsInv, NEW j \in Job, NEW w \in Worker, NEW e, LeaseHolderStep(j, w, e)
  PROVE  \A i \in Job : Follows(i, job[i], job'[i])
<1>1. ASSUME NEW sync \in BOOLEAN, start_job(j, w, e, sync)
      PROVE  \A i \in Job : Follows(i, job[i], job'[i])
  <2>. DEFINE r == [job[j] EXCEPT !.status = "running", !.continuation = FALSE,
                                  !.sync_handler = sync]
  <2>1. r \in Row
    BY RowFacts, StartedRow
  <2>2. /\ job[j].status = "leased" /\ r.status = "running" /\ r.continuation = FALSE
        /\ r.lease_epoch = job[j].lease_epoch /\ r.attempt = job[j].attempt
        /\ r.cancel_requested = job[j].cancel_requested
    BY <1>1, RowFacts DEF start_job, expect_lease, Row
  <2>. HIDE DEF r
  <2>3. Contract!Begin(LifeOf(job[j]), LifeOf(r))
    BY <2>1, <2>2, RowFacts, BeginRows
  <2>. USE DEF r
  <2>. QED
    BY <1>1, <2>1, <2>3, CommitFollows DEF start_job, Follows, Contract!JobStep
<1>2. CASE heartbeat_job(j, w, e)
  <2>. DEFINE r == [job[j] EXCEPT !.lease_left = LeaseTTL]
  <2>1. LifeOf(r) = LifeOf(job[j])
    BY RowFacts DEF LifeOf, Row
  <2>2. job' = [job EXCEPT ![j] = r]
    BY <1>2 DEF heartbeat_job
  <2>. HIDE DEF r
  <2>. QED
    BY <2>1, <2>2 DEF JobsInv, JobsTypeOK, Follows
<1>3. CASE update_job_progress(j, w, e)
  BY <1>3, RowFacts, CommitFollows DEF update_job_progress, Follows
<1>4. CASE mark_job_waiting(j, w, e)
  <2>. DEFINE r == [job[j] EXCEPT !.status = "waiting", !.continuation = TRUE]
  <2>1. r \in Row
    BY RowFacts, WaitingRow
  <2>2. Unleased(r) \in Row
    BY <2>1, UnleasedRow
  <2>3. job[j].status = "running"
    BY <1>4 DEF mark_job_waiting, expect_lease
  <2>4. /\ Unleased(r).status = "waiting" /\ Unleased(r).continuation = TRUE
        /\ Unleased(r).lease_epoch = job[j].lease_epoch
        /\ Unleased(r).attempt = job[j].attempt
        /\ Unleased(r).cancel_requested = job[j].cancel_requested
    BY RowFacts DEF Row, Unleased
  <2>. HIDE DEF r
  <2>5. Contract!Suspend(LifeOf(job[j]), LifeOf(Unleased(r)))
    BY <2>2, <2>3, <2>4, RowFacts, SuspendRows
  <2>. USE DEF r
  <2>. QED
    BY <1>4, <2>2, <2>5, CommitFollows DEF mark_job_waiting, Follows, Contract!JobStep
<1>5. ASSUME NEW target \in JOB_TERMINAL_STATES, expect_lease(j, w, e, JOB_LEASED_STATES),
             job[j].cancel_requested => target # "succeeded",
             Commit(j, Unleased([job[j] EXCEPT !.status = target]))
      PROVE  \A i \in Job : Follows(i, job[i], job'[i])
  <2>. DEFINE r == [job[j] EXCEPT !.status = target]
  <2>1. /\ r \in Row /\ r.status = target /\ r.lease_epoch = job[j].lease_epoch
        /\ r.attempt = job[j].attempt /\ r.cancel_requested = job[j].cancel_requested
    BY RowFacts DEF Row
  <2>2. Commit(j, Unleased(r))
    BY <1>5
  <2>. HIDE DEF r
  <2>3. Follows(j, job[j], Unleased(r))
    BY <1>5, <2>1, UnleasedFields, UnleasedLife, SettleFollows DEF expect_lease
  <2>. QED
    BY <2>1, <2>2, <2>3, UnleasedRow, CommitFollows
<1>6. ASSUME NEW unknown \in BOOLEAN, release_job(j, w, e, unknown)
      PROVE  \A i \in Job : Follows(i, job[i], job'[i])
  <2>. DEFINE t == ReleaseTarget(j, unknown)
              r(d) == [job[j] EXCEPT !.status = t, !.delay = d]
  <2>1. /\ t \in (JOB_TERMINAL_STATES \ {"succeeded"}) \cup {"queued"}
        /\ t = "queued" => ~job[j].cancel_requested /\ job[j].attempt < MaxAttempts[j]
    BY RowFacts DEF ReleaseTarget, Row
  <2>2. PICK d \in 0..MaxDelay : Commit(j, Unleased(r(d)))
    BY <1>6 DEF release_job
  <2>3. job[j].status \in JOB_LEASED_STATES
    BY <1>6 DEF release_job, expect_lease
  <2>. HIDE DEF t
  <2>4. /\ r(d) \in Row /\ r(d).status = t /\ r(d).lease_epoch = job[j].lease_epoch
        /\ r(d).attempt = job[j].attempt /\ r(d).cancel_requested = job[j].cancel_requested
    BY <2>1, RowFacts DEF Row
  <2>. HIDE DEF r
  <2>5. Follows(j, job[j], Unleased(r(d)))
    BY <2>1, <2>3, <2>4, UnleasedFields, UnleasedLife, SettleFollows, RequeueFollows
  <2>. QED
    BY <2>2, <2>4, <2>5, UnleasedRow, CommitFollows
<1>7. CASE acknowledge_job_cancel(j, w, e)
  BY <1>5, <1>7 DEF acknowledge_job_cancel
<1>8. ASSUME NEW target \in JOB_TERMINAL_STATES, finish_job(j, w, e, target)
      PROVE  \A i \in Job : Follows(i, job[i], job'[i])
  BY <1>5, <1>8 DEF finish_job
<1>. QED
  BY <1>1, <1>2, <1>3, <1>4, <1>6, <1>7, <1>8 DEF LeaseHolderStep

(* Recovery settles or hands back every job whose lease ran out. *)
LEMMA RecoverFollows ==
  ASSUME JobsInv, recover_expired_job_leases
  PROVE  \A i \in Job : Follows(i, job[i], job'[i])
<1>1. PICK d \in 0..MaxDelay :
        job' = [j \in Job |-> IF LeaseExpired(j) THEN Recovered(j, d) ELSE job[j]]
  BY DEF recover_expired_job_leases
<1>2. ASSUME NEW j \in Job, LeaseExpired(j)
      PROVE  Follows(j, job[j], Recovered(j, d))
  <2>. DEFINE t == RecoveryTarget(j)
              r == [job[j] EXCEPT !.status = t, !.delay = d,
                                  !.continuation = (job[j].status = "leased" /\ t = "queued")]
  <2>1. /\ t \in (JOB_TERMINAL_STATES \ {"succeeded"}) \cup {"queued"}
        /\ t = "queued" => ~job[j].cancel_requested /\ job[j].attempt < MaxAttempts[j]
    BY RowFacts DEF RecoveryTarget, Row
  <2>2. Recovered(j, d) = Bump(Unleased(r))
    BY DEF Recovered
  <2>. HIDE DEF t
  <2>3. r \in Row
    BY <2>1, RowFacts, RecoveredRow
  <2>4. /\ r.status = t /\ r.lease_epoch = job[j].lease_epoch
        /\ r.attempt = job[j].attempt /\ r.cancel_requested = job[j].cancel_requested
    BY RowFacts DEF Row
  <2>. HIDE DEF r
  <2>5. Follows(j, job[j], Unleased(r))
    BY <1>2, <2>1, <2>3, <2>4, UnleasedFields, UnleasedLife, SettleFollows, RequeueFollows
       DEF LeaseExpired
  <2>. QED
    BY <2>2, <2>3, <2>5, UnleasedRow, LifeOfRow DEF Follows
<1>. QED
  BY <1>1, <1>2 DEF Follows

(* Time passes without changing any life. *)
LEMMA TickFollows ==
  ASSUME JobsInv, NEW E, Tick(E)
  PROVE  \A i \in Job : Follows(i, job[i], job'[i])
<1>. DEFINE r(j) == [job[j] EXCEPT !.lease_left = Countdown(@), !.delay = Countdown(@)]
<1>1. \A j \in Job : LifeOf(r(j)) = LifeOf(job[j])
  BY RowFacts DEF LifeOf, Row
<1>2. job' = [j \in Job |-> r(j)]
  BY DEF Tick
<1>. HIDE DEF r
<1>. QED
  BY <1>1, <1>2 DEF Follows

(* Every step of the table moves each life by one step of the contract or  *)
(* not at all.                                                             *)
LEMMA JobsNextFollows ==
  JobsInv /\ [JobsNext]_vars => \A i \in Job : Follows(i, job[i], job'[i])
<1>. SUFFICES ASSUME JobsInv, [JobsNext]_vars
              PROVE  \A i \in Job : Follows(i, job[i], job'[i])
  OBVIOUS
<1>1. ASSUME NEW w \in Worker, NEW C \in SUBSET Job, NEW j \in C, lease_next_job(w, j, C)
      PROVE  \A i \in Job : Follows(i, job[i], job'[i])
  BY <1>1, LeaseFollows
<1>2. CASE UNCHANGED vars
  BY <1>2 DEF vars, Follows
<1>. QED
  BY <1>1, <1>2, CallerFollows, HolderFollows, RecoverFollows, TickFollows DEF JobsNext

(* The durable job table implements the contract of the Work Fabric for    *)
(* any number of jobs and workers, any retry limits and any lease length:  *)
(* leases, epochs, recovery, the clock and the event log are invisible in  *)
(* the lives of the jobs.                                                  *)
THEOREM ContractImplemented == JobsSpec => ImplementsContract
<1>1. JobsInit => Contract!Init
  BY DEF JobsInit, EmptyRow, LifeOf, LifePhase, Contract!Init, Contract!Unborn
<1>2. JobsInv /\ JobsInv' /\ [JobsNext]_vars
        => [Contract!Next]_([j \in Job |-> LifeOf(job[j])])
  <2>. SUFFICES ASSUME JobsInv, JobsInv', [JobsNext]_vars
                PROVE  Contract!Next
    OBVIOUS
  <2>1. \A j \in Job : LifeOf(job'[j]) \in Contract!Life
    BY LifeOfRow DEF JobsInv, JobsTypeOK
  <2>2. \A j \in Job : Follows(j, job[j], job'[j])
    BY JobsNextFollows
  <2>. QED
    BY <2>1, <2>2 DEF Contract!Next, Follows
<1>. QED
  BY <1>1, <1>2, JobsInvariant, PTL DEF JobsSpec, ImplementsContract, Contract!Spec

(***************************************************************************)
(* Part II.  The scheduler process.                                        *)
(***************************************************************************)

Credit(r) == IF r.continuation \/ r.status = "leased" THEN 1 ELSE 0

(* No credit is made up, epochs do not fall, success is final. *)
Quiet(r, s) ==
  /\ r.attempt + Credit(s) <= s.attempt + Credit(r)
  /\ s.lease_epoch >= r.lease_epoch
  /\ r.status = "succeeded" => s.status = "succeeded" /\ s.lease_epoch = r.lease_epoch
  /\ s.status = "succeeded" => r.status = "succeeded"

AllQuiet == \A i \in Job : Quiet(job[i], job'[i])

LEMMA SameQuiet == \A r \in Row : Quiet(r, r)
BY DEF Quiet, Credit, Row

(* A row that changes neither attempt nor epoch and gains no credit. *)
LEMMA QuietByFields ==
  ASSUME NEW r \in Row, NEW s \in Row,
         s.attempt = r.attempt, s.lease_epoch = r.lease_epoch,
         s.continuation \/ s.status = "leased" => r.continuation \/ r.status = "leased",
         s.status = "succeeded" <=> r.status = "succeeded"
  PROVE  Quiet(r, s)
<1>1. r.attempt \in Nat /\ r.lease_epoch \in Nat
  BY DEF Row
<1>2. Credit(s) = 1 => Credit(r) = 1
  BY DEF Credit
<1>3. Credit(s) \in {0, 1} /\ Credit(r) \in {0, 1}
  BY DEF Credit
<1>. QED
  BY <1>1, <1>2, <1>3 DEF Quiet

(* What Bump and Unleased leave alone. *)
LEMMA SameFields ==
  ASSUME NEW r \in Row
  PROVE  /\ Bump(r).attempt = r.attempt /\ Bump(r).lease_epoch = r.lease_epoch
         /\ Bump(r).status = r.status /\ Credit(Bump(r)) = Credit(r)
         /\ Unleased(r) \in Row
         /\ Unleased(r).attempt = r.attempt /\ Unleased(r).lease_epoch = r.lease_epoch
         /\ Unleased(r).status = r.status /\ Credit(Unleased(r)) = Credit(r)
BY UnleasedRow DEF Bump, Unleased, Credit, Row

LEMMA CommitQuiet ==
  ASSUME JobsInv, NEW j \in Job, NEW r \in Row, Commit(j, r), Quiet(job[j], r)
  PROVE  AllQuiet
<1>1. Quiet(job[j], Bump(r))
  BY SameFields DEF Quiet
<1>2. \A i \in Job : job'[i] = IF i = j THEN Bump(r) ELSE job[i]
  BY DEF Commit, JobsInv, JobsTypeOK
<1>3. \A i \in Job : Quiet(job[i], job[i])
  BY SameQuiet, RowFacts
<1>. QED
  BY <1>1, <1>2, <1>3 DEF AllQuiet

LEMMA CommitUnleasedQuiet ==
  ASSUME JobsInv, NEW j \in Job, NEW r \in Row, Commit(j, Unleased(r)), Quiet(job[j], r)
  PROVE  AllQuiet
<1>1. Unleased(r) \in Row /\ Quiet(job[j], Unleased(r))
  BY SameFields DEF Quiet
<1>. QED
  BY <1>1, CommitQuiet

-----------------------------------------------------------------------------
(* The transactions. *)

LEMMA CreateQuiet ==
  ASSUME JobsInv, NEW j \in Job, create_job(j)
  PROVE  AllQuiet
<1>1. PICK d \in 0..MaxDelay :
        Commit(j, [job[j] EXCEPT !.status = "queued", !.delay = d])
  BY DEF create_job
<1>. DEFINE r == [job[j] EXCEPT !.status = "queued", !.delay = d]
<1>2. r \in Row
  BY RowFacts DEF Row
<1>3. /\ r.attempt = job[j].attempt /\ r.lease_epoch = job[j].lease_epoch
      /\ r.continuation = job[j].continuation /\ r.status = "queued"
  BY RowFacts DEF Row
<1>4. job[j].status = "absent"
  BY DEF create_job
<1>. HIDE DEF r
<1>5. Quiet(job[j], r)
  BY <1>2, <1>3, <1>4, RowFacts, QuietByFields
<1>. QED
  BY <1>1, <1>2, <1>5, CommitQuiet DEF r

LEMMA CancelQuiet ==
  ASSUME JobsInv, NEW j \in Job, request_job_cancel(j)
  PROVE  AllQuiet
<1>. DEFINE now == [job[j] EXCEPT !.status = "cancelled", !.cancel_requested = TRUE]
            later == [job[j] EXCEPT !.cancel_requested = TRUE]
<1>1. now \in Row /\ later \in Row
  BY RowFacts DEF Row
<1>2. Commit(j, Unleased(now)) \/ Commit(j, later)
  BY DEF request_job_cancel
<1>3. /\ now.attempt = job[j].attempt /\ now.lease_epoch = job[j].lease_epoch
      /\ now.continuation = job[j].continuation /\ now.status = "cancelled"
      /\ later.attempt = job[j].attempt /\ later.lease_epoch = job[j].lease_epoch
      /\ later.continuation = job[j].continuation /\ later.status = job[j].status
  BY RowFacts DEF Row
<1>4. job[j].status # "succeeded"
  BY DEF request_job_cancel
<1>. HIDE DEF now, later
<1>5. Quiet(job[j], now) /\ Quiet(job[j], later)
  BY <1>1, <1>3, <1>4, RowFacts, QuietByFields
<1>. QED
  BY <1>1, <1>2, <1>5, CommitQuiet, CommitUnleasedQuiet

LEMMA WakeQuiet ==
  ASSUME JobsInv, NEW j \in Job, wake_job(j)
  PROVE  AllQuiet
<1>1. PICK d \in 0..MaxDelay :
        Commit(j, [job[j] EXCEPT !.status = "queued", !.delay = d, !.cancel_requested = FALSE])
  BY DEF wake_job
<1>. DEFINE r == [job[j] EXCEPT !.status = "queued", !.delay = d, !.cancel_requested = FALSE]
<1>2. r \in Row
  BY RowFacts, WokenRow
<1>3. /\ r.attempt = job[j].attempt /\ r.lease_epoch = job[j].lease_epoch
      /\ r.continuation = job[j].continuation /\ r.status = "queued"
  BY RowFacts DEF Row
<1>4. job[j].status \in {"waiting", "paused"}
  BY DEF wake_job
<1>. HIDE DEF r
<1>5. Quiet(job[j], r)
  BY <1>2, <1>3, <1>4, RowFacts, QuietByFields
<1>. QED
  BY <1>1, <1>2, <1>5, CommitQuiet DEF r

(* A lease takes a new epoch, and counts an attempt unless it continues. *)
LEMMA LeaseQuiet ==
  ASSUME JobsInv, NEW w \in Worker, NEW j \in Job, NEW C, lease_next_job(w, j, C)
  PROVE  AllQuiet /\ job'[j].lease_epoch = job[j].lease_epoch + 1
                  /\ job'[j].status = "leased"
<1>. DEFINE used == job[j].attempt + (IF job[j].continuation THEN 0 ELSE 1)
            epoch == job[j].lease_epoch + 1
            r == [job[j] EXCEPT !.status = "leased", !.lease_owner = w,
                                !.lease_epoch = epoch, !.lease_left = LeaseTTL,
                                !.attempt = used]
<1>1. /\ used \in Nat /\ epoch \in Nat /\ LeaseTTL \in {NULL} \cup (0..LeaseTTL)
      /\ job[j].status = "queued"
  BY RowFacts, JobsAssumption DEF lease_next_job, Leasable, Row
<1>2. Commit(j, r)
  BY DEF lease_next_job
<1>3. job[j].attempt + 1 <= used + Credit(job[j]) /\ epoch = job[j].lease_epoch + 1
  BY <1>1, RowFacts DEF Credit, Row
<1>. HIDE DEF used, epoch
<1>4. r \in Row
  BY <1>1, RowFacts, LeasedRow
<1>5. /\ r.status = "leased" /\ r.attempt = used /\ r.lease_epoch = epoch /\ Credit(r) = 1
  BY RowFacts DEF Row, Credit
<1>6. Quiet(job[j], r)
  BY <1>1, <1>3, <1>4, <1>5, RowFacts DEF Quiet, Row
<1>7. job'[j] = Bump(r)
  BY <1>2 DEF Commit, JobsInv, JobsTypeOK
<1>8. AllQuiet
  BY <1>2, <1>4, <1>6, CommitQuiet
<1>9. job'[j].lease_epoch = epoch /\ job'[j].status = "leased"
  BY <1>4, <1>5, <1>7, SameFields
<1>. QED
  BY <1>3, <1>8, <1>9

(* Starting uses the credit of the lease up. *)
LEMMA StartQuiet ==
  ASSUME JobsInv, NEW j \in Job, NEW w, NEW e, NEW sync \in BOOLEAN, start_job(j, w, e, sync)
  PROVE  AllQuiet /\ job'[j].attempt = job[j].attempt
                  /\ Credit(job[j]) = 1 /\ Credit(job'[j]) = 0
<1>. DEFINE r == [job[j] EXCEPT !.status = "running", !.continuation = FALSE,
                                !.sync_handler = sync]
<1>0. r \in Row
  BY RowFacts, StartedRow
<1>1. Quiet(job[j], r) /\ r.attempt = job[j].attempt /\ Credit(r) = 0
  <2>1. r.attempt = job[j].attempt /\ ~r.continuation /\ r.status = "running"
    BY RowFacts DEF Row
  <2>2. Quiet(job[j], r)
    <3>1. r.lease_epoch = job[j].lease_epoch
      BY RowFacts DEF Row
    <3>2. job[j].status = "leased"
      BY DEF start_job, expect_lease
    <3>. HIDE DEF r
    <3>. QED
      BY <1>0, <2>1, <3>1, <3>2, RowFacts, QuietByFields
  <2>. QED
    BY <2>1, <2>2 DEF Credit
<1>2. Credit(job[j]) = 1
  BY DEF start_job, expect_lease, Credit
<1>3. Commit(j, r)
  BY DEF start_job
<1>4. job'[j] = Bump(r)
  BY <1>3 DEF Commit, JobsInv, JobsTypeOK
<1>. QED
  BY <1>0, <1>1, <1>2, <1>3, <1>4, CommitQuiet, SameFields

LEMMA HeartbeatQuiet ==
  ASSUME JobsInv, NEW j \in Job, NEW w, NEW e, heartbeat_job(j, w, e)
  PROVE  AllQuiet
<1>. DEFINE r == [job[j] EXCEPT !.lease_left = LeaseTTL]
<1>1. Quiet(job[j], r)
  BY RowFacts DEF Row, Quiet, Credit
<1>2. \A i \in Job : job'[i] = IF i = j THEN r ELSE job[i]
  BY DEF heartbeat_job, JobsInv, JobsTypeOK
<1>. QED
  BY <1>1, <1>2, SameQuiet, RowFacts DEF AllQuiet

LEMMA AckQuiet ==
  ASSUME JobsInv, NEW j \in Job, NEW w, NEW e, acknowledge_job_cancel(j, w, e)
  PROVE  AllQuiet
<1>. DEFINE r == [job[j] EXCEPT !.status = "cancelled"]
<1>1. /\ r \in Row /\ r.attempt = job[j].attempt /\ r.lease_epoch = job[j].lease_epoch
      /\ r.continuation = job[j].continuation /\ r.status = "cancelled"
  BY RowFacts DEF Row
<1>2. job[j].status \in JOB_LEASED_STATES /\ Commit(j, Unleased(r))
  BY DEF acknowledge_job_cancel, expect_lease
<1>. HIDE DEF r
<1>3. Quiet(job[j], r)
  BY <1>1, <1>2, RowFacts, QuietByFields
<1>. QED
  BY <1>1, <1>2, <1>3, CommitUnleasedQuiet

LEMMA ReleaseQuiet ==
  ASSUME JobsInv, NEW j \in Job, NEW w, NEW e, NEW unknown \in BOOLEAN,
         release_job(j, w, e, unknown)
  PROVE  AllQuiet
<1>. DEFINE t == ReleaseTarget(j, unknown)
            r(d) == [job[j] EXCEPT !.status = t, !.delay = d]
<1>1. t \in {"queued", "failed", "cancelled", "unknown_effect"}
  BY RowFacts DEF ReleaseTarget, Row
<1>2. PICK d \in 0..MaxDelay : Commit(j, Unleased(r(d)))
  BY DEF release_job
<1>. HIDE DEF t
<1>3. r(d) \in Row
  BY <1>1, RowFacts, DelayedRow
<1>4. /\ r(d).attempt = job[j].attempt /\ r(d).lease_epoch = job[j].lease_epoch
      /\ r(d).continuation = job[j].continuation /\ r(d).status = t
  BY RowFacts DEF Row
<1>5. job[j].status \in JOB_LEASED_STATES
  BY DEF release_job, expect_lease
<1>. HIDE DEF r
<1>6. Quiet(job[j], r(d))
  BY <1>1, <1>3, <1>4, <1>5, RowFacts, QuietByFields
<1>. QED
  BY <1>2, <1>3, <1>6, CommitUnleasedQuiet

LEMMA RecoverQuiet ==
  ASSUME JobsInv, recover_expired_job_leases
  PROVE  AllQuiet
<1>1. PICK d \in 0..MaxDelay :
        job' = [j \in Job |-> IF LeaseExpired(j) THEN Recovered(j, d) ELSE job[j]]
  BY DEF recover_expired_job_leases
<1>2. ASSUME NEW j \in Job, LeaseExpired(j)
      PROVE  Quiet(job[j], Recovered(j, d))
  <2>. DEFINE t == RecoveryTarget(j)
              again == job[j].status = "leased" /\ t = "queued"
              r == [job[j] EXCEPT !.status = t, !.delay = d, !.continuation = again]
  <2>1. t \in {"queued", "failed", "cancelled", "unknown_effect"} /\ again \in BOOLEAN
    BY RowFacts DEF RecoveryTarget, Row
  <2>2. Recovered(j, d) = Bump(Unleased(r))
    BY DEF Recovered
  <2>3. again => job[j].status = "leased"
    OBVIOUS
  <2>. HIDE DEF t, again
  <2>4. r \in Row
    BY <2>1, RowFacts, RecoveredRow
  <2>5. /\ r.attempt = job[j].attempt /\ r.lease_epoch = job[j].lease_epoch
        /\ r.continuation = again /\ r.status = t
    BY RowFacts DEF Row
  <2>6. job[j].status \in JOB_LEASED_STATES
    BY <1>2 DEF LeaseExpired
  <2>. HIDE DEF r
  <2>7. Quiet(job[j], r)
    BY <2>1, <2>3, <2>4, <2>5, <2>6, RowFacts, QuietByFields
  <2>8. Unleased(r) \in Row
    BY <2>4, SameFields
  <2>9. Quiet(job[j], Bump(Unleased(r)))
    BY <2>4, <2>7, <2>8, SameFields DEF Quiet
  <2>. QED
    BY <2>2, <2>9
<1>3. \A j \in Job : Quiet(job[j], job[j])
  BY SameQuiet, RowFacts
<1>. QED
  BY <1>1, <1>2, <1>3 DEF AllQuiet

LEMMA TickQuiet ==
  ASSUME JobsInv, NEW E, Tick(E)
  PROVE  AllQuiet
<1>1. ASSUME NEW j \in Job
      PROVE  /\ job'[j].status = job[j].status /\ job'[j].attempt = job[j].attempt
             /\ job'[j].continuation = job[j].continuation
             /\ job'[j].lease_epoch = job[j].lease_epoch
  BY RowFacts DEF Tick, Row
<1>. QED
  BY <1>1, RowFacts DEF AllQuiet, Quiet, Credit, Row

(* The handler's wait pays for the invocation that follows it. *)
LEMMA WaitRows ==
  ASSUME JobsInv, NEW j \in Job, NEW w, NEW e, mark_job_waiting(j, w, e)
  PROVE  /\ \A i \in Job \ {j} : job'[i] = job[i]
         /\ job[j].status = "running" /\ job[j].lease_epoch = e
         /\ job'[j].status = "waiting" /\ job'[j].lease_epoch = e
         /\ job'[j].attempt = job[j].attempt /\ Credit(job'[j]) <= Credit(job[j]) + 1
<1>. DEFINE r == [job[j] EXCEPT !.status = "waiting", !.continuation = TRUE]
<1>1. /\ r \in Row /\ r.status = "waiting" /\ r.attempt = job[j].attempt
      /\ r.lease_epoch = job[j].lease_epoch
  BY RowFacts DEF Row
<1>2. Commit(j, Unleased(r)) /\ job[j].status = "running" /\ job[j].lease_epoch = e
  BY DEF mark_job_waiting, expect_lease
<1>. HIDE DEF r
<1>3. \A i \in Job : job'[i] = IF i = j THEN Bump(Unleased(r)) ELSE job[i]
  BY <1>2 DEF Commit, JobsInv, JobsTypeOK
<1>4. /\ job'[j].status = r.status /\ job'[j].attempt = r.attempt
      /\ job'[j].lease_epoch = r.lease_epoch
  BY <1>1, <1>3, SameFields
<1>5. Credit(job'[j]) \in {0, 1} /\ Credit(job[j]) \in {0, 1}
  BY DEF Credit
<1>. QED
  BY <1>1, <1>2, <1>3, <1>4, <1>5

(* Success is recorded by the holder of the job's last lease. *)
LEMMA FinishRows ==
  ASSUME JobsInv, NEW j \in Job, NEW w, NEW e, finish_job(j, w, e, "succeeded")
  PROVE  /\ \A i \in Job \ {j} : job'[i] = job[i]
         /\ job[j].status \in JOB_LEASED_STATES /\ job[j].lease_epoch = e
         /\ job'[j].status = "succeeded" /\ job'[j].lease_epoch = e
         /\ job'[j].attempt = job[j].attempt /\ Credit(job'[j]) <= Credit(job[j])
<1>. DEFINE r == [job[j] EXCEPT !.status = "succeeded"]
<1>1. /\ r \in Row /\ r.status = "succeeded" /\ r.attempt = job[j].attempt
      /\ r.lease_epoch = job[j].lease_epoch /\ r.continuation = job[j].continuation
  BY RowFacts DEF Row
<1>2. /\ Commit(j, Unleased(r)) /\ job[j].status \in JOB_LEASED_STATES
      /\ job[j].lease_epoch = e
  BY DEF finish_job, expect_lease
<1>. HIDE DEF r
<1>3. \A i \in Job : job'[i] = IF i = j THEN Bump(Unleased(r)) ELSE job[i]
  BY <1>2 DEF Commit, JobsInv, JobsTypeOK
<1>4. /\ job'[j].status = r.status /\ job'[j].attempt = r.attempt
      /\ job'[j].lease_epoch = r.lease_epoch /\ Credit(job'[j]) = Credit(r)
  BY <1>1, <1>3, SameFields
<1>5. Credit(r) <= Credit(job[j])
  BY <1>1 DEF Credit
<1>. QED
  BY <1>1, <1>2, <1>3, <1>4, <1>5

-----------------------------------------------------------------------------
(* The tasks. *)

OnePerJob(S) == \A s, t \in S : s.job = t.job => s = t

(* Every task of S continues a task of T, with its job and its epoch. *)
Survive(S, T) ==
  /\ S \subseteq Task /\ OnePerJob(S)
  /\ \A s \in S : \E t \in T : t.job = s.job /\ t.epoch = s.epoch

(* Tasks that survive are no more than the tasks there were. *)
LEMMA NoMore ==
  ASSUME NEW S, NEW T, IsFiniteSet(T), OnePerJob(S),
         \A s \in S : \E t \in T : t.job = s.job
  PROVE  IsFiniteSet(S) /\ Cardinality(S) <= Cardinality(T)
<1>. DEFINE f == [s \in S |-> CHOOSE t \in T : t.job = s.job]
<1>1. \A s \in S : f[s] \in T /\ f[s].job = s.job
  OBVIOUS
<1>2. f \in [S -> T]
  BY <1>1
<1>3. \A a, b \in S : f[a] = f[b] => a = b
  BY <1>1 DEF OnePerJob
<1>. HIDE DEF f
<1>4. f \in Injection(S, T)
  BY <1>2, <1>3, Fun_IsInj
<1>. QED
  BY <1>4, FS_Injection

(* Survivors are no more than before, in all and of each kind. *)
LEMMA SurvivorsFewer ==
  ASSUME SchedInv, Survive(tasks', tasks)
  PROVE  /\ IsFiniteSet(tasks') /\ OneTaskPerJob'
         /\ Cardinality(tasks) \in Nat /\ Cardinality(tasks') \in Nat
         /\ Cardinality(tasks') <= Cardinality(tasks)
         /\ \A k \in Kind : /\ Cardinality(TasksOf(k)) \in Nat /\ Cardinality(TasksOf(k)') \in Nat
                            /\ Cardinality(TasksOf(k)') <= Cardinality(TasksOf(k))
         /\ active' \subseteq active
<1>1. IsFiniteSet(tasks) /\ OnePerJob(tasks') /\ OneTaskPerJob'
  BY DEF SchedInv, SchedTypeOK, Survive, OnePerJob, OneTaskPerJob
<1>2. IsFiniteSet(tasks') /\ Cardinality(tasks') <= Cardinality(tasks)
  BY <1>1, NoMore DEF Survive
<1>3. Cardinality(tasks) \in Nat /\ Cardinality(tasks') \in Nat
  BY <1>1, <1>2, FS_CardinalityType
<1>4. ASSUME NEW k \in Kind
      PROVE  /\ Cardinality(TasksOf(k)) \in Nat /\ Cardinality(TasksOf(k)') \in Nat
             /\ Cardinality(TasksOf(k)') <= Cardinality(TasksOf(k))
  <2>. DEFINE S == {t \in tasks' : KindOf[t.job] = k}
              T == {t \in tasks : KindOf[t.job] = k}
  <2>1. IsFiniteSet(T) /\ IsFiniteSet(S)
    BY <1>1, <1>2, FS_Subset
  <2>2. OnePerJob(S) /\ \A s \in S : \E t \in T : t.job = s.job
    BY DEF Survive, OnePerJob
  <2>3. S = TasksOf(k)' /\ T = TasksOf(k)
    BY DEF TasksOf
  <2>. HIDE DEF S, T
  <2>4. Cardinality(S) <= Cardinality(T)
    BY <2>1, <2>2, NoMore
  <2>5. Cardinality(T) \in Nat /\ Cardinality(S) \in Nat
    BY <2>1, FS_CardinalityType
  <2>. QED
    BY <2>3, <2>4, <2>5
<1>5. active' \subseteq active
  BY DEF active, Survive
<1>. QED
  BY <1>1, <1>2, <1>3, <1>4, <1>5

(* What becomes of the calls and leases of a round in a step that admits   *)
(* nothing: they stay, are dropped, or are no longer awaited.              *)
RoundKept ==
  /\ choosing' \subseteq Choice /\ granted' \subseteq granted
  /\ \A c \in choosing' : c.awaited => c \in choosing
  /\ OneRound'

(* Survivors keep to the limits, and leave the round the room it counted.  *)
LEMMA LimitsKept ==
  ASSUME SchedInv, Survive(tasks', tasks), RoundKept
  PROVE  IsFiniteSet(tasks') /\ OneTaskPerJob' /\ WithinLimits' /\ LimitsOutliveAwait'
<1>. max_concurrency \in Nat /\ \A k \in Kind : KindLimit[k] \in Nat
  BY SchedulerAssumption
<1>1. \A k \in Kind : Fits(k) => Fits(k)'
  BY SurvivorsFewer DEF Fits
<1>2. WithinLimits'
  BY SurvivorsFewer DEF SchedInv, WithinLimits
<1>3. LimitsOutliveAwait'
  <2>1. ASSUME NEW c \in choosing', c.awaited
        PROVE  active' \subseteq c.excluded /\ \A k \in c.kinds : Fits(k)'
    <3>1. c \in choosing /\ c \in Choice
      BY <2>1 DEF RoundKept
    <3>2. c.kinds \subseteq Kind
      BY <3>1 DEF Choice
    <3>. QED
      BY <1>1, <2>1, <3>1, <3>2, SurvivorsFewer DEF SchedInv, LimitsOutliveAwait
  <2>2. ASSUME NEW g \in granted'
        PROVE  g.job \notin active' /\ Fits(KindOf[g.job])'
    <3>1. g \in granted /\ KindOf[g.job] \in Kind
      BY SchedulerAssumption DEF RoundKept, SchedInv, SchedTypeOK, Grant
    <3>. QED
      BY <1>1, <3>1, SurvivorsFewer DEF SchedInv, LimitsOutliveAwait
  <2>. QED
    BY <2>1, <2>2 DEF LimitsOutliveAwait
<1>. QED
  BY <1>2, <1>3, SurvivorsFewer

(* A task that moves on or ends. *)
LEMMA MoveSurvives ==
  ASSUME SchedInv, NEW t \in tasks, NEW pc \in TaskState, Moves(t, pc)
  PROVE  /\ Survive(tasks', tasks) /\ [t EXCEPT !.pc = pc] \in tasks'
         /\ \A s \in tasks' \ tasks : s = [t EXCEPT !.pc = pc] /\ s.pc = pc /\ s.job = t.job
                                       /\ s.epoch = t.epoch
<1>. DEFINE u == [t EXCEPT !.pc = pc]
<1>1. t \in Task
  BY DEF SchedInv, SchedTypeOK
<1>2. u \in Task /\ u.job = t.job /\ u.epoch = t.epoch /\ u.pc = pc
  BY <1>1 DEF Task
<1>3. tasks' = (tasks \ {t}) \cup {u}
  BY DEF Moves
<1>. HIDE DEF u
<1>4. Survive(tasks', tasks)
  BY <1>2, <1>3 DEF Survive, OnePerJob, SchedInv, SchedTypeOK, OneTaskPerJob
<1>5. u \in tasks' /\ \A s \in tasks' \ tasks : s = u
  BY <1>3
<1>. QED
  BY <1>2, <1>4, <1>5 DEF u

LEMMA EndSurvives ==
  ASSUME SchedInv, tasks' \subseteq tasks
  PROVE  Survive(tasks', tasks)
BY DEF Survive, OnePerJob, SchedInv, SchedTypeOK, OneTaskPerJob

(* A task told to stop. *)
LEMMA StopSurvives ==
  ASSUME SchedInv, NEW t \in tasks, t.pc = "handler",
         tasks' = (tasks \ {t}) \cup {[t EXCEPT !.stop = TRUE]}
  PROVE  /\ Survive(tasks', tasks)
         /\ \A s \in tasks' \ tasks : s.pc = "handler"
<1>. DEFINE u == [t EXCEPT !.stop = TRUE]
<1>1. t \in Task
  BY DEF SchedInv, SchedTypeOK
<1>2. u \in Task /\ u.job = t.job /\ u.epoch = t.epoch /\ u.pc = "handler"
  BY <1>1 DEF Task
<1>3. tasks' = (tasks \ {t}) \cup {u}
  OBVIOUS
<1>. HIDE DEF u
<1>4. Survive(tasks', tasks)
  BY <1>2, <1>3 DEF Survive, OnePerJob, SchedInv, SchedTypeOK, OneTaskPerJob
<1>. QED
  BY <1>2, <1>3, <1>4

(* The call a cancelled task leaves behind is its own. *)
LEMMA CallOfTask ==
  ASSUME NEW t \in Task, owner \in Worker
  PROVE  /\ CallOf(t) \in LateCall
         /\ CallOf(t).job = t.job /\ CallOf(t).epoch = t.epoch
         /\ CallOf(t).op = "finish" => t.pc = "finishing"
<1>. DEFINE op == CASE t.pc = "starting" -> "start"
                    [] t.pc = "finishing" -> "finish"
                    [] t.pc \in {"acking", "settling"} -> "ack"
                    [] t.pc = "unknown" -> "unknown"
                    [] OTHER -> "release"
<1>1. op \in {"start", "finish", "ack", "release", "unknown"}
      /\ (op = "finish" => t.pc = "finishing")
  OBVIOUS
<1>2. CallOf(t) = [job |-> t.job, epoch |-> t.epoch, worker |-> owner, op |-> op]
  BY DEF CallOf
<1>. HIDE DEF op
<1>. QED
  BY <1>1, <1>2 DEF LateCall, Task

(* New late calls are those of tasks there were. *)
Left ==
  /\ late' \subseteq LateCall
  /\ \A c \in late' \ late :
       \E t \in tasks : c.job = t.job /\ c.epoch = t.epoch
                         /\ (c.op = "finish" => t.pc = "finishing")

(* Cancellation stops handlers, interrupts or ends the other tasks, and    *)
(* leaves their database calls behind.                                     *)
LEMMA CancelSurvives ==
  ASSUME SchedInv, NEW ts \in SUBSET tasks, cancel_tasks(ts)
  PROVE  /\ Survive(tasks', tasks) /\ Left
         /\ \A s \in tasks' \ tasks : s.pc \in {"handler", "interrupted"}
<1>1. ASSUME NEW t \in tasks, NEW s \in Interrupted(t)
      PROVE  /\ s \in Task /\ s.job = t.job /\ s.epoch = t.epoch
             /\ s.pc \in {"handler", "interrupted"}
             /\ \A u \in Interrupted(t) : u = s
  <2>1. t \in Task
    BY DEF SchedInv, SchedTypeOK
  <2>2. CASE t.pc = "handler"
    BY <1>1, <2>1, <2>2 DEF Interrupted, Task
  <2>3. CASE t.pc # "handler"
    BY <1>1, <2>1, <2>3 DEF Interrupted, Task, TaskState
  <2>. QED
    BY <2>2, <2>3
<1>2. tasks' = (tasks \ ts) \cup UNION {Interrupted(t) : t \in ts}
  BY DEF cancel_tasks
<1>3. \A s \in tasks' : s \in tasks \ ts \/ \E t \in ts : s \in Interrupted(t)
  BY <1>2
<1>4. tasks \subseteq Task /\ \A s, t \in tasks : s.job = t.job => s = t
  BY DEF SchedInv, SchedTypeOK, OneTaskPerJob
<1>5. \A s \in tasks' : s \in Task /\ \E t \in tasks : t.job = s.job /\ t.epoch = s.epoch
  BY <1>1, <1>3, <1>4
<1>6. \A s, u \in tasks' : s.job = u.job => s = u
  BY <1>1, <1>3, <1>4
<1>7. Left
  <2>1. \A c \in late' \ late : \E t \in ts : c = CallOf(t)
    BY DEF cancel_tasks, LeftBehind
  <2>2. tasks # {} => owner \in Worker
    BY DEF SchedInv, SchedTypeOK, OwnedByProcess, Up
  <2>3. \A t \in tasks : /\ CallOf(t) \in LateCall
                         /\ CallOf(t).job = t.job /\ CallOf(t).epoch = t.epoch
                         /\ CallOf(t).op = "finish" => t.pc = "finishing"
    BY <1>4, <2>2, CallOfTask
  <2>4. late \subseteq LateCall
    BY DEF SchedInv, SchedTypeOK
  <2>. QED
    BY <2>1, <2>3, <2>4 DEF Left
<1>8. \A s \in tasks' \ tasks : s.pc \in {"handler", "interrupted"}
  BY <1>1, <1>3
<1>. QED
  BY <1>5, <1>6, <1>7, <1>8 DEF Survive, OnePerJob

-----------------------------------------------------------------------------
(* The inductive invariant is the three properties together: the slots     *)
(* rest on one task per job, and what is recorded as success rests on the  *)
(* order of epochs.                                                        *)
SchedIInv == SchedInv /\ ExecutionsArePaidFor /\ SuccessIsEarned

(* The process and the books stay well typed and in their owner's hands. *)
Owned ==
  /\ owner' \in Worker \cup {NoWorker} /\ spent' \subseteq Worker
  /\ stopping' \in BOOLEAN
  /\ RoundKept /\ OwnedByProcess'

HistoryTyped ==
  /\ runs' \in [Job -> Nat] /\ waits' \in [Job -> Nat]
  /\ completed' \in [Job -> Nat] /\ published' \in [Job -> Nat]

LEMMA SameOwner ==
  ASSUME SchedInv, UNCHANGED <<procvars, admission>>, Survive(tasks', tasks), Left
  PROVE  Owned
<1>1. tasks' # {} => tasks # {}
  BY DEF Survive
<1>2. late' # {} => late # {} \/ tasks # {}
  BY DEF Left
<1>3. RoundKept
  BY DEF RoundKept, OneRound, admission, SchedInv, SchedTypeOK
<1>. QED
  BY <1>1, <1>2, <1>3 DEF Owned, procvars, admission, OwnedByProcess, Up, SchedInv, SchedTypeOK

LEMMA SameLate == SchedInv /\ late' \subseteq late => Left
BY DEF Left, SchedInv, SchedTypeOK

LEMMA SameHistory == SchedInv /\ UNCHANGED history => HistoryTyped
BY DEF HistoryTyped, history, SchedInv, SchedTypeOK

LEMMA SchedKept ==
  ASSUME SchedInv, JobsInv', Survive(tasks', tasks), Left, Owned, HistoryTyped
  PROVE  SchedInv'
<1>1. IsFiniteSet(tasks') /\ OneTaskPerJob' /\ WithinLimits' /\ LimitsOutliveAwait'
  BY LimitsKept DEF Owned
<1>2. granted' \subseteq Grant
  BY DEF Owned, RoundKept, SchedInv, SchedTypeOK
<1>. QED
  BY <1>1, <1>2 DEF SchedInv, SchedTypeOK, JobsInv, Survive, Left, Owned, RoundKept, HistoryTyped

Begun(S, j) == IF \E t \in S : t.job = j /\ t.pc = "started" THEN 1 ELSE 0

(* The books of one job in numbers. *)
PaidFor(j) == runs[j] + Credit(job[j]) + Begun(tasks, j) <= job[j].attempt + waits[j]

LEMMA PaidNumbers ==
  ASSUME SchedInv
  PROVE  ExecutionsArePaidFor <=> \A j \in Job : PaidFor(j)
<1>1. ASSUME NEW j \in Job
      PROVE  (runs[j] + Promised(j) <= job[j].attempt + waits[j]) <=> PaidFor(j)
  <2>1. Promised(j) = Credit(job[j]) + Begun(tasks, j)
    BY DEF Promised, Credit, Begun
  <2>2. runs[j] \in Nat /\ Credit(job[j]) \in Nat /\ Begun(tasks, j) \in Nat
    BY DEF SchedInv, SchedTypeOK, Credit, Begun
  <2>3. runs[j] + (Credit(job[j]) + Begun(tasks, j)) = runs[j] + Credit(job[j]) + Begun(tasks, j)
    BY <2>2
  <2>. QED
    BY <2>1, <2>3 DEF PaidFor
<1>. QED
  BY <1>1 DEF ExecutionsArePaidFor, SchedInv

(* The numbers of a job, before and after a step that keeps types. *)
LEMMA Numbers ==
  ASSUME SchedInv, SchedInv', NEW j \in Job
  PROVE  /\ runs[j] \in Nat /\ waits[j] \in Nat /\ runs'[j] \in Nat /\ waits'[j] \in Nat
         /\ job[j].attempt \in Nat /\ job'[j].attempt \in Nat
         /\ Credit(job[j]) \in {0, 1} /\ Credit(job'[j]) \in {0, 1}
         /\ Begun(tasks, j) \in {0, 1} /\ Begun(tasks', j) \in {0, 1}
         /\ completed[j] \in Nat /\ completed'[j] \in Nat
         /\ published[j] \in Nat /\ published'[j] \in Nat
         /\ job[j].lease_epoch \in Nat /\ job'[j].lease_epoch \in Nat
<1>1. job[j] \in Row /\ job'[j] \in Row
  BY DEF SchedInv, SchedTypeOK, JobsTypeOK
<1>2. job[j].attempt \in Nat /\ job'[j].attempt \in Nat
      /\ job[j].lease_epoch \in Nat /\ job'[j].lease_epoch \in Nat
  BY <1>1 DEF Row
<1>. QED
  BY <1>2 DEF SchedInv, SchedTypeOK, Credit, Begun

(* A quiet step makes no handler invocation and promises none. *)
LEMMA PaidKept ==
  ASSUME SchedInv, SchedInv', ExecutionsArePaidFor, AllQuiet,
         \A s \in tasks' \ tasks : s.pc # "started", UNCHANGED <<runs, waits>>
  PROVE  ExecutionsArePaidFor'
<1>1. ASSUME NEW j \in Job
      PROVE  PaidFor(j)'
  <2>1. PaidFor(j)
    BY PaidNumbers
  <2>2. job[j].attempt + Credit(job'[j]) <= job'[j].attempt + Credit(job[j])
    BY DEF AllQuiet, Quiet
  <2>3. Begun(tasks', j) <= Begun(tasks, j)
    BY DEF Begun
  <2>4. runs'[j] = runs[j] /\ waits'[j] = waits[j]
    OBVIOUS
  <2>. QED
    BY <2>1, <2>2, <2>3, <2>4, Numbers DEF PaidFor
<1>2. OneTaskPerJob'
  BY DEF SchedInv
<1>3. \A j \in Job : runs'[j] + Promised(j)' <= job'[j].attempt + waits'[j]
  <2> SUFFICES ASSUME NEW j \in Job PROVE runs'[j] + Promised(j)' <= job'[j].attempt + waits'[j]
    OBVIOUS
  <2>1. Promised(j)' = Credit(job'[j]) + Begun(tasks', j)
    BY DEF Promised, Credit, Begun
  <2>2. runs'[j] + Credit(job'[j]) + Begun(tasks', j) <= job'[j].attempt + waits'[j]
    BY <1>1 DEF PaidFor
  <2>. QED
    BY <2>1, <2>2, Numbers
<1>. QED
  BY <1>2, <1>3 DEF ExecutionsArePaidFor

-----------------------------------------------------------------------------
(* What is recorded as success. *)

(* What ResultsAreCurrent says of a task and of a late call. *)
CurrentTask(t) ==
  /\ t.epoch <= job[t.job].lease_epoch
  /\ job[t.job].status = "succeeded" => t.epoch = job[t.job].lease_epoch
  /\ t.pc \in {"reading", "finishing"} => completed[t.job] = t.epoch

CurrentCall(c) ==
  /\ c.epoch <= job[c.job].lease_epoch
  /\ \A t \in tasks : t.job = c.job => c.epoch <= t.epoch
  /\ (c.op = "finish" /\ c.epoch = job[c.job].lease_epoch) => completed[c.job] = c.epoch

(* And of a lease in hand. *)
CurrentGrant(g) ==
  /\ g.epoch <= job[g.job].lease_epoch
  /\ job[g.job].status = "succeeded" => g.epoch = job[g.job].lease_epoch
  /\ \A c \in late : c.job = g.job => c.epoch <= g.epoch

LEMMA CurrentParts ==
  ResultsAreCurrent <=> /\ \A t \in tasks : CurrentTask(t)
                        /\ \A c \in late : CurrentCall(c)
                        /\ \A g \in granted : CurrentGrant(g)
BY DEF ResultsAreCurrent, CurrentTask, CurrentCall, CurrentGrant

Earned(j) ==
  /\ job[j].status = "succeeded" => completed[j] = job[j].lease_epoch
  /\ published[j] > 0 => published[j] = 1 /\ job[j].status = "succeeded"

(* Types of tasks and calls. *)
LEMMA TaskTypes ==
  ASSUME SchedInv
  PROVE  /\ \A t \in tasks : t \in Task /\ t.job \in Job /\ t.epoch \in Nat /\ t.pc \in TaskState
         /\ \A c \in late : c.job \in Job /\ c.epoch \in Nat /\ c.worker \in Worker
                            /\ c.op \in {"start", "finish", "ack", "release", "unknown"}
         /\ \A g \in granted : g.job \in Job /\ g.epoch \in Nat /\ g.job \notin active
BY DEF SchedInv, SchedTypeOK, Task, LateCall, Grant, LimitsOutliveAwait

(* What a quiet step does to epochs and successes. *)
Steady ==
  \A i \in Job :
    /\ job'[i].lease_epoch >= job[i].lease_epoch
    /\ job[i].status = "succeeded"
         => job'[i].status = "succeeded" /\ job'[i].lease_epoch = job[i].lease_epoch
    /\ job'[i].status = "succeeded" => job[i].status = "succeeded"

LEMMA QuietIsSteady == AllQuiet => Steady
BY DEF AllQuiet, Quiet, Steady

(* A steady step keeps the epochs in order and what was earned. *)
LEMMA EarnedKept ==
  ASSUME SchedInv, SchedInv', SuccessIsEarned, Steady, Survive(tasks', tasks), Left,
         granted' \subseteq granted,
         \A s \in tasks' \ tasks : s.pc \in {"reading", "finishing"} => completed[s.job] = s.epoch,
         UNCHANGED <<completed, published>>
  PROVE  SuccessIsEarned'
<1>1. ASSUME NEW j \in Job
      PROVE  /\ job'[j].lease_epoch >= job[j].lease_epoch
             /\ job[j].status = "succeeded"
                  => job'[j].status = "succeeded" /\ job'[j].lease_epoch = job[j].lease_epoch
             /\ job'[j].status = "succeeded" => job[j].status = "succeeded"
             /\ job[j].lease_epoch \in Nat /\ job'[j].lease_epoch \in Nat
  BY Numbers DEF Steady
<1>2. ASSUME NEW j \in Job
      PROVE  Earned(j)'
  BY <1>1 DEF Earned, SuccessIsEarned
<1>3. ASSUME NEW s \in tasks'
      PROVE  CurrentTask(s)'
  <2>1. PICK t \in tasks : t.job = s.job /\ t.epoch = s.epoch
    BY DEF Survive
  <2>2. CurrentTask(t) /\ t.job \in Job /\ t.epoch \in Nat
    BY CurrentParts, TaskTypes DEF SuccessIsEarned
  <2>3. s.pc \in {"reading", "finishing"} => completed[s.job] = s.epoch
    BY CurrentParts DEF SuccessIsEarned, CurrentTask
  <2>4. /\ s.epoch <= job'[s.job].lease_epoch
        /\ job'[s.job].status = "succeeded" => s.epoch = job'[s.job].lease_epoch
    BY <1>1, <2>1, <2>2 DEF CurrentTask
  <2>. QED
    BY <2>3, <2>4 DEF CurrentTask
<1>4. ASSUME NEW c \in late'
      PROVE  CurrentCall(c)'
  <2>1. c.job \in Job /\ c.epoch \in Nat
    BY DEF SchedInv, SchedTypeOK, LateCall
  <2>2. CASE c \in late
    <3>1. CurrentCall(c)
      BY <2>2, CurrentParts DEF SuccessIsEarned
    <3>2. \A s \in tasks' : s.job = c.job => c.epoch <= s.epoch
      BY <3>1 DEF CurrentCall, Survive
    <3>3. /\ c.epoch <= job'[c.job].lease_epoch
          /\ (c.op = "finish" /\ c.epoch = job'[c.job].lease_epoch) => completed[c.job] = c.epoch
      BY <1>1, <2>1, <3>1 DEF CurrentCall
    <3>. QED
      BY <3>2, <3>3 DEF CurrentCall
  <2>3. CASE c \notin late
    <3>1. PICK t \in tasks : /\ c.job = t.job /\ c.epoch = t.epoch
                             /\ c.op = "finish" => t.pc = "finishing"
      BY <2>3 DEF Left
    <3>2. CurrentTask(t)
      BY CurrentParts DEF SuccessIsEarned
    <3>3. \A s \in tasks' : s.job = c.job => s.epoch = c.epoch
      BY <3>1 DEF Survive, SchedInv, OneTaskPerJob
    <3>4. c.epoch <= job'[c.job].lease_epoch
      BY <1>1, <2>1, <3>1, <3>2 DEF CurrentTask
    <3>5. c.op = "finish" => completed[c.job] = c.epoch
      BY <3>1, <3>2 DEF CurrentTask
    <3>. QED
      BY <2>1, <3>3, <3>4, <3>5 DEF CurrentCall
  <2>. QED
    BY <2>2, <2>3
<1>5. ASSUME NEW g \in granted'
      PROVE  CurrentGrant(g)'
  <2>1. CurrentGrant(g) /\ g.job \in Job /\ g.epoch \in Nat /\ g.job \notin active
    BY CurrentParts, TaskTypes DEF SuccessIsEarned
  <2>2. \A c \in late' : c.job = g.job => c.epoch <= g.epoch
    BY <2>1 DEF Left, CurrentGrant, active
  <2>. QED
    BY <1>1, <2>1, <2>2 DEF CurrentGrant
<1>6. ResultsAreCurrent'
  BY <1>3, <1>4, <1>5 DEF ResultsAreCurrent, CurrentTask, CurrentCall, CurrentGrant
<1>. QED
  BY <1>2, <1>6 DEF SuccessIsEarned, Earned

(* The quiet steps, all at once. *)
LEMMA QuietStep ==
  ASSUME SchedIInv, JobsInv', AllQuiet, Survive(tasks', tasks), Left, Owned,
         \A s \in tasks' \ tasks :
            /\ s.pc # "started"
            /\ s.pc \in {"reading", "finishing"} => completed[s.job] = s.epoch,
         UNCHANGED history
  PROVE  SchedIInv'
<1>1. SchedInv'
  BY SchedKept, SameHistory DEF SchedIInv
<1>2. ExecutionsArePaidFor'
  BY <1>1, PaidKept DEF SchedIInv, history
<1>3. SuccessIsEarned'
  BY <1>1, EarnedKept, QuietIsSteady DEF SchedIInv, history, Owned, RoundKept
<1>. QED
  BY <1>1, <1>2, <1>3 DEF SchedIInv

(* Nothing happens to the table. *)
LEMMA SameTable ==
  ASSUME JobsInv, UNCHANGED vars
  PROVE  JobsInv' /\ AllQuiet
<1>1. JobsInv'
  BY JobsNextInv
<1>. QED
  BY <1>1, SameQuiet, RowFacts DEF vars, AllQuiet

-----------------------------------------------------------------------------
(* The life of the process. *)

LEMMA ProcessSteps ==
  ASSUME SchedIInv,
         (\E w \in Worker : start(w)) \/ crash \/ shutdown \/ shutdown_done
  PROVE  SchedIInv'
<1>. SchedInv /\ JobsInv
  BY DEF SchedIInv, SchedInv
<1>1. UNCHANGED vars /\ UNCHANGED history
  BY DEF start, crash, shutdown, shutdown_done
<1>2. JobsInv' /\ AllQuiet
  BY <1>1, SameTable
<1>3. CASE shutdown
  <2>1. /\ Survive(tasks', tasks) /\ Left
        /\ \A s \in tasks' \ tasks : s.pc \in {"handler", "interrupted"}
    BY <1>3, CancelSurvives DEF shutdown
  <2>2. Owned
    <3>1. RoundKept
      BY <1>3 DEF shutdown, RoundKept, OneRound, Choice, SchedInv, SchedTypeOK
    <3>. QED
      BY <1>3, <3>1 DEF shutdown, Owned, OwnedByProcess, Up, SchedInv, SchedTypeOK
  <2>. QED
    BY <1>1, <1>2, <2>1, <2>2, QuietStep
<1>4. CASE ~shutdown
  <2>1. tasks' \subseteq tasks /\ late' \subseteq late
    BY <1>4 DEF start, crash, shutdown_done
  <2>2. Survive(tasks', tasks) /\ Left
    BY <2>1, EndSurvives, SameLate
  <2>3. Owned
    <3>1. CASE \E w \in Worker : start(w)
      BY <3>1 DEF start, Owned, RoundKept, OneRound, admission, OwnedByProcess, Up, SchedInv,
                  SchedTypeOK
    <3>2. CASE crash
      BY <3>2 DEF crash, Owned, RoundKept, OneRound, OwnedByProcess, SchedInv, SchedTypeOK
    <3>3. CASE shutdown_done
      BY <3>3 DEF shutdown_done, Owned, RoundKept, OneRound, OwnedByProcess, SchedInv, SchedTypeOK
    <3>. QED
      BY <1>4, <3>1, <3>2, <3>3
  <2>4. tasks' \ tasks = {}
    BY <2>1
  <2>. QED
    BY <1>1, <1>2, <2>2, <2>3, <2>4, QuietStep
<1>. QED
  BY <1>3, <1>4

(* A quiet transaction that leaves process and tasks alone. *)
LEMMA TableSteps ==
  ASSUME SchedIInv, JobsInv', AllQuiet, UNCHANGED <<procvars, admission, tasks, late, history>>
  PROVE  SchedIInv'
<1>. SchedInv
  BY DEF SchedIInv
<1>1. Survive(tasks', tasks) /\ Left
  BY EndSurvives, SameLate
<1>2. Owned
  BY <1>1, SameOwner
<1>3. tasks' \ tasks = {}
  OBVIOUS
<1>. QED
  BY <1>1, <1>2, <1>3, QuietStep

LEMMA CallerSteps ==
  ASSUME SchedIInv, NEW j \in Job, Submit(j) \/ Wake(j) \/ cancel_job(j)
  PROVE  SchedIInv'
<1>. SchedInv /\ JobsInv
  BY DEF SchedIInv, SchedInv
<1>1. CASE Submit(j)
  BY <1>1, CreateInv, CreateQuiet, TableSteps DEF Submit
<1>2. CASE Wake(j)
  BY <1>2, WakeInv, WakeQuiet, TableSteps DEF Wake
<1>3. CASE cancel_job(j)
  <2>1. JobsInv' /\ AllQuiet
    BY <1>3, CancelInv, CancelQuiet, SameTable DEF cancel_job
  <2>2. UNCHANGED <<procvars, admission>> /\ UNCHANGED history
    BY <1>3 DEF cancel_job
  <2>3. CASE UNCHANGED <<tasks, late>>
    BY <2>1, <2>2, <2>3, TableSteps
  <2>4. CASE ~UNCHANGED <<tasks, late>>
    <3>1. cancel_tasks({t \in tasks : t.job = j})
      BY <1>3, <2>4 DEF cancel_job
    <3>2. /\ Survive(tasks', tasks) /\ Left
          /\ \A s \in tasks' \ tasks : s.pc \in {"handler", "interrupted"}
      BY <3>1, CancelSurvives
    <3>3. Owned
      BY <2>2, <3>2, SameOwner
    <3>. QED
      BY <2>1, <2>2, <3>2, <3>3, QuietStep
  <2>. QED
    BY <2>3, <2>4
<1>. QED
  BY <1>1, <1>2, <1>3

LEMMA ServiceSteps ==
  ASSUME SchedIInv, run_periodic_recovery \/ Clock
  PROVE  SchedIInv'
<1>. SchedInv /\ JobsInv
  BY DEF SchedIInv, SchedInv
<1>1. CASE run_periodic_recovery
  BY <1>1, RecoverInv, RecoverQuiet, TableSteps DEF run_periodic_recovery
<1>2. CASE Clock
  BY <1>2, TickInv, TickQuiet, TableSteps DEF Clock
<1>. QED
  BY <1>1, <1>2

-----------------------------------------------------------------------------
(* Admission: what a round counts, leases and tracks. *)

(* active has one job for each task. *)
LEMMA ActiveCount ==
  ASSUME SchedInv
  PROVE  IsFiniteSet(tasks) /\ Cardinality(active) = Cardinality(tasks)
<1>1. IsFiniteSet(tasks)
  BY DEF SchedInv, SchedTypeOK
<1>2. OnePerJob(tasks)
  BY DEF OnePerJob, SchedInv, OneTaskPerJob
<1>. DEFINE f == [s \in tasks |-> s.job]
<1>3. f \in [tasks -> active] /\ \A a, b \in tasks : f[a] = f[b] => a = b
  BY <1>2 DEF active, OnePerJob
<1>4. \A i \in active : \E s \in tasks : f[s] = i
  BY DEF active
<1>. HIDE DEF f
<1>5. f \in Injection(tasks, active) /\ f \in Surjection(tasks, active)
  BY <1>3, <1>4, Fun_IsInj, Fun_IsSurj
<1>. QED
  BY <1>1, <1>5, FS_Surjection

(* A step of a round that touches neither the table nor the tasks. *)
LEMMA RoundSteps ==
  ASSUME SchedIInv, admit_choose \/ \E c \in choosing : admit_none(c)
  PROVE  SchedIInv'
<1>. SchedInv /\ JobsInv
  BY DEF SchedIInv, SchedInv
<1>1. UNCHANGED <<vars, procvars, granted, tasks, late, history>>
  BY DEF admit_choose, admit_none
<1>2. JobsInv' /\ AllQuiet
  BY <1>1, SameTable
<1>3. CASE admit_choose
  <2>. DEFINE c == [kinds |-> eligible_kinds, excluded |-> active, awaited |-> TRUE]
  <2>1. choosing' = {c} /\ granted = {} /\ Up
    BY <1>3 DEF admit_choose
  <2>2. c \in Choice
    BY DEF Choice, eligible_kinds, active, SchedInv, SchedTypeOK, Task
  <2>3. \A k \in eligible_kinds : Fits(k)
    BY <1>3, ActiveCount DEF admit_choose, Fits, eligible_kinds, TasksOf
  <2>4. LimitsOutliveAwait' /\ OneRound' /\ OwnedByProcess'
    BY <1>1, <2>1, <2>3
    DEF LimitsOutliveAwait, OneRound, OwnedByProcess, Up, procvars, active, Fits, TasksOf
  <2>5. SchedInv'
    BY <1>1, <1>2, <2>1, <2>2, <2>4
    DEF SchedInv, SchedTypeOK, JobsInv, procvars, history, OneTaskPerJob, WithinLimits, TasksOf
  <2>6. ExecutionsArePaidFor'
    BY <1>1, <1>2, <2>5, PaidKept DEF SchedIInv, history
  <2>7. SuccessIsEarned'
    <3>1. Survive(tasks', tasks) /\ Left
      BY <1>1, EndSurvives, SameLate
    <3>. QED
      BY <1>1, <1>2, <2>5, <3>1, EarnedKept, QuietIsSteady DEF SchedIInv, history
  <2>. QED
    BY <2>5, <2>6, <2>7 DEF SchedIInv
<1>4. CASE \E c \in choosing : admit_none(c)
  <2>1. choosing' \subseteq choosing
    BY <1>4 DEF admit_none
  <2>2. Survive(tasks', tasks) /\ Left
    BY <1>1, EndSurvives, SameLate
  <2>3. Owned
    BY <1>1, <2>1
    DEF Owned, RoundKept, OneRound, OwnedByProcess, Up, procvars, SchedInv, SchedTypeOK
  <2>4. tasks' \ tasks = {}
    BY <1>1
  <2>. QED
    BY <1>1, <1>2, <2>2, <2>3, <2>4, QuietStep
<1>. QED
  BY <1>3, <1>4

(* The call leases a job under the limits it carries; nothing has made     *)
(* them stale.                                                             *)
LEMMA LeaseStep ==
  ASSUME SchedIInv, NEW c \in choosing, admit_lease(c)
  PROVE  SchedIInv'
<1>. SchedInv /\ JobsInv
  BY DEF SchedIInv, SchedInv
<1>0. owner \in Worker /\ granted = {} /\ choosing' = {} /\ c \in Choice
  BY DEF admit_lease, SchedInv, OwnedByProcess, Up, SchedTypeOK, OneRound
<1>1. PICK j \in Job :
        /\ lease_next_job(owner, j, Candidates(c))
        /\ granted' = IF c.awaited
                      THEN granted \cup {[job |-> j, epoch |-> job'[j].lease_epoch]}
                      ELSE granted
  BY DEF admit_lease
<1>. DEFINE g == [job |-> j, epoch |-> job'[j].lease_epoch]
<1>2. JobsInv' /\ AllQuiet /\ job'[j].lease_epoch = job[j].lease_epoch + 1
  BY <1>0, <1>1, LeaseInv, LeaseQuiet
<1>3. job'[j].lease_epoch \in Nat /\ job[j].lease_epoch \in Nat
  BY <1>2 DEF JobsInv, JobsTypeOK, Row
<1>4. job[j].status # "succeeded" /\ job'[j].status # "succeeded"
  BY <1>0, <1>1, LeaseQuiet DEF lease_next_job, Leasable
<1>5. UNCHANGED <<procvars, tasks, late, history>>
  BY DEF admit_lease
<1>6. j \notin c.excluded /\ KindOf[j] \in c.kinds
  BY <1>1 DEF lease_next_job, Candidates
<1>7. g \in Grant /\ g.job = j /\ g.epoch = job[j].lease_epoch + 1
  BY <1>2, <1>3 DEF Grant
<1>8. granted' \subseteq {g} /\ (granted' # {} => c.awaited)
  BY <1>0, <1>1
<1>. HIDE DEF g
<1>9. LimitsOutliveAwait'
  <2>1. c.awaited => j \notin active /\ Fits(KindOf[j])
    BY <1>6 DEF SchedInv, LimitsOutliveAwait
  <2>. QED
    BY <1>0, <1>5, <1>7, <1>8, <2>1 DEF LimitsOutliveAwait, active, Fits, TasksOf
<1>10. SchedInv'
  <2>1. OneRound' /\ OwnedByProcess'
    BY <1>0, <1>5, <1>8 DEF OneRound, OwnedByProcess, Up, procvars, SchedInv
  <2>2. SchedTypeOK'
    BY <1>0, <1>2, <1>5, <1>7, <1>8 DEF SchedInv, SchedTypeOK, JobsInv, procvars, history
  <2>. QED
    BY <1>2, <1>5, <1>9, <2>1, <2>2 DEF SchedInv, OneTaskPerJob, WithinLimits, TasksOf
<1>11. ExecutionsArePaidFor'
  BY <1>2, <1>5, <1>10, PaidKept DEF SchedIInv, history
<1>12. SuccessIsEarned'
  <2>. SuccessIsEarned /\ UNCHANGED <<late, completed, published>>
    BY <1>5 DEF history, SchedIInv
  <2>1. ASSUME NEW i \in Job
        PROVE  /\ job'[i].lease_epoch >= job[i].lease_epoch
               /\ job[i].status = "succeeded"
                    => job'[i].status = "succeeded" /\ job'[i].lease_epoch = job[i].lease_epoch
               /\ job'[i].status = "succeeded" => job[i].status = "succeeded"
               /\ job[i].lease_epoch \in Nat /\ job'[i].lease_epoch \in Nat
    BY <1>2, <1>10, Numbers DEF AllQuiet, Quiet
  <2>2. ASSUME NEW i \in Job PROVE Earned(i)'
    BY <2>1 DEF Earned, SuccessIsEarned
  <2>3. ASSUME NEW t \in tasks' PROVE CurrentTask(t)'
    <3>1. CurrentTask(t) /\ t.job \in Job /\ t.epoch \in Nat
      BY <1>5, CurrentParts, TaskTypes DEF SuccessIsEarned
    <3>. QED
      BY <2>1, <3>1 DEF CurrentTask
  <2>4. ASSUME NEW d \in late' PROVE CurrentCall(d)'
    <3>1. CurrentCall(d) /\ d.job \in Job /\ d.epoch \in Nat
      BY <2>4, CurrentParts, TaskTypes DEF SuccessIsEarned
    <3>2. /\ d.epoch <= job'[d.job].lease_epoch
          /\ (d.op = "finish" /\ d.epoch = job'[d.job].lease_epoch) => completed[d.job] = d.epoch
      BY <2>1, <3>1 DEF CurrentCall
    <3>. QED
      BY <1>5, <3>1, <3>2 DEF CurrentCall
  <2>5. ASSUME NEW h \in granted' PROVE CurrentGrant(h)'
    <3>1. h.job = j /\ h.epoch = job[j].lease_epoch + 1
      BY <1>7, <1>8
    <3>2. ASSUME NEW d \in late', d.job = j PROVE d.epoch <= h.epoch
      <4>1. d.epoch <= job[j].lease_epoch /\ d.epoch \in Nat
        BY <3>2, CurrentParts, TaskTypes DEF SuccessIsEarned, CurrentCall
      <4>. QED
        BY <1>3, <3>1, <4>1
    <3>. QED
      BY <1>2, <1>3, <1>4, <3>1, <3>2 DEF CurrentGrant
  <2>6. ResultsAreCurrent'
    BY <2>3, <2>4, <2>5 DEF ResultsAreCurrent, CurrentTask, CurrentCall, CurrentGrant
  <2>. QED
    BY <2>2, <2>6 DEF SuccessIsEarned, Earned
<1>. QED
  BY <1>10, <1>11, <1>12 DEF SchedIInv

(* A lease in hand gets its task: one more, of a job that had none. *)
LEMMA TrackStep ==
  ASSUME SchedIInv, NEW g \in granted, admit_track(g)
  PROVE  SchedIInv'
<1>. SchedInv /\ JobsInv
  BY DEF SchedIInv, SchedInv
<1>. DEFINE u == [job |-> g.job, epoch |-> g.epoch, pc |-> "starting", stop |-> FALSE]
<1>0. UNCHANGED <<vars, procvars, choosing, late, history>> /\ choosing = {} /\ granted' = {}
  BY DEF admit_track, SchedInv, OneRound
<1>1. g.job \in Job /\ g.epoch \in Nat /\ g.job \notin active /\ Fits(KindOf[g.job])
  BY TaskTypes DEF SchedInv, LimitsOutliveAwait
<1>2. u \in Task /\ u.job = g.job /\ u.pc = "starting" /\ u.epoch = g.epoch
  BY <1>1 DEF Task, TaskState
<1>3. tasks' = tasks \cup {u}
  BY DEF admit_track
<1>. HIDE DEF u
<1>4. JobsInv' /\ AllQuiet
  BY <1>0, SameTable
<1>5. IsFiniteSet(tasks) /\ IsFiniteSet(tasks') /\ tasks' \subseteq Task
  BY <1>2, <1>3, FS_AddElement DEF SchedInv, SchedTypeOK
<1>6. OneTaskPerJob'
  BY <1>1, <1>2, <1>3 DEF OneTaskPerJob, active, SchedInv
<1>7. Cardinality(tasks') <= max_concurrency
  <2>1. Cardinality(tasks) < max_concurrency /\ Cardinality(tasks) \in Nat
    BY <1>1, <1>5, FS_CardinalityType DEF Fits
  <2>2. Cardinality(tasks') <= Cardinality(tasks) + 1 /\ Cardinality(tasks') \in Nat
    BY <1>3, <1>5, <2>1, FS_AddElement, FS_CardinalityType
  <2>. QED
    BY <2>1, <2>2, SchedulerAssumption
<1>8. ASSUME NEW k \in Kind
      PROVE  Cardinality({t \in tasks' : KindOf[t.job] = k}) <= KindLimit[k]
  <2>. DEFINE S == {t \in tasks' : KindOf[t.job] = k}
              T == {t \in tasks : KindOf[t.job] = k}
  <2>1. IsFiniteSet(T) /\ Cardinality(T) <= KindLimit[k] /\ KindLimit[k] \in Nat
    BY <1>5, FS_Subset, SchedulerAssumption DEF SchedInv, WithinLimits, TasksOf
  <2>2. CASE KindOf[g.job] = k
    <3>1. S = T \cup {u}
      BY <1>2, <1>3, <2>2
    <3>2. Cardinality(T) < KindLimit[k]
      BY <1>1, <2>2 DEF Fits, TasksOf
    <3>. HIDE DEF S, T
    <3>3. Cardinality(T) \in Nat
      BY <2>1, FS_CardinalityType
    <3>4. IsFiniteSet(S)
          /\ Cardinality(S) = IF u \in T THEN Cardinality(T) ELSE Cardinality(T) + 1
      BY <2>1, <3>1, FS_AddElement
    <3>5. Cardinality(S) <= KindLimit[k]
      BY <2>1, <3>2, <3>3, <3>4
    <3>. QED
      BY <3>5 DEF S
  <2>3. CASE KindOf[g.job] # k
    <3>1. S = T
      BY <1>2, <1>3, <2>3
    <3>. QED
      BY <2>1, <3>1
  <2>. QED
    BY <2>2, <2>3
<1>9. SchedInv'
  <2>1. Up' /\ OneRound' /\ LimitsOutliveAwait'
    BY <1>0 DEF OneRound, LimitsOutliveAwait, OwnedByProcess, Up, procvars, SchedInv
  <2>2. WithinLimits'
    BY <1>7, <1>8 DEF WithinLimits, TasksOf
  <2>. QED
    BY <1>0, <1>4, <1>5, <1>6, <2>1, <2>2
    DEF SchedInv, SchedTypeOK, JobsInv, OwnedByProcess, procvars, history
<1>10. ExecutionsArePaidFor'
  <2>1. \A s \in tasks' \ tasks : s.pc # "started"
    BY <1>2, <1>3
  <2>. QED
    BY <1>0, <1>4, <1>9, <2>1, PaidKept DEF SchedIInv, history
<1>11. SuccessIsEarned'
  <2>. SuccessIsEarned /\ UNCHANGED <<job, late, completed, published>>
    BY <1>0 DEF history, vars, SchedIInv
  <2>1. CurrentGrant(g)
    BY CurrentParts DEF SuccessIsEarned
  <2>2. ASSUME NEW t \in tasks' PROVE CurrentTask(t)'
    <3>1. CASE t \in tasks
      BY <3>1, CurrentParts DEF SuccessIsEarned, CurrentTask
    <3>2. CASE t = u
      BY <1>2, <2>1, <3>2 DEF CurrentTask, CurrentGrant
    <3>. QED
      BY <1>3, <3>1, <3>2
  <2>3. ASSUME NEW c \in late' PROVE CurrentCall(c)'
    <3>1. CurrentCall(c)
      BY <2>3, CurrentParts DEF SuccessIsEarned
    <3>2. \A t \in tasks' : t.job = c.job => c.epoch <= t.epoch
      BY <1>2, <1>3, <2>1, <3>1 DEF CurrentCall, CurrentGrant
    <3>. QED
      BY <3>1, <3>2 DEF CurrentCall
  <2>4. ResultsAreCurrent'
    BY <1>0, <2>2, <2>3 DEF ResultsAreCurrent, CurrentTask, CurrentCall
  <2>. QED
    BY <2>4 DEF SuccessIsEarned
<1>. QED
  BY <1>9, <1>10, <1>11 DEF SchedIInv

LEMMA AdmissionSteps == SchedIInv /\ AdmissionStep => SchedIInv'
BY RoundSteps, LeaseStep, TrackStep DEF AdmissionStep

-----------------------------------------------------------------------------
(* The steps of a task that are quiet. *)

LEMMA MoveQuiet ==
  ASSUME SchedIInv, NEW t \in tasks, NEW pc \in TaskState, Moves(t, pc),
         pc # "started", pc \in {"reading", "finishing"} => completed[t.job] = t.epoch,
         JobsInv', AllQuiet, UNCHANGED <<procvars, admission, late, history>>
  PROVE  SchedIInv'
<1>. SchedInv
  BY DEF SchedIInv
<1>1. /\ Survive(tasks', tasks)
      /\ \A s \in tasks' \ tasks : s.pc = pc /\ s.job = t.job /\ s.epoch = t.epoch
  BY MoveSurvives
<1>2. Left
  BY SameLate
<1>3. Owned
  BY <1>1, <1>2, SameOwner
<1>. QED
  BY <1>1, <1>2, <1>3, QuietStep

LEMMA EndQuiet ==
  ASSUME SchedIInv, NEW t \in tasks, Ends(t),
         JobsInv', AllQuiet, UNCHANGED <<procvars, admission, late, history>>
  PROVE  SchedIInv'
<1>. SchedInv
  BY DEF SchedIInv
<1>1. Survive(tasks', tasks) /\ tasks' \ tasks = {}
  BY EndSurvives DEF Ends
<1>2. Left
  BY SameLate
<1>3. Owned
  BY <1>1, <1>2, SameOwner
<1>. QED
  BY <1>1, <1>2, <1>3, QuietStep

LEMMA QuietTaskSteps ==
  ASSUME SchedIInv, NEW t \in tasks,
         \/ execute_start_error(t) \/ execute_read(t) \/ execute_acknowledge(t)
         \/ execute_release(t) \/ execute_interrupted(t) \/ execute_settle(t) \/ heartbeat(t)
  PROVE  SchedIInv'
<1>. /\ SchedInv /\ JobsInv /\ t.job \in Job
     /\ {"starting", "acking", "finishing", "releasing", "settling"} \subseteq TaskState
  BY TaskTypes DEF SchedIInv, SchedInv, TaskState
<1>1. CASE execute_start_error(t)
  BY <1>1, SameTable, MoveQuiet DEF execute_start_error
<1>2. CASE execute_read(t)
  <2>1. JobsInv' /\ AllQuiet /\ UNCHANGED <<procvars, admission, late, history>>
    BY <1>2, SameTable DEF execute_read
  <2>2. completed[t.job] = t.epoch
    BY <1>2, CurrentParts DEF execute_read, SchedIInv, SuccessIsEarned, CurrentTask
  <2>3. Ends(t) \/ Moves(t, "acking") \/ Moves(t, "finishing")
    BY <1>2 DEF execute_read
  <2>. QED
    BY <2>1, <2>2, <2>3, MoveQuiet, EndQuiet
<1>3. CASE execute_acknowledge(t)
  BY <1>3, SameTable, AckInv, AckQuiet, MoveQuiet, EndQuiet DEF execute_acknowledge
<1>4. CASE execute_release(t)
  <2>1. JobsInv' /\ AllQuiet
    <3>1. CASE release_job(t.job, owner, t.epoch, t.pc = "unknown")
      <4>. DEFINE b == (t.pc = "unknown")
      <4>1. b \in BOOLEAN /\ release_job(t.job, owner, t.epoch, b)
        BY <3>1
      <4>. HIDE DEF b
      <4>. QED
        BY <4>1, ReleaseInv, ReleaseQuiet
    <3>2. CASE UNCHANGED vars
      BY <3>2, SameTable
    <3>. QED
      BY <1>4, <3>1, <3>2 DEF execute_release
  <2>2. Ends(t) /\ UNCHANGED <<procvars, admission, late, history>>
    BY <1>4 DEF execute_release
  <2>. QED
    BY <2>1, <2>2, EndQuiet
<1>5. CASE execute_interrupted(t)
  BY <1>5, SameTable, MoveQuiet, EndQuiet DEF execute_interrupted
<1>6. CASE execute_settle(t)
  BY <1>6, SameTable, AckInv, AckQuiet, EndQuiet DEF execute_settle
<1>7. CASE heartbeat(t)
  <2>0. UNCHANGED <<procvars, admission, late, history>>
    BY <1>7 DEF heartbeat
  <2>1. CASE heartbeat_job(t.job, owner, t.epoch) /\ UNCHANGED tasks
    BY <2>0, <2>1, HeartbeatInv, HeartbeatQuiet, TableSteps
  <2>2. CASE tasks' = (tasks \ {t}) \cup {[t EXCEPT !.stop = TRUE]} /\ UNCHANGED vars
    <3>1. Survive(tasks', tasks) /\ \A s \in tasks' \ tasks : s.pc = "handler"
      BY <1>7, <2>2, StopSurvives DEF heartbeat
    <3>2. Left
      BY <2>0, SameLate
    <3>3. Owned
      BY <2>0, <3>1, <3>2, SameOwner
    <3>. QED
      BY <2>0, <2>2, <3>1, <3>2, <3>3, SameTable, QuietStep
  <2>. QED
    BY <1>7, <2>1, <2>2 DEF heartbeat
<1>. QED
  BY <1>1, <1>2, <1>3, <1>4, <1>5, <1>6, <1>7

-----------------------------------------------------------------------------
(* The steps that use a paid invocation, or pay for one. *)

(* From the books of every job to the property. *)
LEMMA PaidNext ==
  ASSUME SchedInv, SchedInv', \A j \in Job :
           runs'[j] + Credit(job'[j]) + Begun(tasks', j) <= job'[j].attempt + waits'[j]
  PROVE  ExecutionsArePaidFor'
<1>1. OneTaskPerJob'
  BY DEF SchedInv
<1>2. \A j \in Job : runs'[j] + Promised(j)' <= job'[j].attempt + waits'[j]
  <2> SUFFICES ASSUME NEW j \in Job PROVE runs'[j] + Promised(j)' <= job'[j].attempt + waits'[j]
    OBVIOUS
  <2>1. Promised(j)' = Credit(job'[j]) + Begun(tasks', j)
    BY DEF Promised, Credit, Begun
  <2>2. runs'[j] + Credit(job'[j]) + Begun(tasks', j) <= job'[j].attempt + waits'[j]
    OBVIOUS
  <2>. QED
    BY <2>1, <2>2, Numbers
<1>. QED
  BY <1>1, <1>2 DEF ExecutionsArePaidFor

LEMMA StartStep ==
  ASSUME SchedIInv, NEW t \in tasks, execute_start(t)
  PROVE  SchedIInv'
<1>. /\ SchedInv /\ JobsInv /\ t.job \in Job /\ t \in Task
     /\ {"started", "releasing"} \subseteq TaskState
  BY TaskTypes DEF SchedIInv, SchedInv, TaskState
<1>0. UNCHANGED <<procvars, admission, late, history>>
  BY DEF execute_start
<1>1. CASE Moves(t, "releasing") /\ UNCHANGED vars
  BY <1>0, <1>1, SameTable, MoveQuiet
<1>2. CASE Moves(t, "started") /\ start_job(t.job, owner, t.epoch, IsSync(t.job))
  <2>1. /\ JobsInv' /\ AllQuiet
        /\ job'[t.job].attempt = job[t.job].attempt
        /\ Credit(job[t.job]) = 1 /\ Credit(job'[t.job]) = 0
    <3>1. IsSync(t.job) \in BOOLEAN
      BY DEF IsSync
    <3>. QED
      BY <1>2, <3>1, StartInv, StartQuiet
  <2>2. /\ Survive(tasks', tasks) /\ Left
        /\ \A s \in tasks' \ tasks : s.pc = "started" /\ s.job = t.job
    BY <1>0, <1>2, MoveSurvives, SameLate
  <2>3. SchedInv'
    BY <1>0, <2>1, <2>2, SameOwner, SameHistory, SchedKept
  <2>4. SuccessIsEarned'
    BY <1>0, <2>1, <2>2, <2>3, EarnedKept, QuietIsSteady DEF SchedIInv, history, admission
  <2>5. ASSUME NEW j \in Job
        PROVE  runs'[j] + Credit(job'[j]) + Begun(tasks', j) <= job'[j].attempt + waits'[j]
    <3>1. PaidFor(j)
      BY PaidNumbers DEF SchedIInv
    <3>2. runs'[j] = runs[j] /\ waits'[j] = waits[j]
      BY <1>0 DEF history
    <3>3. CASE j = t.job
      BY <2>1, <2>3, <3>1, <3>2, <3>3, Numbers DEF PaidFor
    <3>4. CASE j # t.job
      <4>1. Begun(tasks', j) <= Begun(tasks, j)
        BY <2>2, <3>4 DEF Begun
      <4>2. job[j].attempt + Credit(job'[j]) <= job'[j].attempt + Credit(job[j])
        BY <2>1 DEF AllQuiet, Quiet
      <4>. QED
        BY <2>3, <3>1, <3>2, <4>1, <4>2, Numbers DEF PaidFor
    <3>. QED
      BY <3>3, <3>4
  <2>. QED
    BY <2>3, <2>4, <2>5, PaidNext DEF SchedIInv
<1>. QED
  BY <1>1, <1>2 DEF execute_start

LEMMA InvokeStep ==
  ASSUME SchedIInv, NEW t \in tasks, execute_invoke(t)
  PROVE  SchedIInv'
<1>. /\ SchedInv /\ JobsInv /\ t.job \in Job /\ t \in Task
     /\ "handler" \in TaskState /\ runs \in [Job -> Nat]
  BY TaskTypes DEF SchedIInv, SchedInv, SchedTypeOK, TaskState
<1>0. /\ UNCHANGED <<procvars, admission, late, waits, completed, published>> /\ UNCHANGED vars
      /\ t.pc = "started" /\ Moves(t, "handler")
      /\ runs' = [runs EXCEPT ![t.job] = @ + 1]
  BY DEF execute_invoke
<1>1. JobsInv' /\ AllQuiet
  BY <1>0, SameTable
<1>2. /\ Survive(tasks', tasks) /\ Left
      /\ \A s \in tasks' \ tasks : s.pc = "handler" /\ s.job = t.job
      /\ t \notin tasks'
  <2>1. /\ Survive(tasks', tasks)
        /\ \A s \in tasks' \ tasks : s.pc = "handler" /\ s.job = t.job
    BY <1>0, MoveSurvives
  <2>2. [t EXCEPT !.pc = "handler"] # t
    BY <1>0 DEF Task
  <2>. QED
    BY <1>0, <2>1, <2>2, SameLate DEF Moves
<1>3. HistoryTyped
  BY <1>0 DEF HistoryTyped, SchedInv, SchedTypeOK
<1>4. SchedInv'
  BY <1>0, <1>1, <1>2, <1>3, SameOwner, SchedKept
<1>5. SuccessIsEarned'
  BY <1>0, <1>1, <1>2, <1>4, EarnedKept, QuietIsSteady DEF SchedIInv, admission
<1>6. ASSUME NEW j \in Job
      PROVE  runs'[j] + Credit(job'[j]) + Begun(tasks', j) <= job'[j].attempt + waits'[j]
  <2>1. PaidFor(j)
    BY PaidNumbers DEF SchedIInv
  <2>2. job'[j] = job[j] /\ waits'[j] = waits[j]
    BY <1>0 DEF vars
  <2>3. CASE j = t.job
    <3>1. Begun(tasks, j) = 1
      BY <1>0, <2>3 DEF Begun
    <3>2. Begun(tasks', j) = 0
      <4>1. \A s \in tasks' : s.job = t.job => s \notin tasks
        BY <1>2 DEF SchedInv, OneTaskPerJob
      <4>. QED
        BY <1>2, <2>3, <4>1 DEF Begun
    <3>3. runs'[j] = runs[j] + 1
      BY <1>0, <2>3
    <3>. QED
      BY <1>4, <2>1, <2>2, <3>1, <3>2, <3>3, Numbers DEF PaidFor
  <2>4. CASE j # t.job
    <3>1. Begun(tasks', j) <= Begun(tasks, j)
      BY <1>2, <2>4 DEF Begun
    <3>2. runs'[j] = runs[j]
      BY <1>0, <2>4
    <3>. QED
      BY <1>4, <2>1, <2>2, <3>1, <3>2, Numbers DEF PaidFor
  <2>. QED
    BY <2>3, <2>4
<1>. QED
  BY <1>4, <1>5, <1>6, PaidNext DEF SchedIInv

LEMMA WaitStep ==
  ASSUME SchedIInv, NEW t \in tasks, handler_waits(t)
  PROVE  SchedIInv'
<1>. SchedInv /\ JobsInv /\ t.job \in Job /\ waits \in [Job -> Nat]
  BY TaskTypes DEF SchedIInv, SchedInv, SchedTypeOK
<1>0. /\ UNCHANGED <<procvars, admission, tasks, late, runs, completed, published>>
      /\ mark_job_waiting(t.job, owner, t.epoch)
      /\ waits' = [waits EXCEPT ![t.job] = @ + 1]
  BY DEF handler_waits
<1>1. /\ JobsInv'
      /\ \A i \in Job \ {t.job} : job'[i] = job[i]
      /\ job[t.job].status = "running" /\ job[t.job].lease_epoch = t.epoch
      /\ job'[t.job].status = "waiting" /\ job'[t.job].lease_epoch = t.epoch
      /\ job'[t.job].attempt = job[t.job].attempt
      /\ Credit(job'[t.job]) <= Credit(job[t.job]) + 1
  BY <1>0, WaitingInv, WaitRows
<1>2. Survive(tasks', tasks) /\ Left /\ tasks' \ tasks = {}
  BY <1>0, EndSurvives, SameLate
<1>3. HistoryTyped
  BY <1>0 DEF HistoryTyped, SchedInv, SchedTypeOK
<1>4. SchedInv'
  BY <1>0, <1>1, <1>2, <1>3, SameOwner, SchedKept
<1>5. SuccessIsEarned'
  <2>1. Steady
    BY <1>1, <1>4, Numbers DEF Steady
  <2>. QED
    BY <1>0, <1>2, <1>4, <2>1, EarnedKept DEF SchedIInv, admission
<1>6. ASSUME NEW j \in Job
      PROVE  runs'[j] + Credit(job'[j]) + Begun(tasks', j) <= job'[j].attempt + waits'[j]
  <2>1. PaidFor(j) /\ runs'[j] = runs[j] /\ Begun(tasks', j) = Begun(tasks, j)
    BY <1>0, PaidNumbers DEF SchedIInv, Begun
  <2>2. CASE j = t.job
    <3>1. waits'[j] = waits[j] + 1
      BY <1>0, <2>2
    <3>. QED
      BY <1>1, <1>4, <2>1, <2>2, <3>1, Numbers DEF PaidFor
  <2>3. CASE j # t.job
    <3>1. waits'[j] = waits[j] /\ job'[j] = job[j]
      BY <1>0, <1>1, <2>3
    <3>. QED
      BY <1>4, <2>1, <3>1, Numbers DEF PaidFor
  <2>. QED
    BY <2>2, <2>3
<1>. QED
  BY <1>4, <1>5, <1>6, PaidNext DEF SchedIInv

-----------------------------------------------------------------------------
(* The steps that record a result or a success. *)

(* Finishing spends nothing. *)
LEMMA FinishPaid ==
  ASSUME SchedInv, SchedInv', ExecutionsArePaidFor, NEW j \in Job,
         \A i \in Job \ {j} : job'[i] = job[i],
         job'[j].attempt = job[j].attempt, Credit(job'[j]) <= Credit(job[j]),
         tasks' \subseteq tasks, UNCHANGED <<runs, waits>>
  PROVE  ExecutionsArePaidFor'
<1>1. ASSUME NEW i \in Job
      PROVE  runs'[i] + Credit(job'[i]) + Begun(tasks', i) <= job'[i].attempt + waits'[i]
  <2>1. PaidFor(i) /\ runs'[i] = runs[i] /\ waits'[i] = waits[i]
    BY PaidNumbers
  <2>2. Begun(tasks', i) <= Begun(tasks, i)
    BY DEF Begun
  <2>3. CASE i = j
    BY <2>1, <2>2, <2>3, Numbers DEF PaidFor
  <2>4. CASE i # j
    <3>1. job'[i] = job[i]
      BY <2>4
    <3>. QED
      BY <2>1, <2>2, <3>1, Numbers DEF PaidFor
  <2>. QED
    BY <2>3, <2>4
<1>. QED
  BY <1>1, PaidNext

(* A success recorded under epoch e was returned under epoch e. *)
LEMMA FinishEarned ==
  ASSUME SchedInv, SchedInv', SuccessIsEarned, NEW j \in Job, NEW e,
         \A i \in Job \ {j} : job'[i] = job[i] /\ completed'[i] = completed[i]
                              /\ published'[i] = published[i],
         job[j].status \in JOB_LEASED_STATES, job[j].lease_epoch = e,
         job'[j].status = "succeeded", job'[j].lease_epoch = e,
         completed'[j] = e, published'[j] \in {published[j], published[j] + 1},
         tasks' \subseteq tasks, late' \subseteq late,
         \A s \in tasks' : s.job = j => s.epoch = e,
         granted' \subseteq granted, \A g \in granted' : g.job = j => g.epoch = e
  PROVE  SuccessIsEarned'
<1>1. published[j] = 0
  BY Numbers DEF SuccessIsEarned
<1>2. ASSUME NEW i \in Job PROVE Earned(i)'
  BY <1>1 DEF Earned, SuccessIsEarned
<1>3. ASSUME NEW s \in tasks' PROVE CurrentTask(s)'
  <2>1. CurrentTask(s) /\ s.job \in Job
    BY CurrentParts, TaskTypes DEF SuccessIsEarned
  <2>2. CASE s.job = j
    BY <1>3, <2>1, <2>2 DEF CurrentTask
  <2>3. CASE s.job # j
    BY <2>1, <2>3 DEF CurrentTask
  <2>. QED
    BY <2>2, <2>3
<1>4. ASSUME NEW c \in late' PROVE CurrentCall(c)'
  <2>1. CurrentCall(c) /\ c.job \in Job
    BY CurrentParts, TaskTypes DEF SuccessIsEarned
  <2>2. CASE c.job = j
    BY <2>1, <2>2 DEF CurrentCall
  <2>3. CASE c.job # j
    BY <2>1, <2>3 DEF CurrentCall
  <2>. QED
    BY <2>2, <2>3
<1>5. ASSUME NEW g \in granted' PROVE CurrentGrant(g)'
  <2>1. CurrentGrant(g) /\ g.job \in Job
    BY CurrentParts, TaskTypes DEF SuccessIsEarned
  <2>2. CASE g.job = j
    BY <2>1, <2>2 DEF CurrentGrant
  <2>3. CASE g.job # j
    BY <2>1, <2>3 DEF CurrentGrant
  <2>. QED
    BY <2>2, <2>3
<1>6. ResultsAreCurrent'
  BY <1>3, <1>4, <1>5 DEF ResultsAreCurrent, CurrentTask, CurrentCall, CurrentGrant
<1>. QED
  BY <1>2, <1>6 DEF SuccessIsEarned, Earned

LEMMA FinishStep ==
  ASSUME SchedIInv, NEW t \in tasks, execute_finish(t)
  PROVE  SchedIInv'
<1>. /\ SchedInv /\ JobsInv /\ t.job \in Job
     /\ {"finishing", "releasing"} \subseteq TaskState
  BY TaskTypes DEF SchedIInv, SchedInv, TaskState
<1>0. t.pc = "finishing" /\ UNCHANGED <<procvars, admission, late, history>>
  BY DEF execute_finish
<1>1. CASE Moves(t, "releasing") /\ UNCHANGED vars
  BY <1>0, <1>1, SameTable, MoveQuiet
<1>2. CASE finish_job(t.job, owner, t.epoch, "succeeded") /\ Ends(t)
  <2>1. /\ JobsInv'
        /\ \A i \in Job \ {t.job} : job'[i] = job[i]
        /\ job[t.job].status \in JOB_LEASED_STATES /\ job[t.job].lease_epoch = t.epoch
        /\ job'[t.job].status = "succeeded" /\ job'[t.job].lease_epoch = t.epoch
        /\ job'[t.job].attempt = job[t.job].attempt
        /\ Credit(job'[t.job]) <= Credit(job[t.job])
    BY <1>2, FinishInv, FinishRows
  <2>2. tasks' = tasks \ {t} /\ Survive(tasks', tasks) /\ Left
    BY <1>0, <1>2, EndSurvives, SameLate DEF Ends
  <2>3. SchedInv'
    BY <1>0, <2>1, <2>2, SameOwner, SameHistory, SchedKept
  <2>4. UNCHANGED <<runs, waits, completed, published>>
    BY <1>0 DEF history
  <2>5. ExecutionsArePaidFor'
    BY <2>1, <2>2, <2>3, <2>4, FinishPaid DEF SchedIInv
  <2>6. completed[t.job] = t.epoch
    BY <1>0, CurrentParts DEF SchedIInv, SuccessIsEarned, CurrentTask
  <2>7. \A s \in tasks' : s.job # t.job
    BY <2>2 DEF SchedInv, OneTaskPerJob
  <2>8. granted' = granted /\ \A g \in granted : g.job # t.job
    BY <1>0, TaskTypes DEF admission, active
  <2>9. SuccessIsEarned'
    BY <1>0, <2>1, <2>2, <2>3, <2>4, <2>6, <2>7, <2>8, FinishEarned DEF SchedIInv
  <2>. QED
    BY <2>3, <2>5, <2>9 DEF SchedIInv
<1>. QED
  BY <1>1, <1>2 DEF execute_finish

LEMMA PublishStep ==
  ASSUME SchedIInv, NEW t \in tasks, commit_result(t)
  PROVE  SchedIInv'
<1>. /\ SchedInv /\ JobsInv /\ t.job \in Job /\ t.epoch \in Nat
     /\ published \in [Job -> Nat] /\ completed \in [Job -> Nat]
  BY TaskTypes DEF SchedIInv, SchedInv, SchedTypeOK
<1>0. /\ UNCHANGED <<procvars, admission, tasks, late, runs, waits>>
      /\ finish_job(t.job, owner, t.epoch, "succeeded")
      /\ published' = [published EXCEPT ![t.job] = @ + 1]
      /\ completed' = [completed EXCEPT ![t.job] = t.epoch]
  BY DEF commit_result
<1>1. /\ JobsInv'
      /\ \A i \in Job \ {t.job} : job'[i] = job[i]
      /\ job[t.job].status \in JOB_LEASED_STATES /\ job[t.job].lease_epoch = t.epoch
      /\ job'[t.job].status = "succeeded" /\ job'[t.job].lease_epoch = t.epoch
      /\ job'[t.job].attempt = job[t.job].attempt
      /\ Credit(job'[t.job]) <= Credit(job[t.job])
  BY <1>0, FinishInv, FinishRows
<1>2. Survive(tasks', tasks) /\ Left
  BY <1>0, EndSurvives, SameLate
<1>3. HistoryTyped
  BY <1>0 DEF HistoryTyped, SchedInv, SchedTypeOK
<1>4. SchedInv'
  BY <1>0, <1>1, <1>2, <1>3, SameOwner, SchedKept
<1>5. ExecutionsArePaidFor'
  BY <1>0, <1>1, <1>4, FinishPaid DEF SchedIInv
<1>6. \A s \in tasks' : s.job = t.job => s.epoch = t.epoch
  BY <1>0 DEF SchedInv, OneTaskPerJob
<1>7. SuccessIsEarned'
  <2>1. completed'[t.job] = t.epoch /\ published'[t.job] = published[t.job] + 1
    BY <1>0
  <2>2. \A i \in Job \ {t.job} : completed'[i] = completed[i] /\ published'[i] = published[i]
    BY <1>0
  <2>3. tasks' \subseteq tasks /\ late' \subseteq late
    BY <1>0
  <2>4. granted' = granted /\ \A g \in granted : g.job # t.job
    BY <1>0, TaskTypes DEF admission, active
  <2>. QED
    BY <1>1, <1>4, <1>6, <2>1, <2>2, <2>3, <2>4, FinishEarned DEF SchedIInv
<1>. QED
  BY <1>4, <1>5, <1>7 DEF SchedIInv

(* A handler returns: its result is of the epoch of its task. *)
LEMMA HandlerEndStep ==
  ASSUME SchedIInv, NEW t \in tasks, handler_ends(t)
  PROVE  SchedIInv'
<1>. /\ SchedInv /\ JobsInv /\ t.job \in Job /\ t.epoch \in Nat
     /\ {"reading", "releasing", "unknown", "interrupted"} \subseteq TaskState
     /\ completed \in [Job -> Nat]
  BY TaskTypes DEF SchedIInv, SchedInv, SchedTypeOK, TaskState
<1>0. /\ UNCHANGED <<vars, procvars, admission, late, runs, waits, published>>
      /\ JobsInv' /\ AllQuiet
  BY SameTable DEF handler_ends
<1>1. CASE UNCHANGED completed /\ \E pc \in {"releasing", "unknown", "interrupted"} : Moves(t, pc)
  <2>1. UNCHANGED history
    BY <1>0, <1>1 DEF history
  <2>. QED
    BY <1>0, <1>1, <2>1, MoveQuiet
<1>2. CASE Moves(t, "reading") /\ completed' = [completed EXCEPT ![t.job] = t.epoch]
  <2>1. /\ Survive(tasks', tasks) /\ Left
        /\ \A s \in tasks' \ tasks : s.pc = "reading" /\ s.job = t.job /\ s.epoch = t.epoch
    BY <1>0, <1>2, MoveSurvives, SameLate
  <2>2. HistoryTyped
    BY <1>0, <1>2 DEF HistoryTyped, SchedInv, SchedTypeOK
  <2>3. SchedInv'
    BY <1>0, <2>1, <2>2, SameOwner, SchedKept
  <2>4. ExecutionsArePaidFor'
    BY <1>0, <2>1, <2>3, PaidKept DEF SchedIInv
  <2>5. /\ completed'[t.job] = t.epoch
        /\ \A i \in Job \ {t.job} : completed'[i] = completed[i]
        /\ job' = job /\ published' = published /\ late' = late /\ granted' = granted
    BY <1>0, <1>2 DEF vars, admission
  <2>6. CurrentTask(t)
    BY CurrentParts DEF SchedIInv, SuccessIsEarned
  <2>7. ASSUME NEW i \in Job PROVE Earned(i)'
    <3>1. Earned(i)
      BY DEF SchedIInv, SuccessIsEarned, Earned
    <3>2. CASE i = t.job
      BY <2>5, <2>6, <3>1, <3>2 DEF Earned, CurrentTask
    <3>3. CASE i # t.job
      BY <2>5, <3>1, <3>3 DEF Earned
    <3>. QED
      BY <3>2, <3>3
  <2>8. ASSUME NEW s \in tasks' PROVE CurrentTask(s)'
    <3>1. CASE s.job = t.job
      <4>1. s.epoch = t.epoch
        BY <2>1, <3>1 DEF Survive, SchedInv, OneTaskPerJob
      <4>. QED
        BY <2>5, <2>6, <3>1, <4>1 DEF CurrentTask
    <3>2. CASE s.job # t.job
      <4>1. s \in tasks
        BY <2>1, <3>2
      <4>2. CurrentTask(s) /\ s.job \in Job
        BY <4>1, CurrentParts, TaskTypes DEF SchedIInv, SuccessIsEarned
      <4>. QED
        BY <2>5, <3>2, <4>2 DEF CurrentTask
    <3>. QED
      BY <3>1, <3>2
  <2>9. ASSUME NEW c \in late' PROVE CurrentCall(c)'
    <3>1. CurrentCall(c) /\ c.job \in Job /\ c.epoch \in Nat
      BY <2>5, <2>9, CurrentParts, TaskTypes DEF SchedIInv, SuccessIsEarned
    <3>2. \A s \in tasks' : s.job = c.job => c.epoch <= s.epoch
      BY <2>1, <3>1 DEF Survive, CurrentCall
    <3>3. (c.op = "finish" /\ c.epoch = job[c.job].lease_epoch) => completed'[c.job] = c.epoch
      <4>1. CASE c.job = t.job
        <5>1. c.epoch <= t.epoch /\ t.epoch <= job[t.job].lease_epoch
          BY <2>6, <3>1, <4>1 DEF CurrentCall, CurrentTask
        <5>2. job[t.job].lease_epoch \in Nat
          BY <2>3, Numbers
        <5>. QED
          BY <2>5, <3>1, <4>1, <5>1, <5>2
      <4>2. CASE c.job # t.job
        BY <2>5, <3>1, <4>2 DEF CurrentCall
      <4>. QED
        BY <4>1, <4>2
    <3>. QED
      BY <2>5, <3>1, <3>2, <3>3 DEF CurrentCall
  <2>10. ResultsAreCurrent'
    <3>1. \A g \in granted' : CurrentGrant(g)'
      BY <2>5, CurrentParts DEF SchedIInv, SuccessIsEarned, CurrentGrant
    <3>. QED
      BY <2>8, <2>9, <3>1 DEF ResultsAreCurrent, CurrentTask, CurrentCall, CurrentGrant
  <2>11. SuccessIsEarned'
    BY <2>7, <2>10 DEF SuccessIsEarned, Earned
  <2>. QED
    BY <2>3, <2>4, <2>11 DEF SchedIInv
<1>. QED
  BY <1>1, <1>2 DEF handler_ends

(* A call nobody awaits any more: it is fenced, or its task's result is    *)
(* still the last one.                                                     *)
LEMMA LateStep ==
  ASSUME SchedIInv, NEW c \in late, late_call(c)
  PROVE  SchedIInv'
<1>. SchedInv /\ JobsInv /\ c.job \in Job /\ c.epoch \in Nat
  BY TaskTypes DEF SchedIInv, SchedInv
<1>0. late' = late \ {c} /\ UNCHANGED <<procvars, admission, tasks, history>>
  BY DEF late_call
<1>1. Survive(tasks', tasks) /\ Left /\ tasks' \ tasks = {}
  BY <1>0, EndSurvives, SameLate
<1>2. Owned
  BY <1>0, <1>1, SameOwner
<1>3. CASE finish_job(c.job, c.worker, c.epoch, "succeeded") /\ c.op = "finish"
  <2>1. /\ JobsInv'
        /\ \A i \in Job \ {c.job} : job'[i] = job[i]
        /\ job[c.job].status \in JOB_LEASED_STATES /\ job[c.job].lease_epoch = c.epoch
        /\ job'[c.job].status = "succeeded" /\ job'[c.job].lease_epoch = c.epoch
        /\ job'[c.job].attempt = job[c.job].attempt
        /\ Credit(job'[c.job]) <= Credit(job[c.job])
    BY <1>3, FinishInv, FinishRows
  <2>2. SchedInv'
    BY <1>0, <1>1, <1>2, <2>1, SameHistory, SchedKept
  <2>3. UNCHANGED <<runs, waits, completed, published>>
    BY <1>0 DEF history
  <2>4. ExecutionsArePaidFor'
    BY <1>0, <2>1, <2>2, <2>3, FinishPaid DEF SchedIInv
  <2>5. CurrentCall(c) /\ \A t \in tasks : CurrentTask(t)
    BY CurrentParts DEF SchedIInv, SuccessIsEarned
  <2>6. completed[c.job] = c.epoch
    BY <1>3, <2>1, <2>5 DEF CurrentCall
  <2>7. ASSUME NEW s \in tasks', s.job = c.job PROVE s.epoch = c.epoch
    <3>1. s \in tasks /\ s.epoch \in Nat
      BY <1>0, TaskTypes
    <3>. QED
      BY <2>1, <2>5, <2>7, <3>1 DEF CurrentCall, CurrentTask
  <2>8. SuccessIsEarned'
    <3>1. late' \subseteq late /\ tasks' \subseteq tasks /\ granted' = granted
      BY <1>0 DEF admission
    <3>2. ASSUME NEW g \in granted, g.job = c.job PROVE g.epoch = c.epoch
      <4>1. CurrentGrant(g) /\ g.epoch \in Nat
        BY CurrentParts, TaskTypes DEF SchedIInv, SuccessIsEarned
      <4>. QED
        BY <2>1, <3>2, <4>1 DEF CurrentGrant
    <3>. QED
      BY <2>1, <2>2, <2>3, <2>6, <2>7, <3>1, <3>2, FinishEarned DEF SchedIInv
  <2>. QED
    BY <2>2, <2>4, <2>8 DEF SchedIInv
<1>4. CASE ~(finish_job(c.job, c.worker, c.epoch, "succeeded") /\ c.op = "finish")
  <2>1. JobsInv' /\ AllQuiet
    <3>. DEFINE b == (c.op = "unknown")
                sync == IsSync(c.job)
    <3>0. b \in BOOLEAN /\ sync \in BOOLEAN
      BY DEF IsSync
    <3>1. \/ start_job(c.job, c.worker, c.epoch, sync)
          \/ acknowledge_job_cancel(c.job, c.worker, c.epoch)
          \/ release_job(c.job, c.worker, c.epoch, b)
          \/ UNCHANGED vars
      BY <1>4 DEF late_call
    <3>. HIDE DEF b, sync
    <3>. QED
      BY <3>0, <3>1, StartInv, StartQuiet, AckInv, AckQuiet, ReleaseInv, ReleaseQuiet, SameTable
  <2>. QED
    BY <1>0, <1>1, <1>2, <2>1, QuietStep
<1>. QED
  BY <1>3, <1>4

-----------------------------------------------------------------------------
LEMMA SchedInitInv == SchedInit => SchedIInv
<1>. SUFFICES ASSUME SchedInit PROVE SchedIInv
  OBVIOUS
<1>. USE DEF SchedInit
<1>1. JobsInv
  BY JobsInitInv
<1>2. IsFiniteSet(tasks) /\ Cardinality(tasks) = 0
  BY FS_EmptySet
<1>3. WithinLimits
  <2>1. \A k \in Kind : TasksOf(k) = {}
    BY DEF TasksOf
  <2>. QED
    BY <1>2, <2>1, FS_EmptySet, SchedulerAssumption DEF WithinLimits
<1>4. SchedInv
  BY <1>1, <1>2, <1>3
  DEF SchedInv, SchedTypeOK, JobsInv, OwnedByProcess, OneTaskPerJob, OneRound, LimitsOutliveAwait
<1>5. \A j \in Job : job[j] = EmptyRow
  BY DEF JobsInit
<1>6. ExecutionsArePaidFor
  BY <1>4, <1>5 DEF ExecutionsArePaidFor, Promised, EmptyRow, SchedInv
<1>7. SuccessIsEarned
  BY <1>5 DEF SuccessIsEarned, ResultsAreCurrent, EmptyRow
<1>. QED
  BY <1>4, <1>6, <1>7 DEF SchedIInv

LEMMA SchedNextInv == SchedIInv /\ [SchedNext]_schedvars => SchedIInv'
<1>. SUFFICES ASSUME SchedIInv, [SchedNext]_schedvars PROVE SchedIInv'
  OBVIOUS
<1>1. ASSUME NEW t \in tasks,
             TaskStep(t) \/ HandlerStep(t) \/ heartbeat(t) \/ execute_start_error(t)
      PROVE  SchedIInv'
  BY <1>1, QuietTaskSteps, StartStep, InvokeStep, WaitStep, FinishStep, PublishStep,
     HandlerEndStep
  DEF TaskStep, HandlerStep
<1>2. CASE UNCHANGED schedvars
  BY <1>2, SameTable, TableSteps DEF schedvars, SchedIInv, SchedInv
<1>3. CASE SchedNext
  BY <1>1, <1>3, ProcessSteps, CallerSteps, ServiceSteps, AdmissionSteps, LateStep DEF SchedNext
<1>. QED
  BY <1>2, <1>3

(* The inductive invariant of the scheduler over the job table.            *)
THEOREM SchedulerInvariant == SchedSafety => []SchedIInv
BY SchedInitInv, SchedNextInv, PTL DEF SchedSafety

(* SchedInv: for any jobs, slots and kind limits there are never more      *)
(* tasks than slots, nor than a kind's limit, although recovery takes the  *)
(* leases of tasks that still unwind; the room a round of _admit_locked    *)
(* counted before its await is there when it creates the task; a job has   *)
(* one task, in a living process; the table keeps the invariant of         *)
(* WorkJobs.                                                               *)
THEOREM SchedulerCorrect == SchedSafety => []SchedInv
<1>1. SchedIInv => SchedInv
  BY DEF SchedIInv
<1>. QED
  BY <1>1, SchedulerInvariant, PTL

(* No job is executed twice at once by a process, and every invocation of  *)
(* a handler is paid for by an attempt or by a wait, through any number of *)
(* crashes, expired leases, abandoned leases and late calls.               *)
THEOREM ExecutionsCorrect == SchedSafety => []ExecutionsArePaidFor
<1>1. SchedIInv => ExecutionsArePaidFor
  BY DEF SchedIInv
<1>. QED
  BY <1>1, SchedulerInvariant, PTL

(* Success is recorded only for what a handler of the last lease returned, *)
(* also by a database call that outlived its task; a job publishes at most *)
(* once.                                                                   *)
THEOREM SuccessCorrect == SchedSafety => []SuccessIsEarned
<1>1. SchedIInv => SuccessIsEarned
  BY DEF SchedIInv
<1>. QED
  BY <1>1, SchedulerInvariant, PTL
=============================================================================
