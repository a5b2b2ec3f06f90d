-------------------------- MODULE AutomationsProofs --------------------------
(***************************************************************************)
(* Proofs about a saved automation, for any sets of identities and any     *)
(* bounds on edits, requests, faults and time.                             *)
(*                                                                         *)
(* The steps that write the document compose a few functions of the        *)
(* stored task, so what the invariant says of the task, of the jobs and of *)
(* the occurrences accepted is stated of any of them (StoreOK, JobsOK,     *)
(* ClaimsFit), and each function has a lemma that says what it keeps.      *)
(* Then there is one lemma per action.  Last comes the calendar: what      *)
(* is_due answers is what looking at every slot would find.                *)
(***************************************************************************)
EXTENDS Automations, FiniteSetTheorems, TLAPS

Accepted == [version : 0..MaxEdits, payload : Payload \cup {NoBody}]

Epochs == 0..(MaxEdits + MaxFaults)

\* A stored task: its claims are bounded, of the current epoch, and one per key.
StoreOK(s) ==
    /\ s \in Task /\ IsFiniteSet(s.triggers) /\ Cardinality(s.triggers) <= MaxClaims
    /\ s.scheduled.id = "none" => s.scheduled = NoClaim
    /\ s.scheduled # NoClaim \/ s.triggers # {} => s.live /\ s.enabled
    /\ s.scheduled # NoClaim => s.scheduled.epoch = s.epoch
    /\ \A c \in s.triggers : c.epoch = s.epoch
    /\ \A c, d \in s.triggers : c.id = d.id => c = d

\* The jobs are those of the occurrences accepted.
JobsOK(j, a) ==
    /\ j \in [Id -> Job] /\ a \in [Id -> Accepted]
    /\ \A i \in Id : j[i].status = "queued" => j[i].attempt < MaxAttempts
    /\ \A i \in Id : j[i].status # "none" => j[i].version = a[i].version /\ j[i].payload = a[i].payload
    /\ \A i \in Id : j[i].task_epoch = j[i].epoch

\* A claim whose job does not exist yet carries what was accepted.
ClaimsFit(s, j, a) ==
    /\ \A c \in s.triggers : j[c.id].status = "none" =>
          a[c.id] = [version |-> c.version, payload |-> c.payload]
    /\ s.scheduled # NoClaim /\ j[s.scheduled.id].status = "none" =>
          a[s.scheduled.id] = [version |-> s.scheduled.version, payload |-> NoBody]

\* The handlers of the running jobs, one of them executing, and the events of the finished.
RunsOK(h, j, e) ==
    /\ h \in [Id -> {"none", "waiting", "executing"}]
    /\ \A i \in Id : h[i] # "none" => j[i].status = "running"
    /\ \A i, k \in Id : h[i] = "executing" /\ h[k] = "executing" => i = k
    /\ e \subseteq Id /\ \A i \in e : j[i].status \in JOB_TERMINAL_STATES

\* The counters pay for the versions and the epochs.
CountsOK(s, n) ==
    /\ n \in [{"edit", "request", "fault"} -> Nat] /\ n["edit"] <= MaxEdits /\ n["fault"] <= MaxFaults
    /\ s.version <= n["edit"] /\ s.epoch <= n["edit"] + n["fault"]

RestOK(f, u, t) == f \subseteq Id /\ u \in BOOLEAN /\ t \in 0..MaxTime

Kept ==
    /\ StoreOK(store) /\ JobsOK(job, accepted) /\ ClaimsFit(store, job, accepted)
    /\ RunsOK(handler, job, events) /\ CountsOK(store, count) /\ RestOK(inflight, up, now)

\* The bodies of the action properties.
StartsOnlyLive ==
    \A i \in Id : handler[i] # "executing" /\ handler'[i] = "executing" =>
        store.live /\ job[i].task_epoch = store.epoch

LosesOnlySettled ==
    \A i \in Id :
        claim_is_active(store, i) /\ ~claim_is_active(store', i) =>
            job[i].status \in JOB_TERMINAL_STATES \/ ~store'.live \/ store'.epoch > store.epoch

StepRules == StartsOnlyLive /\ LosesOnlySettled

-----------------------------------------------------------------------------
(* The invariant in parts. *)

LEMMA KeptIsInv == Kept <=> AutomationsInv
<1>1. ASSUME Kept PROVE AutomationsInv
  <2>1. AutomationsTypeOK
    BY <1>1 DEF Kept, StoreOK, JobsOK, RunsOK, CountsOK, RestOK, AutomationsTypeOK, Accepted
  <2>2. RunsAsAccepted
    BY <1>1 DEF Kept, JobsOK, RunsOK, RunsAsAccepted
  <2>3. ClaimsAreCurrent
    BY <1>1 DEF Kept, StoreOK, ClaimsAreCurrent
  <2>4. JobsAsAccepted
    BY <1>1 DEF Kept, JobsOK, ClaimsFit, JobsAsAccepted
  <2>5. HandlersAndEvents
    BY <1>1 DEF Kept, RunsOK, HandlersAndEvents
  <2>. QED
    BY <2>1, <2>2, <2>3, <2>4, <2>5 DEF AutomationsInv
<1>2. ASSUME AutomationsInv PROVE Kept
  <2>1. StoreOK(store)
    BY <1>2 DEF AutomationsInv, AutomationsTypeOK, ClaimsAreCurrent, StoreOK
  <2>2. JobsOK(job, accepted)
    BY <1>2 DEF AutomationsInv, AutomationsTypeOK, JobsAsAccepted, JobsOK, Accepted
  <2>3. ClaimsFit(store, job, accepted)
    BY <1>2 DEF AutomationsInv, JobsAsAccepted, ClaimsFit
  <2>4. RunsOK(handler, job, events)
    BY <1>2 DEF AutomationsInv, AutomationsTypeOK, RunsAsAccepted, HandlersAndEvents, RunsOK
  <2>5. CountsOK(store, count) /\ RestOK(inflight, up, now)
    BY <1>2 DEF AutomationsInv, AutomationsTypeOK, CountsOK, RestOK
  <2>. QED
    BY <2>1, <2>2, <2>3, <2>4, <2>5 DEF Kept
<1>. QED
  BY <1>1, <1>2

LEMMA TaskFields ==
    ASSUME NEW s \in Task
    PROVE  /\ s.live \in BOOLEAN /\ s.enabled \in BOOLEAN /\ s.epoch \in Epochs
           /\ s.version \in 0..MaxEdits /\ s.trigger \in {"interval", "webhook"}
           /\ s.last_run \in 0..MaxTime /\ s.scheduled \in ScheduledClaim
           /\ s.triggers \in SUBSET TriggerClaim
BY DEF Task, Epochs

LEMMA ClaimFields ==
    ASSUME NEW c \in TriggerClaim
    PROVE  /\ c.id \in Hook /\ c.payload \in Payload /\ c.version \in 0..MaxEdits
           /\ c.epoch \in Epochs
BY DEF TriggerClaim, Epochs

LEMMA ScheduledFields ==
    ASSUME NEW c \in ScheduledClaim
    PROVE  /\ c.id \in Sched \cup {"none"} /\ c.previous_last_run \in 0..MaxTime
           /\ c.version \in 0..MaxEdits /\ c.epoch \in Epochs
BY DEF ScheduledClaim, Epochs

LEMMA JobFields ==
    ASSUME NEW j \in Job
    PROVE  /\ j.status \in {"none", "queued", "running"} \cup JOB_TERMINAL_STATES
           /\ j.attempt \in 0..MaxAttempts /\ j.cancel \in BOOLEAN /\ j.skipped \in BOOLEAN
           /\ j.version \in 0..MaxEdits /\ j.payload \in Payload \cup {NoBody}
           /\ j.epoch \in Epochs /\ j.task_epoch \in Epochs
BY DEF Job, Epochs

LEMMA NoClaimTyped == NoClaim \in ScheduledClaim /\ NoClaim.id = "none"
BY AutomationsAssumption DEF NoClaim, ScheduledClaim

LEMMA NoJobTyped == NoJob \in Job /\ NoJob.status = "none" /\ NoJob.task_epoch = NoJob.epoch
BY AutomationsAssumption DEF NoJob, Job

\* The identities of the three kinds of occurrences are apart.
LEMMA IdKinds ==
    /\ "none" \notin Id /\ Hook \subseteq Id /\ Sched \subseteq Id /\ Manual \subseteq Id
    /\ \A i \in Hook : i \notin Sched /\ i \notin Manual
    /\ \A i \in Sched : i \notin Hook /\ i \notin Manual
BY AutomationsAssumption DEF Id

\* Which claim of a task is active: the scheduled one, or the one of its key.
LEMMA ActiveClaims ==
    ASSUME NEW s, StoreOK(s), NEW i \in Id
    PROVE  /\ claim_is_active(s, i) <=> s.scheduled.id = i \/ \E c \in s.triggers : c.id = i
           /\ s.scheduled.id = i => i \in Sched /\ s.scheduled # NoClaim
           /\ (\E c \in s.triggers : c.id = i) => i \in Hook
           /\ i \in Manual => ~claim_is_active(s, i)
           /\ i \in Sched => (claim_is_active(s, i) <=> s.scheduled.id = i)
           /\ i \in Hook => (claim_is_active(s, i) <=> \E c \in s.triggers : c.id = i)
<1>1. s.scheduled \in ScheduledClaim /\ \A c \in s.triggers : c.id \in Hook
  BY TaskFields, ClaimFields DEF StoreOK
<1>2. s.scheduled.id \in Sched \cup {"none"}
  BY <1>1, ScheduledFields
<1>3. s.scheduled.id = i => i \in Sched /\ s.scheduled # NoClaim
  BY <1>2, IdKinds, NoClaimTyped
<1>4. (\E c \in s.triggers : c.id = i) => i \in Hook
  BY <1>1
<1>5. claim_is_active(s, i) <=> s.scheduled.id = i \/ \E c \in s.triggers : c.id = i
  <2>1. s.scheduled.id = i \/ (\E c \in s.triggers : c.id = i) => s.live /\ s.enabled
    BY <1>3 DEF StoreOK
  <2>. QED
    BY <2>1 DEF claim_is_active
<1>. QED
  BY <1>3, <1>4, <1>5, IdKinds

-----------------------------------------------------------------------------
(* What a task becomes. *)

LEMMA InitKept == Init => Kept
<1>. SUFFICES ASSUME Init PROVE Kept
  OBVIOUS
<1>1. PICK t \in {"interval", "webhook"} :
         store = [live |-> TRUE, enabled |-> TRUE, epoch |-> 0, version |-> 0,
                  trigger |-> t, last_run |-> 0, scheduled |-> NoClaim, triggers |-> {}]
  BY DEF Init
<1>2. store \in Task
  BY <1>1, NoClaimTyped, AutomationsAssumption DEF Task
<1>3. StoreOK(store)
  BY <1>1, <1>2, FS_EmptySet, AutomationsAssumption DEF StoreOK
<1>4. job \in [Id -> Job] /\ \A i \in Id : job[i] = NoJob
  BY NoJobTyped DEF Init
<1>5. accepted \in [Id -> Accepted]
  BY AutomationsAssumption DEF Init, Accepted
<1>6. JobsOK(job, accepted)
  BY <1>4, <1>5, NoJobTyped DEF JobsOK
<1>7. ClaimsFit(store, job, accepted)
  BY <1>1 DEF ClaimsFit
<1>8. RunsOK(handler, job, events)
  BY DEF Init, RunsOK
<1>9. CountsOK(store, count)
  BY <1>1, AutomationsAssumption DEF Init, CountsOK
<1>10. RestOK(inflight, up, now)
  BY AutomationsAssumption DEF Init, RestOK
<1>. QED
  BY <1>3, <1>6, <1>7, <1>8, <1>9, <1>10 DEF Kept

\* Finishing occurrences settles their claims, keeps the others, and changes nothing else
\* of the definition.
LEMMA FinalizeFacts ==
    ASSUME NEW s, StoreOK(s), NEW ids \in SUBSET Id
    PROVE  LET n == _finalize_automation_claim(s, ids)
           IN  /\ StoreOK(n) /\ n.epoch = s.epoch /\ n.version = s.version
               /\ n.live = s.live /\ n.enabled = s.enabled
               /\ n.scheduled \in {s.scheduled, NoClaim} /\ n.triggers \subseteq s.triggers
               /\ \A i \in Id : claim_is_active(s, i) /\ ~claim_is_active(n, i) => i \in ids
<1>. DEFINE mine == s.scheduled.id \in ids
            T == {c \in s.triggers : c.id \notin ids}
            C == IF mine THEN NoClaim ELSE s.scheduled
            L == IF mine /\ job[s.scheduled.id].skipped THEN s.scheduled.previous_last_run ELSE s.last_run
            n == _finalize_automation_claim(s, ids)
<1>1. s \in Task
  BY DEF StoreOK
<1>2. n = [s EXCEPT !.triggers = T, !.scheduled = C, !.last_run = L]
  BY <1>1 DEF _finalize_automation_claim, Task
<1>3. T \in SUBSET TriggerClaim /\ C \in ScheduledClaim /\ L \in 0..MaxTime
  BY <1>1, TaskFields, ScheduledFields, NoClaimTyped
<1>4. IsFiniteSet(T) /\ Cardinality(T) <= MaxClaims
  <2>1. IsFiniteSet(s.triggers) /\ Cardinality(s.triggers) <= MaxClaims /\ T \subseteq s.triggers
    BY DEF StoreOK
  <2>2. IsFiniteSet(T) /\ Cardinality(T) <= Cardinality(s.triggers)
    BY <2>1, FS_Subset
  <2>3. Cardinality(T) \in Nat /\ Cardinality(s.triggers) \in Nat
    BY <2>1, <2>2, FS_CardinalityType
  <2>. QED
    BY <2>1, <2>2, <2>3, AutomationsAssumption
<1>5. T \subseteq s.triggers /\ C \in {s.scheduled, NoClaim} /\ \A c \in s.triggers \ T : c.id \in ids
  OBVIOUS
<1>6. s.scheduled # C => s.scheduled.id \in ids
  OBVIOUS
<1>. HIDE DEF T, C, L
<1>7. /\ n \in Task /\ n.triggers = T /\ n.scheduled = C /\ n.last_run = L /\ n.live = s.live
      /\ n.enabled = s.enabled /\ n.epoch = s.epoch /\ n.version = s.version
  BY <1>1, <1>2, <1>3 DEF Task
<1>. HIDE DEF n
<1>8. StoreOK(n)
  BY <1>4, <1>5, <1>7, NoClaimTyped DEF StoreOK
<1>9. \A i \in Id : claim_is_active(s, i) /\ ~claim_is_active(n, i) => i \in ids
  BY <1>5, <1>6, <1>7, <1>8, ActiveClaims
<1>. QED
  BY <1>5, <1>7, <1>8, <1>9 DEF n

\* A finished task's claims still carry what was accepted.
LEMMA FewerClaimsFit ==
    ASSUME NEW s, NEW n, NEW j, NEW a, ClaimsFit(s, j, a),
           n.scheduled \in {s.scheduled, NoClaim}, n.triggers \subseteq s.triggers
    PROVE  ClaimsFit(n, j, a)
BY DEF ClaimsFit

\* A key that is admitted has one claim, with this body, of the current epoch.
LEMMA AdmitFacts ==
    ASSUME Kept, NEW k \in Hook, NEW p \in Payload, Admissible(k, p)
    PROVE  LET n == admit_trigger(k, p)
           IN  /\ StoreOK(n) /\ n.epoch = store.epoch /\ n.version = store.version
               /\ n.scheduled = store.scheduled /\ store.triggers \subseteq n.triggers
               /\ \A i \in Id : claim_is_active(store, i) => claim_is_active(n, i)
               /\ claim_is_active(n, k)
               /\ \A c \in n.triggers \ store.triggers :
                     c = [id |-> k, payload |-> p, version |-> store.version, epoch |-> store.epoch]
               /\ \E c \in n.triggers : c.id = k /\ c.payload = p
               /\ claim_is_active(store, k) => n = store
<1>. DEFINE new == [id |-> k, payload |-> p, version |-> store.version, epoch |-> store.epoch]
            n == admit_trigger(k, p)
<1>1. StoreOK(store) /\ store \in Task /\ k \in Id
  BY IdKinds DEF Kept, StoreOK
<1>2. store.live /\ store.enabled
  BY DEF Admissible
<1>3. CASE \E c \in store.triggers : c.id = k
  <2>1. n = store
    BY <1>1, <1>3 DEF admit_trigger, Task
  <2>2. claim_is_active(store, k)
    BY <1>2, <1>3 DEF claim_is_active
  <2>3. \E c \in store.triggers : c.id = k /\ c.payload = p
    BY <1>3 DEF Admissible
  <2>. QED
    BY <1>1, <2>1, <2>2, <2>3
<1>4. CASE ~\E c \in store.triggers : c.id = k
  <2>. DEFINE T == store.triggers \cup {new}
  <2>1. n = [store EXCEPT !.triggers = T]
    BY <1>1, <1>4 DEF admit_trigger, Task
  <2>2. new \in TriggerClaim
    BY <1>1, TaskFields DEF TriggerClaim, Epochs
  <2>3. T \in SUBSET TriggerClaim
    BY <1>1, <2>2, TaskFields
  <2>4. IsFiniteSet(T) /\ Cardinality(T) <= MaxClaims
    <3>1. IsFiniteSet(store.triggers) /\ new \notin store.triggers /\ Cardinality(store.triggers) < MaxClaims
      BY <1>1, <1>4 DEF StoreOK, Admissible
    <3>2. Cardinality(store.triggers) \in Nat
      BY <3>1, FS_CardinalityType
    <3>3. IsFiniteSet(T) /\ Cardinality(T) = Cardinality(store.triggers) + 1
      BY <3>1, FS_AddElement
    <3>. QED
      BY <3>1, <3>2, <3>3, AutomationsAssumption
  <2>5. /\ new.id = k /\ new.payload = p /\ new.epoch = store.epoch
        /\ \A c \in T : c \in store.triggers \/ c = new
        /\ store.triggers \subseteq T /\ new \in T
    OBVIOUS
  <2>. HIDE DEF T
  <2>6. /\ n \in Task /\ n.triggers = T /\ n.scheduled = store.scheduled /\ n.live /\ n.enabled
        /\ n.epoch = store.epoch /\ n.version = store.version
    BY <1>1, <1>2, <2>1, <2>3 DEF Task
  <2>. HIDE DEF n
  <2>7. StoreOK(n)
    BY <1>1, <1>4, <2>4, <2>5, <2>6 DEF StoreOK
  <2>8. claim_is_active(n, k)
    BY <2>5, <2>6 DEF claim_is_active
  <2>9. \A i \in Id : claim_is_active(store, i) => claim_is_active(n, i)
    BY <2>5, <2>6 DEF claim_is_active
  <2>10. ~claim_is_active(store, k)
    BY <1>1, <1>4, ActiveClaims
  <2>. QED
    BY <2>5, <2>6, <2>7, <2>8, <2>9, <2>10 DEF n
<1>. QED
  BY <1>3, <1>4

\* The automation that fires has one scheduled claim, of the current epoch, and keeps the others.
LEMMA ClaimDueFacts ==
    ASSUME Kept, NEW i \in Sched, Due
    PROVE  LET n == claim_due_tasks(i)
           IN  /\ StoreOK(n) /\ n.epoch = store.epoch /\ n.version = store.version
               /\ n.scheduled.id = i /\ n.scheduled.version = store.version
               /\ n.triggers = store.triggers
               /\ \A k \in Id : claim_is_active(store, k) => claim_is_active(n, k)
               /\ claim_is_active(n, i)
<1>. DEFINE new == [id |-> i, previous_last_run |-> store.last_run,
                    version |-> store.version, epoch |-> store.epoch]
            n == claim_due_tasks(i)
<1>1. StoreOK(store) /\ store \in Task /\ store.live /\ store.enabled /\ store.scheduled = NoClaim
  BY DEF Kept, StoreOK, Due
<1>2. n = [store EXCEPT !.last_run = now, !.scheduled = new]
  BY DEF claim_due_tasks
<1>3. new \in ScheduledClaim /\ now \in 0..MaxTime
  BY <1>1, TaskFields DEF ScheduledClaim, Epochs, Kept, RestOK
<1>4. new.id = i /\ new.version = store.version /\ new.epoch = store.epoch
  OBVIOUS
<1>. HIDE DEF new
<1>5. /\ n \in Task /\ n.triggers = store.triggers /\ n.scheduled = new /\ n.live /\ n.enabled
      /\ n.epoch = store.epoch /\ n.version = store.version
  BY <1>1, <1>2, <1>3 DEF Task
<1>. HIDE DEF n
<1>6. i # "none"
  BY IdKinds
<1>7. StoreOK(n)
  BY <1>1, <1>4, <1>5, <1>6 DEF StoreOK
<1>8. \A k \in Id : claim_is_active(store, k) => claim_is_active(n, k)
  BY <1>1, <1>5, NoClaimTyped, IdKinds DEF claim_is_active
<1>9. claim_is_active(n, i)
  BY <1>4, <1>5 DEF claim_is_active
<1>. QED
  BY <1>4, <1>5, <1>7, <1>8, <1>9 DEF n
-----------------------------------------------------------------------------
(* run_automation. *)

\* The settings and the body an active claim is run with are those of its acceptance.
LEMMA ClaimCarries ==
    ASSUME NEW s, StoreOK(s), NEW j, NEW a, ClaimsFit(s, j, a), NEW i \in Id,
           claim_is_active(s, i), j[i].status = "none"
    PROVE  /\ task_for_claim(s, i).version = a[i].version /\ Body(s, i) = a[i].payload
           /\ task_for_claim(s, i).epoch = s.epoch
<1>1. CASE s.scheduled.id = i
  <2>1. i \in Sched /\ s.scheduled # NoClaim /\ i \notin Hook
    BY <1>1, ActiveClaims, IdKinds
  <2>2. s.scheduled.epoch = s.epoch
    BY <2>1 DEF StoreOK
  <2>3. a[i] = [version |-> s.scheduled.version, payload |-> NoBody]
    BY <1>1, <2>1 DEF ClaimsFit
  <2>4. Frozen(s, i) = s.scheduled /\ Body(s, i) = NoBody
    BY <1>1, <2>1 DEF Frozen, Body
  <2>. QED
    BY <2>2, <2>3, <2>4 DEF task_for_claim
<1>2. CASE s.scheduled.id # i
  <2>1. (\E c \in s.triggers : c.id = i) /\ i \in Hook
    BY <1>2, ActiveClaims
  <2>. DEFINE d == CHOOSE c \in s.triggers : c.id = i
  <2>2. d \in s.triggers /\ d.id = i
    BY <2>1
  <2>3. Frozen(s, i) = d /\ Body(s, i) = d.payload
    BY <1>2, <2>1 DEF Frozen, Body
  <2>. HIDE DEF d
  <2>4. d.epoch = s.epoch
    BY <2>2 DEF StoreOK
  <2>5. a[i] = [version |-> d.version, payload |-> d.payload]
    BY <2>2 DEF ClaimsFit
  <2>. QED
    BY <2>3, <2>4, <2>5 DEF task_for_claim
<1>. QED
  BY <1>1, <1>2

\* A job that is created is queued, with the settings and the body it is given.
LEMMA NewJobFacts ==
    ASSUME NEW s, s.epoch \in Epochs, NEW task, NEW body,
           task.version \in 0..MaxEdits, task.epoch = s.epoch, body \in Payload \cup {NoBody}
    PROVE  LET n == NewJob(s, task, body)
           IN  /\ n \in Job /\ n.status = "queued" /\ n.attempt < MaxAttempts
               /\ n.version = task.version /\ n.payload = body /\ n.task_epoch = n.epoch
<1>. DEFINE v == task.version
            e == s.epoch
            n == NewJob(s, task, body)
<1>1. n = [NoJob EXCEPT !.status = "queued", !.version = v, !.payload = body,
                        !.task_epoch = e, !.epoch = e]
  BY DEF NewJob
<1>2. NoJob \in Job /\ NoJob.attempt = 0
  BY NoJobTyped DEF NoJob
<1>3. v \in 0..MaxEdits /\ e \in Epochs
  OBVIOUS
<1>. HIDE DEF v, e, n
<1>4. n \in Job
  BY <1>1, <1>2, <1>3 DEF Job, Epochs
<1>5. /\ n.status = "queued" /\ n.attempt = NoJob.attempt /\ n.version = v /\ n.payload = body
      /\ n.task_epoch = e /\ n.epoch = e
  BY <1>1, <1>2 DEF Job
<1>. QED
  BY <1>2, <1>4, <1>5, AutomationsAssumption DEF v, n

\* What run_automation leaves of the document and of the jobs, whatever its claims.
LEMMA RunFacts ==
    ASSUME NEW s, StoreOK(s), NEW ids \in SUBSET Id, \A i \in ids : claim_is_active(s, i),
           NEW a, JobsOK(job, a), ClaimsFit(s, job, a), run_automation(s, ids)
    PROVE  /\ StoreOK(store') /\ JobsOK(job', a) /\ ClaimsFit(store', job', a)
           /\ store'.epoch = s.epoch /\ store'.version = s.version
           /\ \A i \in Id : job[i].status # "none" => job'[i] = job[i]
           /\ \A i \in Id : claim_is_active(s, i) /\ ~claim_is_active(store', i) =>
                 job[i].status \in JOB_TERMINAL_STATES
<1>. DEFINE done == Finished(s, ids)
            new(i) == NewJob(s, task_for_claim(s, i), Body(s, i))
            starts(i) == i \in ids /\ job[i].status = "none"
<1>1. done \in SUBSET Id /\ \A i \in done : job[i].status \in JOB_TERMINAL_STATES
  BY DEF Finished
<1>2. /\ store' = _finalize_automation_claim(s, done)
      /\ job' = [i \in Id |-> IF starts(i) THEN new(i) ELSE job[i]]
  BY DEF run_automation
<1>3. \A i \in Id : starts(i) =>
         /\ new(i) \in Job /\ new(i).status = "queued" /\ new(i).attempt < MaxAttempts
         /\ new(i).version = a[i].version /\ new(i).payload = a[i].payload
         /\ new(i).task_epoch = new(i).epoch
  <2>. TAKE i \in Id
  <2>. HAVE starts(i)
  <2>. DEFINE task == task_for_claim(s, i)
              body == Body(s, i)
  <2>1. task.version = a[i].version /\ body = a[i].payload /\ task.epoch = s.epoch
    BY ClaimCarries
  <2>2. a[i] \in Accepted
    BY DEF JobsOK
  <2>3. a[i].version \in 0..MaxEdits /\ a[i].payload \in Payload \cup {NoBody}
    BY <2>2 DEF Accepted
  <2>4. s.epoch \in Epochs
    BY TaskFields DEF StoreOK
  <2>5. new(i) = NewJob(s, task, body)
    OBVIOUS
  <2>. HIDE DEF task, body, new
  <2>6. LET n == NewJob(s, task, body)
        IN  /\ n \in Job /\ n.status = "queued" /\ n.attempt < MaxAttempts
            /\ n.version = task.version /\ n.payload = body /\ n.task_epoch = n.epoch
    BY <2>1, <2>3, <2>4, NewJobFacts
  <2>. QED
    BY <2>1, <2>5, <2>6
<1>. HIDE DEF done, new
<1>4. /\ StoreOK(store') /\ store'.epoch = s.epoch /\ store'.version = s.version
      /\ store'.scheduled \in {s.scheduled, NoClaim} /\ store'.triggers \subseteq s.triggers
      /\ \A i \in Id : claim_is_active(s, i) /\ ~claim_is_active(store', i) => i \in done
  BY <1>1, <1>2, FinalizeFacts
<1>5. job \in [Id -> Job] /\ a \in [Id -> Accepted]
  BY DEF JobsOK
<1>6. \A i \in Id : IF starts(i) THEN job'[i] = new(i) ELSE job'[i] = job[i]
  BY <1>2
<1>7. job' \in [Id -> Job]
  BY <1>2, <1>3, <1>5
<1>8. \A i \in Id : job[i].status # "none" => job'[i] = job[i]
  BY <1>6
<1>9. JobsOK(job', a)
  <2>1. \A i \in Id : job'[i].status = "queued" => job'[i].attempt < MaxAttempts
    BY <1>3, <1>6 DEF JobsOK
  <2>2. \A i \in Id : job'[i].status # "none" =>
           job'[i].version = a[i].version /\ job'[i].payload = a[i].payload
    BY <1>3, <1>6 DEF JobsOK
  <2>3. \A i \in Id : job'[i].task_epoch = job'[i].epoch
    BY <1>3, <1>6 DEF JobsOK
  <2>. QED
    BY <1>5, <1>7, <2>1, <2>2, <2>3 DEF JobsOK
<1>10. ClaimsFit(store', job', a)
  <2>1. ClaimsFit(store', job, a)
    BY <1>4, FewerClaimsFit
  <2>2. \A c \in store'.triggers : c.id \in Id
    BY <1>4, TaskFields, ClaimFields, IdKinds DEF StoreOK
  <2>3. store'.scheduled # NoClaim => store'.scheduled.id \in Id
    BY <1>4, TaskFields, ScheduledFields, IdKinds DEF StoreOK
  <2>. QED
    BY <1>8, <2>1, <2>2, <2>3 DEF ClaimsFit
<1>. QED
  BY <1>1, <1>4, <1>8, <1>9, <1>10

\* Accepting an occurrence leaves the settings of the existing jobs alone.
LEMMA AcceptsFacts ==
    ASSUME Kept, NEW i \in Id, NEW p \in Payload \cup {NoBody}, Accepts(i, p)
    PROVE  /\ JobsOK(job, accepted')
           /\ \A k \in Id : k # i \/ job[k].status # "none" \/ claim_is_active(store, k) =>
                 accepted'[k] = accepted[k]
           /\ job[i].status = "none" /\ ~claim_is_active(store, i) =>
                 accepted'[i] = [version |-> store.version, payload |-> p]
<1>1. JobsOK(job, accepted) /\ store.version \in 0..MaxEdits
  BY TaskFields DEF Kept, StoreOK
<1>2. CASE job[i].status # "none" \/ claim_is_active(store, i)
  <2>1. accepted' = accepted
    BY <1>2 DEF Accepts
  <2>. QED
    BY <1>1, <1>2, <2>1
<1>3. CASE ~(job[i].status # "none" \/ claim_is_active(store, i))
  <2>. DEFINE new == [version |-> store.version, payload |-> p]
  <2>1. accepted' = [accepted EXCEPT ![i] = new]
    BY <1>3 DEF Accepts
  <2>2. new \in Accepted
    BY <1>1 DEF Accepted
  <2>. HIDE DEF new
  <2>3. accepted \in [Id -> Accepted]
    BY <1>1 DEF JobsOK
  <2>4. accepted' \in [Id -> Accepted] /\ accepted'[i] = new /\ \A k \in Id \ {i} : accepted'[k] = accepted[k]
    BY <2>1, <2>2, <2>3
  <2>5. \A k \in Id : job[k].status # "none" => accepted'[k] = accepted[k]
    BY <1>3, <2>4
  <2>6. JobsOK(job, accepted')
    BY <1>1, <2>4, <2>5 DEF JobsOK
  <2>. QED
    BY <1>3, <2>4, <2>6 DEF new
<1>. QED
  BY <1>2, <1>3

\* Claims of occurrences whose settings did not change, with those accepted just now.
LEMMA AcceptedFits ==
    ASSUME Kept, NEW i \in Id, NEW p \in Payload \cup {NoBody}, Accepts(i, p), NEW s,
           \A c \in s.triggers \ store.triggers :
              c.id = i /\ c.version = store.version /\ c.payload = p /\ ~claim_is_active(store, i),
           s.scheduled # store.scheduled =>
              s.scheduled.id = i /\ s.scheduled.version = store.version /\ p = NoBody
              /\ ~claim_is_active(store, i)
    PROVE  ClaimsFit(s, job, accepted')
<1>1. StoreOK(store) /\ ClaimsFit(store, job, accepted)
  BY DEF Kept
<1>2. \A k \in Id : k # i \/ job[k].status # "none" \/ claim_is_active(store, k) =>
                 accepted'[k] = accepted[k]
  BY AcceptsFacts
<1>3. job[i].status = "none" /\ ~claim_is_active(store, i) =>
                 accepted'[i] = [version |-> store.version, payload |-> p]
  BY AcceptsFacts
<1>4. \A c \in store.triggers : c.id \in Id /\ claim_is_active(store, c.id)
  BY <1>1, TaskFields, ClaimFields, IdKinds, ActiveClaims DEF StoreOK
<1>5. store.scheduled # NoClaim => store.scheduled.id \in Id /\ claim_is_active(store, store.scheduled.id)
  <2>. SUFFICES ASSUME store.scheduled # NoClaim
                PROVE  store.scheduled.id \in Id /\ claim_is_active(store, store.scheduled.id)
    OBVIOUS
  <2>1. store.scheduled.id \in Id
    BY <1>1, TaskFields, ScheduledFields, IdKinds DEF StoreOK
  <2>. QED
    BY <1>1, <2>1, ActiveClaims
<1>6. \A c \in s.triggers : job[c.id].status = "none" =>
          accepted'[c.id] = [version |-> c.version, payload |-> c.payload]
  <2>. TAKE c \in s.triggers
  <2>1. CASE c \in store.triggers
    BY <1>1, <1>2, <1>4, <2>1 DEF ClaimsFit
  <2>2. CASE c \notin store.triggers
    BY <1>3, <2>2
  <2>. QED
    BY <2>1, <2>2
<1>7. s.scheduled # NoClaim /\ job[s.scheduled.id].status = "none" =>
          accepted'[s.scheduled.id] = [version |-> s.scheduled.version, payload |-> NoBody]
  <2>1. CASE s.scheduled = store.scheduled
    BY <1>1, <1>2, <1>5, <2>1 DEF ClaimsFit
  <2>2. CASE s.scheduled # store.scheduled
    BY <1>3, <2>2
  <2>. QED
    BY <2>1, <2>2
<1>. QED
  BY <1>6, <1>7 DEF ClaimsFit
-----------------------------------------------------------------------------
(* Facts the actions share. *)

\* The claims of jobs that still do not exist fit as before.
LEMMA LaterJobsFit ==
    ASSUME NEW s, StoreOK(s), NEW j, NEW k, NEW a, ClaimsFit(s, j, a),
           \A i \in Id : k[i].status = "none" => j[i].status = "none"
    PROVE  ClaimsFit(s, k, a)
<1>1. \A c \in s.triggers : c.id \in Id
  BY TaskFields, ClaimFields, IdKinds DEF StoreOK
<1>2. s.scheduled # NoClaim => s.scheduled.id \in Id
  BY TaskFields, ScheduledFields, IdKinds DEF StoreOK
<1>. QED
  BY <1>1, <1>2 DEF ClaimsFit

\* Jobs that exist stay as they are: their handlers and events do, too.
LEMMA RunsWithNewJobs ==
    ASSUME NEW h, NEW j, NEW k, NEW e, RunsOK(h, j, e),
           \A i \in Id : j[i].status # "none" => k[i] = j[i]
    PROVE  RunsOK(h, k, e)
BY DEF RunsOK, JOB_TERMINAL_STATES

LEMMA HappensFacts ==
    ASSUME Kept, NEW x \in {"edit", "request", "fault"}, NEW max \in Nat, Happens(x, max)
    PROVE  /\ count' \in [{"edit", "request", "fault"} -> Nat]
           /\ count'[x] = count[x] + 1 /\ count'[x] <= max
           /\ \A y \in {"edit", "request", "fault"} : y # x => count'[y] = count[y]
<1>1. count \in [{"edit", "request", "fault"} -> Nat]
  BY DEF Kept, CountsOK
<1>2. count[x] < max /\ count' = [count EXCEPT ![x] = count[x] + 1]
  BY DEF Happens
<1>3. count[x] \in Nat
  BY <1>1
<1>4. /\ count' \in [{"edit", "request", "fault"} -> Nat] /\ count'[x] = count[x] + 1
      /\ \A y \in {"edit", "request", "fault"} : y # x => count'[y] = count[y]
  BY <1>1, <1>2, <1>3
<1>. QED
  BY <1>2, <1>3, <1>4

\* A step that raises no version and no epoch is covered by the counters.
LEMMA CountsKept ==
    ASSUME Kept, NEW s, s.version = store.version, s.epoch = store.epoch,
           \/ count' = count
           \/ Happens("edit", MaxEdits) \/ Happens("request", MaxRequests) \/ Happens("fault", MaxFaults)
    PROVE  CountsOK(s, count')
<1>1. CountsOK(store, count) /\ store.version \in Nat /\ store.epoch \in Nat
  BY TaskFields, AutomationsAssumption DEF Kept, StoreOK, Epochs
<1>2. count["edit"] \in Nat /\ count["fault"] \in Nat
  BY <1>1 DEF CountsOK
<1>3. MaxEdits \in Nat /\ MaxRequests \in Nat /\ MaxFaults \in Nat
  BY AutomationsAssumption
<1>4. CASE count' = count
  BY <1>1, <1>4 DEF CountsOK
<1>5. CASE Happens("edit", MaxEdits)
  <2>1. /\ count' \in [{"edit", "request", "fault"} -> Nat] /\ count'["edit"] = count["edit"] + 1
        /\ count'["edit"] <= MaxEdits /\ count'["fault"] = count["fault"]
    BY <1>3, <1>5, HappensFacts
  <2>. QED
    BY <1>1, <1>2, <2>1 DEF CountsOK
<1>6. CASE Happens("request", MaxRequests)
  <2>1. /\ count' \in [{"edit", "request", "fault"} -> Nat] /\ count'["edit"] = count["edit"]
        /\ count'["fault"] = count["fault"]
    BY <1>3, <1>6, HappensFacts
  <2>. QED
    BY <1>1, <1>2, <2>1 DEF CountsOK
<1>7. CASE Happens("fault", MaxFaults)
  <2>1. /\ count' \in [{"edit", "request", "fault"} -> Nat] /\ count'["fault"] = count["fault"] + 1
        /\ count'["fault"] <= MaxFaults /\ count'["edit"] = count["edit"]
    BY <1>3, <1>7, HappensFacts
  <2>. QED
    BY <1>1, <1>2, <2>1 DEF CountsOK
<1>. QED
  BY <1>4, <1>5, <1>6, <1>7

\* The process dies: no handler is left, nothing is in flight.
LEMMA DiesFacts ==
    ASSUME Kept, Dies
    PROVE  RunsOK(handler', job, events) /\ up' \in BOOLEAN /\ inflight' \subseteq Id /\ StartsOnlyLive
<1>1. \A i \in Id : handler'[i] = "none"
  BY DEF Dies
<1>2. handler' \in [Id -> {"none", "waiting", "executing"}]
  BY DEF Dies
<1>3. RunsOK(handler', job, events)
  BY <1>1, <1>2 DEF Kept, RunsOK
<1>. QED
  BY <1>1, <1>3 DEF Dies, StartsOnlyLive

LEMMA LosesNothing ==
    ASSUME store' = store
    PROVE  LosesOnlySettled
BY DEF LosesOnlySettled

LEMMA StartsNothing ==
    ASSUME \A i \in Id : handler'[i] = "executing" => handler[i] = "executing"
    PROVE  StartsOnlyLive
BY DEF StartsOnlyLive

\* The job leaves the running state.
LEMMA EndsFacts ==
    ASSUME Kept, NEW i \in Id, NEW status \in {"queued"} \cup JOB_TERMINAL_STATES, NEW skipped \in BOOLEAN,
           job[i].status = "running", status = "queued" => job[i].attempt < MaxAttempts,
           Ends(i, status, skipped)
    PROVE  /\ JobsOK(job', accepted) /\ ClaimsFit(store, job', accepted)
           /\ RunsOK(handler', job', events') /\ StartsOnlyLive
<1>. DEFINE left == [job[i] EXCEPT !.status = status, !.skipped = skipped]
            done == status \in JOB_TERMINAL_STATES
            new == IF done THEN [left EXCEPT !.attempt = 0, !.cancel = FALSE] ELSE left
<1>1. /\ job \in [Id -> Job] /\ accepted \in [Id -> Accepted] /\ handler \in [Id -> {"none", "waiting", "executing"}]
      /\ job[i] \in Job
  BY DEF Kept, JobsOK, RunsOK
<1>2. left \in Job /\ left.status = status /\ left.version = job[i].version
      /\ left.payload = job[i].payload /\ left.epoch = job[i].epoch
      /\ left.task_epoch = job[i].task_epoch /\ left.attempt = job[i].attempt
  BY <1>1 DEF Job
<1>3. job' = [job EXCEPT ![i] = new] /\ handler' = [handler EXCEPT ![i] = "none"]
      /\ events' = IF done THEN events \cup {i} ELSE events
  BY DEF Ends
<1>. HIDE DEF left, done
<1>4. new \in Job /\ new.status = status /\ new.version = job[i].version
      /\ new.payload = job[i].payload /\ new.epoch = job[i].epoch
      /\ new.task_epoch = job[i].task_epoch /\ (status = "queued" => new.attempt < MaxAttempts)
  <2>1. CASE done
    <3>1. new = [left EXCEPT !.attempt = 0, !.cancel = FALSE] /\ 0 \in 0..MaxAttempts
      BY <2>1, AutomationsAssumption
    <3>2. status # "queued"
      BY <2>1 DEF done, JOB_TERMINAL_STATES
    <3>. QED
      BY <1>2, <3>1, <3>2 DEF Job
  <2>2. CASE ~done
    BY <1>2, <2>2
  <2>. QED
    BY <2>1, <2>2
<1>. HIDE DEF new
<1>5. /\ job' \in [Id -> Job] /\ job'[i] = new /\ \A k \in Id \ {i} : job'[k] = job[k]
      /\ handler' \in [Id -> {"none", "waiting", "executing"}] /\ handler'[i] = "none"
      /\ \A k \in Id \ {i} : handler'[k] = handler[k]
  BY <1>1, <1>3, <1>4
<1>6. JobsOK(job', accepted)
  BY <1>1, <1>4, <1>5 DEF Kept, JobsOK
<1>7. ClaimsFit(store, job', accepted)
  <2>1. \A k \in Id : job'[k].status = "none" => job[k].status = "none"
    BY <1>4, <1>5 DEF JOB_TERMINAL_STATES
  <2>2. StoreOK(store) /\ ClaimsFit(store, job, accepted)
    BY DEF Kept
  <2>. QED
    BY <2>1, <2>2, LaterJobsFit
<1>8. RunsOK(handler', job', events')
  <2>1. RunsOK(handler, job, events)
    BY DEF Kept
  <2>2. \A k \in Id : handler'[k] # "none" => job'[k].status = "running"
    BY <1>5, <2>1 DEF RunsOK
  <2>3. \A k, l \in Id : handler'[k] = "executing" /\ handler'[l] = "executing" => k = l
    BY <1>5, <2>1 DEF RunsOK
  <2>4. i \notin events
    BY <2>1 DEF RunsOK, JOB_TERMINAL_STATES
  <2>5. events' \subseteq Id /\ \A k \in events' : job'[k].status \in JOB_TERMINAL_STATES
    <3>1. CASE done
      BY <1>3, <1>4, <1>5, <2>1, <3>1 DEF RunsOK, done
    <3>2. CASE ~done
      BY <1>3, <1>5, <2>1, <2>4, <3>2 DEF RunsOK
    <3>. QED
      BY <3>1, <3>2
  <2>. QED
    BY <1>5, <2>2, <2>3, <2>5 DEF RunsOK
<1>9. StartsOnlyLive
  BY <1>5, StartsNothing
<1>. QED
  BY <1>6, <1>7, <1>8, <1>9
-----------------------------------------------------------------------------
(* The actions. *)

LEMMA TimePasses ==
    ASSUME Kept, time_passes
    PROVE  Kept' /\ StepRules
<1>1. now' \in 0..MaxTime
  BY AutomationsAssumption DEF time_passes, Kept, RestOK
<1>2. UNCHANGED <<store, job, handler, events, inflight, up, accepted, count>>
  BY DEF time_passes
<1>3. Kept'
  BY <1>1, <1>2 DEF Kept, RestOK
<1>. QED
  BY <1>2, <1>3, LosesNothing, StartsNothing DEF StepRules

LEMMA Crash ==
    ASSUME Kept, crash
    PROVE  Kept' /\ StepRules
<1>1. Dies /\ UNCHANGED <<store, job, events, now, accepted>>
  BY DEF crash
<1>2. RunsOK(handler', job, events) /\ up' \in BOOLEAN /\ inflight' \subseteq Id /\ StartsOnlyLive
  BY <1>1, DiesFacts
<1>3. CountsOK(store, count')
  BY <1>1, CountsKept DEF Dies
<1>4. Kept'
  BY <1>1, <1>2, <1>3 DEF Kept, RestOK
<1>. QED
  BY <1>1, <1>2, <1>4, LosesNothing DEF StepRules

LEMMA Restart ==
    ASSUME Kept, restart
    PROVE  Kept' /\ StepRules
<1>1. up' \in BOOLEAN /\ UNCHANGED <<store, job, handler, events, inflight, now, accepted, count>>
  BY DEF restart
<1>2. Kept'
  BY <1>1 DEF Kept, RestOK
<1>. QED
  BY <1>1, <1>2, LosesNothing, StartsNothing DEF StepRules

\* The admitted claim carries what is accepted with it.
LEMMA AdmittedFits ==
    ASSUME Kept, NEW k \in Hook, NEW p \in Payload, Admissible(k, p), Accepts(k, p)
    PROVE  JobsOK(job, accepted') /\ ClaimsFit(admit_trigger(k, p), job, accepted')
<1>. DEFINE n == admit_trigger(k, p)
            new == [id |-> k, payload |-> p, version |-> store.version, epoch |-> store.epoch]
<1>1. k \in Id /\ p \in Payload \cup {NoBody}
  BY IdKinds
<1>2. JobsOK(job, accepted')
  BY <1>1, AcceptsFacts
<1>3. /\ n.scheduled = store.scheduled /\ (claim_is_active(store, k) => n = store)
      /\ \A c \in n.triggers \ store.triggers : c = new
  BY AdmitFacts
<1>4. new.id = k /\ new.version = store.version /\ new.payload = p
  OBVIOUS
<1>. HIDE DEF n, new
<1>5. \A c \in n.triggers \ store.triggers :
         c.id = k /\ c.version = store.version /\ c.payload = p /\ ~claim_is_active(store, k)
  BY <1>3, <1>4
<1>6. ClaimsFit(n, job, accepted')
  BY <1>1, <1>3, <1>5, AcceptedFits
<1>. QED
  BY <1>2, <1>6 DEF n

LEMMA HandleWebhook ==
    ASSUME Kept, NEW k \in Hook, NEW p \in Payload, handle_webhook(k, p)
    PROVE  Kept' /\ StepRules
<1>. DEFINE n == admit_trigger(k, p)
<1>1. /\ Happens("request", MaxRequests) /\ Admissible(k, p) /\ Accepts(k, p)
      /\ run_automation(n, {k}) /\ inflight' = inflight \ Finished(n, {k})
      /\ UNCHANGED <<handler, events, up, now>>
  BY DEF handle_webhook
<1>2. JobsOK(job, accepted') /\ ClaimsFit(n, job, accepted')
  BY <1>1, AdmittedFits
<1>3. /\ StoreOK(n) /\ n.epoch = store.epoch /\ n.version = store.version /\ claim_is_active(n, k)
      /\ \A i \in Id : claim_is_active(store, i) => claim_is_active(n, i)
  BY <1>1, AdmitFacts
<1>. HIDE DEF n
<1>4. {k} \in SUBSET Id
  BY IdKinds
<1>5. /\ StoreOK(store') /\ JobsOK(job', accepted') /\ ClaimsFit(store', job', accepted')
      /\ store'.epoch = n.epoch /\ store'.version = n.version
      /\ \A i \in Id : job[i].status # "none" => job'[i] = job[i]
      /\ \A i \in Id : claim_is_active(n, i) /\ ~claim_is_active(store', i) =>
            job[i].status \in JOB_TERMINAL_STATES
  BY <1>1, <1>2, <1>3, <1>4, RunFacts
<1>6. RunsOK(handler', job', events')
  BY <1>1, <1>5, RunsWithNewJobs DEF Kept
<1>7. CountsOK(store', count')
  BY <1>1, <1>3, <1>5, CountsKept
<1>8. RestOK(inflight', up', now')
  BY <1>1 DEF Kept, RestOK
<1>9. Kept'
  BY <1>5, <1>6, <1>7, <1>8 DEF Kept
<1>10. LosesOnlySettled
  BY <1>3, <1>5 DEF LosesOnlySettled
<1>. QED
  BY <1>1, <1>9, <1>10, StartsNothing DEF StepRules

LEMMA HandleWebhookCrashes ==
    ASSUME Kept, NEW k \in Hook, NEW p \in Payload, handle_webhook_crashes(k, p)
    PROVE  Kept' /\ StepRules
<1>1. /\ Admissible(k, p) /\ Accepts(k, p) /\ store' = admit_trigger(k, p) /\ Dies
      /\ UNCHANGED <<job, events, now>>
  BY DEF handle_webhook_crashes
<1>2. JobsOK(job, accepted') /\ ClaimsFit(store', job, accepted')
  BY <1>1, AdmittedFits
<1>3. /\ StoreOK(store') /\ store'.epoch = store.epoch /\ store'.version = store.version
      /\ \A i \in Id : claim_is_active(store, i) => claim_is_active(store', i)
  BY <1>1, AdmitFacts
<1>4. RunsOK(handler', job, events) /\ up' \in BOOLEAN /\ inflight' \subseteq Id /\ StartsOnlyLive
  BY <1>1, DiesFacts
<1>5. CountsOK(store', count')
  BY <1>1, <1>3, CountsKept DEF Dies
<1>6. Kept'
  BY <1>1, <1>2, <1>3, <1>4, <1>5 DEF Kept, RestOK
<1>. QED
  BY <1>3, <1>4, <1>6 DEF StepRules, LosesOnlySettled

LEMMA RecoverDurableClaims ==
    ASSUME Kept, _recover_durable_claims
    PROVE  Kept' /\ StepRules
<1>. DEFINE ids == {i \in Id : claim_is_active(store, i) /\ i \notin inflight}
<1>1. /\ run_automation(store, ids) /\ ids \in SUBSET Id
      /\ \A i \in ids : claim_is_active(store, i)
      /\ inflight' = (inflight \cup {i \in ids : ~Conflicts(store, i)}) \ Finished(store, ids)
      /\ UNCHANGED <<handler, events, up, now, accepted, count>>
  BY DEF _recover_durable_claims
<1>. HIDE DEF ids
<1>2. StoreOK(store) /\ JobsOK(job, accepted) /\ ClaimsFit(store, job, accepted)
  BY DEF Kept
<1>3. /\ StoreOK(store') /\ JobsOK(job', accepted) /\ ClaimsFit(store', job', accepted)
      /\ store'.epoch = store.epoch /\ store'.version = store.version
      /\ \A i \in Id : job[i].status # "none" => job'[i] = job[i]
      /\ \A i \in Id : claim_is_active(store, i) /\ ~claim_is_active(store', i) =>
            job[i].status \in JOB_TERMINAL_STATES
  BY <1>1, <1>2, RunFacts
<1>4. RunsOK(handler', job', events')
  BY <1>1, <1>3, RunsWithNewJobs DEF Kept
<1>5. CountsOK(store', count')
  BY <1>1, <1>3, CountsKept
<1>6. RestOK(inflight', up', now')
  BY <1>1 DEF Kept, RestOK
<1>7. Kept'
  BY <1>1, <1>3, <1>4, <1>5, <1>6 DEF Kept
<1>8. LosesOnlySettled
  BY <1>3 DEF LosesOnlySettled
<1>. QED
  BY <1>1, <1>7, <1>8, StartsNothing DEF StepRules

\* The scheduled claim carries what is accepted with it.
LEMMA DueFits ==
    ASSUME Kept, NEW i \in Sched, Due, Accepts(i, NoBody)
    PROVE  JobsOK(job, accepted') /\ ClaimsFit(claim_due_tasks(i), job, accepted')
<1>. DEFINE n == claim_due_tasks(i)
<1>1. i \in Id /\ i # "none" /\ NoBody \in Payload \cup {NoBody}
  BY IdKinds
<1>2. JobsOK(job, accepted')
  BY <1>1, AcceptsFacts
<1>3. n.scheduled.id = i /\ n.scheduled.version = store.version /\ n.triggers = store.triggers
  BY ClaimDueFacts
<1>4. ~claim_is_active(store, i)
  <2>1. StoreOK(store) /\ store.scheduled.id # i
    BY <1>1, NoClaimTyped DEF Kept, Due
  <2>. QED
    BY <1>1, <2>1, ActiveClaims
<1>. HIDE DEF n
<1>5. \A c \in n.triggers \ store.triggers :
         c.id = i /\ c.version = store.version /\ c.payload = NoBody /\ ~claim_is_active(store, i)
  BY <1>3
<1>6. ClaimsFit(n, job, accepted')
  BY <1>1, <1>3, <1>4, <1>5, AcceptedFits
<1>. QED
  BY <1>2, <1>6 DEF n

LEMMA AutomationLoopFires ==
    ASSUME Kept, NEW i \in Sched, automation_loop_fires(i)
    PROVE  Kept' /\ StepRules
<1>. DEFINE n == claim_due_tasks(i)
<1>1. /\ Due /\ Accepts(i, NoBody) /\ run_automation(n, {i}) /\ inflight' = inflight \cup {i}
      /\ UNCHANGED <<handler, events, up, now, count>>
  BY DEF automation_loop_fires
<1>2. JobsOK(job, accepted') /\ ClaimsFit(n, job, accepted')
  BY <1>1, DueFits
<1>3. /\ StoreOK(n) /\ n.epoch = store.epoch /\ n.version = store.version /\ claim_is_active(n, i)
      /\ \A k \in Id : claim_is_active(store, k) => claim_is_active(n, k)
  BY <1>1, ClaimDueFacts
<1>. HIDE DEF n
<1>4. {i} \in SUBSET Id
  BY IdKinds
<1>5. /\ StoreOK(store') /\ JobsOK(job', accepted') /\ ClaimsFit(store', job', accepted')
      /\ store'.epoch = n.epoch /\ store'.version = n.version
      /\ \A k \in Id : job[k].status # "none" => job'[k] = job[k]
      /\ \A k \in Id : claim_is_active(n, k) /\ ~claim_is_active(store', k) =>
            job[k].status \in JOB_TERMINAL_STATES
  BY <1>1, <1>2, <1>3, <1>4, RunFacts
<1>6. RunsOK(handler', job', events')
  BY <1>1, <1>5, RunsWithNewJobs DEF Kept
<1>7. CountsOK(store', count')
  BY <1>1, <1>3, <1>5, CountsKept
<1>8. RestOK(inflight', up', now')
  BY <1>1, <1>4 DEF Kept, RestOK
<1>9. Kept'
  BY <1>5, <1>6, <1>7, <1>8 DEF Kept
<1>10. LosesOnlySettled
  BY <1>3, <1>5 DEF LosesOnlySettled
<1>. QED
  BY <1>1, <1>9, <1>10, StartsNothing DEF StepRules

LEMMA AutomationLoopCrashes ==
    ASSUME Kept, NEW i \in Sched, automation_loop_crashes(i)
    PROVE  Kept' /\ StepRules
<1>1. /\ Due /\ Accepts(i, NoBody) /\ store' = claim_due_tasks(i) /\ Dies
      /\ UNCHANGED <<job, events, now>>
  BY DEF automation_loop_crashes
<1>2. JobsOK(job, accepted') /\ ClaimsFit(store', job, accepted')
  BY <1>1, DueFits
<1>3. /\ StoreOK(store') /\ store'.epoch = store.epoch /\ store'.version = store.version
      /\ \A k \in Id : claim_is_active(store, k) => claim_is_active(store', k)
  BY <1>1, ClaimDueFacts
<1>4. RunsOK(handler', job, events) /\ up' \in BOOLEAN /\ inflight' \subseteq Id /\ StartsOnlyLive
  BY <1>1, DiesFacts
<1>5. CountsOK(store', count')
  BY <1>1, <1>3, CountsKept DEF Dies
<1>6. Kept'
  BY <1>1, <1>2, <1>3, <1>4, <1>5 DEF Kept, RestOK
<1>. QED
  BY <1>3, <1>4, <1>6 DEF StepRules, LosesOnlySettled

\* A manual run has no claim: its job carries the settings of the moment.
LEMMA AutomationRun ==
    ASSUME Kept, NEW i \in Manual, _automation_run(i)
    PROVE  Kept' /\ StepRules
<1>. DEFINE task == [version |-> store.version, epoch |-> store.epoch]
            new == NewJob(store, task, NoBody)
<1>1. /\ job[i].status = "none" /\ Happens("request", MaxRequests) /\ job' = [job EXCEPT ![i] = new]
      /\ Accepts(i, NoBody) /\ UNCHANGED <<store, handler, events, inflight, up, now>>
  BY DEF _automation_run
<1>2. StoreOK(store) /\ ClaimsFit(store, job, accepted) /\ i \in Id /\ NoBody \in Payload \cup {NoBody}
  BY IdKinds DEF Kept, Id
<1>3. store.version \in 0..MaxEdits /\ store.epoch \in Epochs
  BY <1>2, TaskFields DEF StoreOK
<1>4. task.version = store.version /\ task.epoch = store.epoch
  OBVIOUS
<1>. HIDE DEF task
<1>5. /\ new \in Job /\ new.status = "queued" /\ new.attempt < MaxAttempts
      /\ new.version = store.version /\ new.payload = NoBody /\ new.task_epoch = new.epoch
  BY <1>2, <1>3, <1>4, NewJobFacts
<1>. HIDE DEF new
<1>6. ~claim_is_active(store, i)
  BY <1>2, ActiveClaims
<1>7. /\ JobsOK(job, accepted') /\ accepted'[i] = [version |-> store.version, payload |-> NoBody]
      /\ \A k \in Id : k # i => accepted'[k] = accepted[k]
  BY <1>1, <1>2, <1>6, AcceptsFacts
<1>8. /\ job' \in [Id -> Job] /\ job'[i] = new /\ \A k \in Id \ {i} : job'[k] = job[k]
  BY <1>1, <1>2, <1>5, <1>7 DEF JobsOK
<1>9. JobsOK(job', accepted')
  BY <1>5, <1>7, <1>8 DEF JobsOK
<1>10. ClaimsFit(store', job', accepted')
  <2>1. ClaimsFit(store, job, accepted')
    <3>1. \A c \in store.triggers \ store.triggers :
             c.id = i /\ c.version = store.version /\ c.payload = NoBody /\ ~claim_is_active(store, i)
      OBVIOUS
    <3>. QED
      BY <1>1, <1>2, <3>1, AcceptedFits
  <2>2. \A k \in Id : job'[k].status = "none" => job[k].status = "none"
    BY <1>1, <1>8
  <2>. QED
    BY <1>1, <1>2, <2>1, <2>2, LaterJobsFit
<1>11. RunsOK(handler', job', events')
  <2>1. \A k \in Id : job[k].status # "none" => job'[k] = job[k]
    BY <1>1, <1>8
  <2>. QED
    BY <1>1, <2>1, RunsWithNewJobs DEF Kept
<1>12. CountsOK(store', count')
  BY <1>1, CountsKept
<1>13. Kept'
  BY <1>1, <1>9, <1>10, <1>11, <1>12 DEF Kept, RestOK
<1>. QED
  BY <1>1, <1>13, LosesNothing, StartsNothing DEF StepRules

LEMMA Update ==
    ASSUME Kept, update
    PROVE  Kept' /\ StepRules
<1>1. /\ store.live /\ Happens("edit", MaxEdits)
      /\ UNCHANGED <<job, handler, events, inflight, up, now, accepted>>
  BY DEF update
<1>2. StoreOK(store) /\ store \in Task /\ ClaimsFit(store, job, accepted) /\ CountsOK(store, count)
  BY DEF Kept, StoreOK
<1>3. store.version \in Nat /\ store.epoch \in Nat /\ store.version <= count["edit"]
      /\ count["edit"] \in Nat /\ count["fault"] \in Nat /\ store.epoch <= count["edit"] + count["fault"]
      /\ count["fault"] <= MaxFaults /\ MaxEdits \in Nat /\ MaxFaults \in Nat
  BY <1>2, TaskFields, AutomationsAssumption DEF CountsOK, Epochs
<1>4. /\ count' \in [{"edit", "request", "fault"} -> Nat] /\ count'["edit"] = count["edit"] + 1
      /\ count'["edit"] <= MaxEdits /\ count'["fault"] = count["fault"]
  BY <1>1, <1>3, HappensFacts
<1>5. /\ store' \in Task /\ store'.scheduled = store.scheduled /\ store'.triggers = store.triggers
      /\ store'.live = store.live /\ store'.epoch = store.epoch /\ (store.enabled => store'.enabled)
      /\ store'.version \in {store.version, store.version + 1}
  <2>1. CASE store' = [store EXCEPT !.version = store.version + 1]
    <3>1. store.version + 1 \in 0..MaxEdits
      BY <1>3, <1>4
    <3>. QED
      BY <1>2, <2>1, <3>1 DEF Task
  <2>2. CASE ~store.enabled /\ store' = [store EXCEPT !.enabled = TRUE]
    BY <1>2, <2>2 DEF Task
  <2>. QED
    BY <2>1, <2>2 DEF update
<1>6. StoreOK(store')
  BY <1>2, <1>5 DEF StoreOK
<1>7. ClaimsFit(store', job, accepted)
  BY <1>2, <1>5 DEF ClaimsFit
<1>8. CountsOK(store', count')
  BY <1>3, <1>4, <1>5 DEF CountsOK
<1>9. Kept'
  BY <1>1, <1>6, <1>7, <1>8 DEF Kept, RestOK
<1>10. LosesOnlySettled
  BY <1>5 DEF LosesOnlySettled, claim_is_active
<1>. QED
  BY <1>1, <1>9, <1>10, StartsNothing DEF StepRules

\* The definition is disabled or removed: no claim is left, and every claim lost is lost
\* to a new epoch or with the definition.
LEMMA StoppedFacts ==
    ASSUME Kept, store' \in {Disabled(store), Removed(store)}, store.live,
           count' \in [{"edit", "request", "fault"} -> Nat],
           count'["edit"] <= MaxEdits, count'["fault"] <= MaxFaults,
           \/ count'["edit"] = count["edit"] + 1 /\ count'["fault"] = count["fault"]
           \/ count'["edit"] = count["edit"] /\ count'["fault"] = count["fault"] + 1
    PROVE  /\ StoreOK(store') /\ CountsOK(store', count') /\ LosesOnlySettled
           /\ \A j, a : ClaimsFit(store', j, a)
<1>1. StoreOK(store) /\ store \in Task /\ CountsOK(store, count)
  BY DEF Kept, StoreOK
<1>2. store.version \in Nat /\ store.epoch \in Nat /\ store.version <= count["edit"]
      /\ count["edit"] \in Nat /\ count["fault"] \in Nat /\ store.epoch <= count["edit"] + count["fault"]
      /\ MaxEdits \in Nat /\ MaxFaults \in Nat
  BY <1>1, TaskFields, AutomationsAssumption DEF CountsOK, Epochs
<1>3. /\ store' \in Task /\ store'.scheduled = NoClaim /\ store'.triggers = {}
      /\ store'.version = store.version
      /\ \/ store'.epoch = store.epoch + 1
         \/ store'.epoch = store.epoch /\ ~store'.live
  <2>1. CASE store' = Disabled(store)
    <3>1. store.epoch + 1 \in 0..(MaxEdits + MaxFaults)
      BY <1>2
    <3>2. store' = [[store EXCEPT !.scheduled = NoClaim, !.triggers = {}]
                       EXCEPT !.enabled = FALSE, !.epoch = store.epoch + 1]
      BY <1>1, <2>1 DEF Disabled, _discard_pending_claims, Task
    <3>. QED
      BY <1>1, <3>1, <3>2, NoClaimTyped DEF Task
  <2>2. CASE store' = Removed(store)
    <3>1. store' = [store EXCEPT !.live = FALSE, !.scheduled = NoClaim, !.triggers = {}]
      BY <2>2 DEF Removed
    <3>. QED
      BY <1>1, <3>1, NoClaimTyped DEF Task
  <2>. QED
    BY <2>1, <2>2
<1>4. StoreOK(store')
  BY <1>3, FS_EmptySet, AutomationsAssumption DEF StoreOK
<1>5. CountsOK(store', count')
  BY <1>2, <1>3 DEF CountsOK
<1>6. LosesOnlySettled
  BY <1>2, <1>3 DEF LosesOnlySettled
<1>7. \A j, a : ClaimsFit(store', j, a)
  BY <1>3 DEF ClaimsFit
<1>. QED
  BY <1>4, <1>5, <1>6, <1>7

LEMMA CancelledFacts ==
    ASSUME NEW j \in Job, j.task_epoch = j.epoch
    PROVE  LET n == Cancelled(j)
           IN  /\ n \in Job /\ n.version = j.version /\ n.payload = j.payload
               /\ n.epoch = j.epoch /\ n.task_epoch = j.task_epoch
               /\ n.status = IF j.status = "queued" THEN "ended" ELSE j.status
<1>1. CASE j.status = "queued"
  <2>1. Cancelled(j) = [j EXCEPT !.status = "ended", !.attempt = 0]
    BY <1>1 DEF Cancelled
  <2>2. 0 \in 0..MaxAttempts /\ "ended" \in JOB_TERMINAL_STATES
    BY AutomationsAssumption DEF JOB_TERMINAL_STATES
  <2>. QED
    BY <1>1, <2>1, <2>2 DEF Job
<1>2. CASE j.status = "running"
  <2>1. Cancelled(j) = [j EXCEPT !.cancel = TRUE]
    BY <1>2 DEF Cancelled
  <2>. QED
    BY <1>2, <2>1 DEF Job
<1>3. CASE j.status # "queued" /\ j.status # "running"
  <2>1. Cancelled(j) = j
    BY <1>3 DEF Cancelled
  <2>. QED
    BY <1>3, <2>1
<1>. QED
  BY <1>1, <1>2, <1>3

LEMMA DisableOrRemove ==
    ASSUME Kept, disable_or_remove
    PROVE  Kept' /\ StepRules
<1>1. /\ store.live /\ Happens("edit", MaxEdits) /\ store' \in {Disabled(store), Removed(store)}
      /\ job' = [i \in Id |-> Cancelled(job[i])]
      /\ events' = events \cup {i \in Id : job[i].status = "queued"}
      /\ UNCHANGED <<handler, inflight, up, now, accepted>>
  BY DEF disable_or_remove, cancel_automation
<1>2. JobsOK(job, accepted) /\ RunsOK(handler, job, events) /\ CountsOK(store, count)
  BY DEF Kept
<1>3. /\ StoreOK(store') /\ CountsOK(store', count') /\ LosesOnlySettled
      /\ ClaimsFit(store', job', accepted)
  <2>1. /\ count' \in [{"edit", "request", "fault"} -> Nat] /\ count'["edit"] = count["edit"] + 1
        /\ count'["edit"] <= MaxEdits /\ count'["fault"] = count["fault"]
    BY <1>1, HappensFacts, AutomationsAssumption
  <2>2. count'["fault"] <= MaxFaults
    BY <1>2, <2>1 DEF CountsOK
  <2>. QED
    BY <1>1, <2>1, <2>2, StoppedFacts
<1>4. \A i \in Id :
         /\ job[i] \in Job /\ job'[i] \in Job /\ job'[i].version = job[i].version
         /\ job'[i].payload = job[i].payload /\ job'[i].epoch = job[i].epoch
         /\ job'[i].task_epoch = job[i].task_epoch
         /\ job'[i].status = IF job[i].status = "queued" THEN "ended" ELSE job[i].status
  <2>. TAKE i \in Id
  <2>1. job[i] \in Job /\ job[i].task_epoch = job[i].epoch /\ job'[i] = Cancelled(job[i])
    BY <1>1, <1>2 DEF JobsOK
  <2>. QED
    BY <2>1, CancelledFacts
<1>5. JobsOK(job', accepted)
  <2>1. job' \in [Id -> Job]
    BY <1>1, <1>4
  <2>. QED
    BY <1>2, <1>4, <2>1 DEF JobsOK
<1>6. RunsOK(handler', job', events')
  BY <1>1, <1>2, <1>4 DEF RunsOK, JOB_TERMINAL_STATES
<1>7. Kept'
  BY <1>1, <1>3, <1>5, <1>6 DEF Kept, RestOK
<1>. QED
  BY <1>1, <1>3, <1>7, StartsNothing DEF StepRules

LEMMA DisableOrRemoveCrashes ==
    ASSUME Kept, disable_or_remove_crashes
    PROVE  Kept' /\ StepRules
<1>1. /\ store.live /\ store' \in {Disabled(store), Removed(store)} /\ Dies
      /\ UNCHANGED <<job, events, now, accepted>>
  BY DEF disable_or_remove_crashes
<1>2. CountsOK(store, count)
  BY DEF Kept
<1>3. StoreOK(store') /\ CountsOK(store', count') /\ LosesOnlySettled /\ ClaimsFit(store', job, accepted)
  <2>1. /\ count' \in [{"edit", "request", "fault"} -> Nat] /\ count'["fault"] = count["fault"] + 1
        /\ count'["fault"] <= MaxFaults /\ count'["edit"] = count["edit"]
    BY <1>1, HappensFacts, AutomationsAssumption DEF Dies
  <2>2. count'["edit"] <= MaxEdits
    BY <1>2, <2>1 DEF CountsOK
  <2>. QED
    BY <1>1, <2>1, <2>2, StoppedFacts
<1>4. RunsOK(handler', job, events) /\ up' \in BOOLEAN /\ inflight' \subseteq Id /\ StartsOnlyLive
  BY <1>1, DiesFacts
<1>5. Kept'
  BY <1>1, <1>3, <1>4 DEF Kept, RestOK
<1>. QED
  BY <1>3, <1>4, <1>5 DEF StepRules

-----------------------------------------------------------------------------
(* The actions of the job and of its event. *)

LEMMA JobStarts ==
    ASSUME Kept, NEW i \in Id, job_starts(i)
    PROVE  Kept' /\ StepRules
<1>. DEFINE new == [job[i] EXCEPT !.status = "running", !.attempt = job[i].attempt + 1]
<1>1. /\ job[i].status = "queued" /\ handler' = [handler EXCEPT ![i] = "waiting"]
      /\ UNCHANGED <<store, events, inflight, up, now, accepted, count>>
  BY DEF job_starts
<1>2. JobsOK(job, accepted) /\ RunsOK(handler, job, events) /\ StoreOK(store) /\ ClaimsFit(store, job, accepted)
  BY DEF Kept
<1>3. job \in [Id -> Job] /\ job[i] \in Job /\ job[i].attempt < MaxAttempts
      /\ handler \in [Id -> {"none", "waiting", "executing"}]
  BY <1>1, <1>2 DEF JobsOK, RunsOK
<1>4. job' = [job EXCEPT ![i] = new]
  BY <1>3 DEF job_starts, Job
<1>5. /\ new \in Job /\ new.status = "running" /\ new.version = job[i].version
      /\ new.payload = job[i].payload /\ new.epoch = job[i].epoch /\ new.task_epoch = job[i].task_epoch
  <2>1. job[i].attempt + 1 \in 0..MaxAttempts
    BY <1>3, JobFields, AutomationsAssumption
  <2>. QED
    BY <1>3, <2>1 DEF Job
<1>. HIDE DEF new
<1>6. /\ job' \in [Id -> Job] /\ job'[i] = new /\ \A k \in Id \ {i} : job'[k] = job[k]
      /\ handler' \in [Id -> {"none", "waiting", "executing"}] /\ handler'[i] = "waiting"
      /\ \A k \in Id \ {i} : handler'[k] = handler[k]
  BY <1>1, <1>3, <1>4, <1>5
<1>7. JobsOK(job', accepted')
  BY <1>1, <1>2, <1>5, <1>6 DEF JobsOK
<1>8. ClaimsFit(store', job', accepted')
  <2>1. \A k \in Id : job'[k].status = "none" => job[k].status = "none"
    BY <1>5, <1>6
  <2>. QED
    BY <1>1, <1>2, <2>1, LaterJobsFit
<1>9. RunsOK(handler', job', events')
  <2>1. i \notin events
    BY <1>1, <1>2 DEF RunsOK, JOB_TERMINAL_STATES
  <2>2. \A k \in Id : handler'[k] # "none" => job'[k].status = "running"
    BY <1>2, <1>5, <1>6 DEF RunsOK
  <2>3. \A k, l \in Id : handler'[k] = "executing" /\ handler'[l] = "executing" => k = l
    BY <1>2, <1>6 DEF RunsOK
  <2>4. events' \subseteq Id /\ \A k \in events' : job'[k].status \in JOB_TERMINAL_STATES
    BY <1>1, <1>2, <1>6, <2>1 DEF RunsOK
  <2>. QED
    BY <1>6, <2>2, <2>3, <2>4 DEF RunsOK
<1>10. CountsOK(store', count')
  BY <1>1, CountsKept
<1>11. Kept'
  BY <1>1, <1>7, <1>8, <1>9, <1>10 DEF Kept, RestOK
<1>12. \A k \in Id : handler'[k] = "executing" => handler[k] = "executing"
  BY <1>6
<1>. QED
  BY <1>1, <1>11, <1>12, LosesNothing, StartsNothing DEF StepRules

\* A step that ends a job, leaves the document alone and starts nothing.
LEMMA EndsStep ==
    ASSUME Kept, NEW i \in Id, NEW status \in {"queued"} \cup JOB_TERMINAL_STATES, NEW skipped \in BOOLEAN,
           job[i].status = "running", status = "queued" => job[i].attempt < MaxAttempts,
           Ends(i, status, skipped), UNCHANGED <<store, inflight, up, now, accepted, count>>
    PROVE  Kept' /\ StepRules
<1>1. /\ JobsOK(job', accepted) /\ ClaimsFit(store, job', accepted)
      /\ RunsOK(handler', job', events') /\ StartsOnlyLive
  BY EndsFacts
<1>2. CountsOK(store', count')
  BY CountsKept
<1>3. Kept'
  BY <1>1, <1>2 DEF Kept, RestOK
<1>. QED
  BY <1>1, <1>3, LosesNothing DEF StepRules

LEMMA AutomationJob ==
    ASSUME Kept, NEW i \in Id, _automation_job(i)
    PROVE  Kept' /\ StepRules
<1>1. /\ handler[i] = "waiting" /\ \A k \in Id : handler[k] # "executing"
      /\ UNCHANGED <<store, inflight, up, now, accepted, count>>
  BY DEF _automation_job
<1>2. JobsOK(job, accepted) /\ RunsOK(handler, job, events)
  BY DEF Kept
<1>3. job[i].status = "running"
  BY <1>1, <1>2 DEF RunsOK
<1>4. CASE job[i].cancel \/ ~Executable(i)
  <2>1. Ends(i, "ended", FALSE)
    BY <1>4 DEF _automation_job
  <2>2. "ended" \in {"queued"} \cup JOB_TERMINAL_STATES /\ FALSE \in BOOLEAN
    BY DEF JOB_TERMINAL_STATES
  <2>. QED
    BY <1>1, <1>3, <2>1, <2>2, EndsStep
<1>5. CASE ~(job[i].cancel \/ ~Executable(i))
  <2>1. Executable(i)
    BY <1>5
  <2>2. handler' = [handler EXCEPT ![i] = "executing"] /\ job' = job /\ events' = events
    BY <1>5 DEF _automation_job
  <2>3. /\ handler' \in [Id -> {"none", "waiting", "executing"}] /\ handler'[i] = "executing"
        /\ \A k \in Id \ {i} : handler'[k] = handler[k]
    BY <1>2, <2>2 DEF RunsOK
  <2>4. RunsOK(handler', job', events')
    BY <1>1, <1>2, <1>3, <2>2, <2>3 DEF RunsOK
  <2>5. store.live /\ job[i].task_epoch = store.epoch
    BY <1>2, <2>1 DEF Executable, JobsOK
  <2>6. StartsOnlyLive
    BY <2>3, <2>5 DEF StartsOnlyLive
  <2>7. CountsOK(store', count')
    BY <1>1, CountsKept
  <2>8. Kept'
    BY <1>1, <2>2, <2>4, <2>7 DEF Kept, RestOK
  <2>. QED
    BY <1>1, <2>6, <2>8, LosesNothing DEF StepRules
<1>. QED
  BY <1>4, <1>5

LEMMA ExecuteAutomationEnds ==
    ASSUME Kept, NEW i \in Id, execute_automation_ends(i)
    PROVE  Kept' /\ StepRules
<1>1. handler[i] = "executing" /\ UNCHANGED <<store, inflight, up, now, accepted, count>>
  BY DEF execute_automation_ends
<1>2. RunsOK(handler, job, events)
  BY DEF Kept
<1>3. job[i].status = "running"
  BY <1>1, <1>2 DEF RunsOK
<1>4. \/ Ends(i, "ended", FALSE) \/ Ends(i, "succeeded", FALSE) \/ Ends(i, "succeeded", TRUE)
      \/ job[i].attempt < MaxAttempts /\ Ends(i, "queued", FALSE)
  BY DEF execute_automation_ends
<1>5. {"ended", "succeeded", "queued"} \subseteq {"queued"} \cup JOB_TERMINAL_STATES
  BY DEF JOB_TERMINAL_STATES
<1>6. TRUE \in BOOLEAN /\ FALSE \in BOOLEAN
  OBVIOUS
<1>7. CASE Ends(i, "ended", FALSE)
  BY <1>1, <1>3, <1>5, <1>6, <1>7, EndsStep
<1>8. CASE Ends(i, "succeeded", FALSE)
  BY <1>1, <1>3, <1>5, <1>6, <1>8, EndsStep
<1>9. CASE Ends(i, "succeeded", TRUE)
  BY <1>1, <1>3, <1>5, <1>6, <1>9, EndsStep
<1>10. CASE job[i].attempt < MaxAttempts /\ Ends(i, "queued", FALSE)
  BY <1>1, <1>3, <1>5, <1>6, <1>10, EndsStep
<1>. QED
  BY <1>4, <1>7, <1>8, <1>9, <1>10

LEMMA LeaseLost ==
    ASSUME Kept, NEW i \in Id, lease_lost(i)
    PROVE  Kept' /\ StepRules
<1>1. /\ Happens("fault", MaxFaults) /\ handler' = [handler EXCEPT ![i] = "none"]
      /\ UNCHANGED <<store, job, events, inflight, up, now, accepted>>
  BY DEF lease_lost
<1>2. RunsOK(handler, job, events)
  BY DEF Kept
<1>3. /\ handler' \in [Id -> {"none", "waiting", "executing"}] /\ handler'[i] = "none"
      /\ \A k \in Id \ {i} : handler'[k] = handler[k]
  BY <1>1, <1>2 DEF RunsOK
<1>4. RunsOK(handler', job', events')
  BY <1>1, <1>2, <1>3 DEF RunsOK
<1>5. CountsOK(store', count')
  BY <1>1, CountsKept
<1>6. Kept'
  BY <1>1, <1>4, <1>5 DEF Kept, RestOK
<1>7. \A k \in Id : handler'[k] = "executing" => handler[k] = "executing"
  BY <1>3
<1>. QED
  BY <1>1, <1>6, <1>7, LosesNothing, StartsNothing DEF StepRules

LEMMA RecoverJob ==
    ASSUME Kept, NEW i \in Id, recover_job(i)
    PROVE  Kept' /\ StepRules
<1>. DEFINE again == ~job[i].cancel /\ job[i].attempt < MaxAttempts
            status == IF again THEN "queued" ELSE "ended"
<1>1. /\ job[i].status = "running" /\ Ends(i, status, FALSE)
      /\ UNCHANGED <<store, inflight, up, now, accepted, count>>
  BY DEF recover_job
<1>2. status \in {"queued"} \cup JOB_TERMINAL_STATES /\ FALSE \in BOOLEAN
  BY DEF JOB_TERMINAL_STATES
<1>3. status = "queued" => job[i].attempt < MaxAttempts
  OBVIOUS
<1>. HIDE DEF status
<1>. QED
  BY <1>1, <1>2, <1>3, EndsStep

\* An event finds its job finished: only the claim of that job goes.
LEMMA EventFacts ==
    ASSUME Kept, NEW i \in events, store' = _finalize_automation_claim(store, {i})
    PROVE  /\ StoreOK(store') /\ store'.epoch = store.epoch /\ store'.version = store.version
           /\ ClaimsFit(store', job, accepted) /\ LosesOnlySettled
<1>1. StoreOK(store) /\ ClaimsFit(store, job, accepted)
  BY DEF Kept
<1>2. {i} \in SUBSET Id /\ job[i].status \in JOB_TERMINAL_STATES
  BY DEF Kept, RunsOK
<1>3. /\ StoreOK(store') /\ store'.epoch = store.epoch /\ store'.version = store.version
      /\ store'.scheduled \in {store.scheduled, NoClaim} /\ store'.triggers \subseteq store.triggers
      /\ \A k \in Id : claim_is_active(store, k) /\ ~claim_is_active(store', k) => k \in {i}
  BY <1>1, <1>2, FinalizeFacts
<1>4. ClaimsFit(store', job, accepted)
  BY <1>1, <1>3, FewerClaimsFit
<1>5. LosesOnlySettled
  BY <1>2, <1>3 DEF LosesOnlySettled
<1>. QED
  BY <1>3, <1>4, <1>5

LEMMA AutomationWorkEvent ==
    ASSUME Kept, NEW i \in Id, _automation_work_event(i)
    PROVE  Kept' /\ StepRules
<1>1. /\ i \in events /\ store' = _finalize_automation_claim(store, {i})
      /\ inflight' = inflight \ {i} /\ events' = events \ {i}
      /\ UNCHANGED <<job, handler, up, now, accepted, count>>
  BY DEF _automation_work_event
<1>2. /\ StoreOK(store') /\ store'.epoch = store.epoch /\ store'.version = store.version
      /\ ClaimsFit(store', job, accepted) /\ LosesOnlySettled
  BY <1>1, EventFacts
<1>3. RunsOK(handler', job', events')
  BY <1>1 DEF Kept, RunsOK
<1>4. CountsOK(store', count')
  BY <1>1, <1>2, CountsKept
<1>5. Kept'
  BY <1>1, <1>2, <1>3, <1>4 DEF Kept, RestOK
<1>. QED
  BY <1>1, <1>2, <1>5, StartsNothing DEF StepRules

LEMMA EventCrashes ==
    ASSUME Kept, NEW i \in Id, event_crashes(i)
    PROVE  Kept' /\ StepRules
<1>1. /\ i \in events /\ store' = _finalize_automation_claim(store, {i}) /\ Dies
      /\ UNCHANGED <<job, events, now, accepted>>
  BY DEF event_crashes
<1>2. /\ StoreOK(store') /\ store'.epoch = store.epoch /\ store'.version = store.version
      /\ ClaimsFit(store', job, accepted) /\ LosesOnlySettled
  BY <1>1, EventFacts
<1>3. RunsOK(handler', job, events) /\ up' \in BOOLEAN /\ inflight' \subseteq Id /\ StartsOnlyLive
  BY <1>1, DiesFacts
<1>4. CountsOK(store', count')
  BY <1>1, <1>2, CountsKept DEF Dies
<1>5. Kept'
  BY <1>1, <1>2, <1>3, <1>4 DEF Kept, RestOK
<1>. QED
  BY <1>2, <1>3, <1>5 DEF StepRules

-----------------------------------------------------------------------------
(* The theorems. *)

LEMMA NextKeeps ==
    ASSUME Kept, [Next]_vars
    PROVE  Kept' /\ StepRules
<1>1. CASE UNCHANGED vars
  <2>1. UNCHANGED <<store, job, handler, events, inflight, up, now, accepted, count>>
    BY <1>1 DEF vars
  <2>2. Kept'
    BY <2>1 DEF Kept
  <2>. QED
    BY <2>1, <2>2, LosesNothing, StartsNothing DEF StepRules
<1>2. CASE time_passes
  BY <1>2, TimePasses
<1>3. CASE crash
  BY <1>3, Crash
<1>4. CASE restart
  BY <1>4, Restart
<1>5. CASE \E k \in Hook, p \in Payload : handle_webhook(k, p) \/ handle_webhook_crashes(k, p)
  BY <1>5, HandleWebhook, HandleWebhookCrashes
<1>6. CASE _recover_durable_claims
  BY <1>6, RecoverDurableClaims
<1>7. CASE \E i \in Sched : automation_loop_fires(i) \/ automation_loop_crashes(i)
  BY <1>7, AutomationLoopFires, AutomationLoopCrashes
<1>8. CASE \E i \in Manual : _automation_run(i)
  BY <1>8, AutomationRun
<1>9. CASE update
  BY <1>9, Update
<1>10. CASE disable_or_remove
  BY <1>10, DisableOrRemove
<1>11. CASE disable_or_remove_crashes
  BY <1>11, DisableOrRemoveCrashes
<1>12. CASE \E i \in Id : JobStep(i)
  BY <1>12, JobStarts, AutomationJob, ExecuteAutomationEnds, RecoverJob DEF JobStep
<1>13. CASE \E i \in Id : lease_lost(i) \/ _automation_work_event(i) \/ event_crashes(i)
  BY <1>13, LeaseLost, AutomationWorkEvent, EventCrashes
<1>. QED
  BY <1>1, <1>2, <1>3, <1>4, <1>5, <1>6, <1>7, <1>8, <1>9, <1>10, <1>11, <1>12, <1>13 DEF Next

LEMMA AlwaysKept == Spec => []Kept
<1>1. Init => Kept
  BY InitKept
<1>2. Kept /\ [Next]_vars => Kept'
  BY NextKeeps
<1>. QED
  BY <1>1, <1>2, PTL DEF Spec

\* In every reachable state of an automation - whatever its edits, webhook requests, crashes,
\* lost leases and repeated events - the records are well formed, at most one occurrence
\* executes, and it executes with the settings and the body it was accepted with
\* (run_automation, _automation_job).
THEOREM AutomationsInvariant == Spec => []AutomationsInv
<1>1. Kept => AutomationsInv
  BY KeptIsInv
<1>. QED
  BY <1>1, AlwaysKept, PTL

\* An occurrence starts to execute only while the definition is there and was not disabled
\* since the occurrence was accepted (the epoch _automation_job compares under the lock),
\* even when the process died between the disable and the cancellation of the jobs.
THEOREM StoppedStays == Spec => StoppedStaysStopped
<1>1. Kept /\ [Next]_vars => [StartsOnlyLive]_vars
  BY NextKeeps DEF StepRules
<1>. QED
  BY <1>1, AlwaysKept, PTL DEF Spec, StoppedStaysStopped, StartsOnlyLive

\* A claim disappears only when the job of its own occurrence is terminal, or the user
\* disabled or removed the automation (_finalize_automation_claim, _discard_pending_claims).
THEOREM AcceptedStays == Spec => AcceptedIsNotLost
<1>1. Kept /\ [Next]_vars => [LosesOnlySettled]_vars
  BY NextKeeps DEF StepRules
<1>. QED
  BY <1>1, AlwaysKept, PTL DEF Spec, AcceptedIsNotLost, LosesOnlySettled
-----------------------------------------------------------------------------
(* The calendar: days and slots are a quotient and a remainder. *)

LEMMA CalendarAssumed ==
    /\ DayLength \in Nat \ {0} /\ WeekLength \in Nat \ {0}
    /\ Workdays \in 1..WeekLength /\ Workdays \in Nat \ {0} /\ Workdays <= WeekLength
BY AutomationsAssumption

LEMMA ClockAssumed ==
    Forward \in Nat /\ Back \in Nat /\ Shift \in Nat /\ Forward + Shift <= Back
BY AutomationsAssumption

LEMMA Multiples ==
    ASSUME NEW n \in Nat \ {0}, NEW a \in Int, NEW b \in Int, a < b
    PROVE  a * n + n <= b * n
OBVIOUS

LEMMA Division ==
    ASSUME NEW n \in Nat \ {0}, NEW x \in Int
    PROVE  x \div n \in Int /\ x % n \in 0..(n - 1) /\ x = (x \div n) * n + (x % n)
OBVIOUS

LEMMA UniqueDivision ==
    ASSUME NEW n \in Nat \ {0}, NEW q \in Int, NEW r \in 0..(n - 1)
    PROVE  (q * n + r) \div n = q /\ (q * n + r) % n = r
<1>. DEFINE x == q * n + r
            p == x \div n
            s == x % n
<1>1. x \in Int /\ q * n \in Int
  OBVIOUS
<1>. HIDE DEF x
<1>2. p \in Int /\ s \in 0..(n - 1) /\ x = p * n + s
  BY <1>1, Division
<1>. HIDE DEF p, s
<1>3. ~(p < q)
  BY <1>2, Multiples DEF x
<1>4. ~(q < p)
  BY <1>2, Multiples DEF x
<1>5. p = q
  BY <1>2, <1>3, <1>4
<1>. QED
  BY <1>2, <1>5 DEF x, p, s

\* Two numbers with one remainder are at least a divisor apart.
LEMMA ApartByWeeks ==
    ASSUME NEW n \in Nat \ {0}, NEW p \in Int, NEW q \in Int, p % n = q % n, p < q
    PROVE  p + n <= q
<1>. DEFINE a == p \div n
            b == q \div n
            r == q % n
<1>1. a \in Int /\ b \in Int /\ r \in 0..(n - 1) /\ p = a * n + r /\ q = b * n + r
  BY Division
<1>. HIDE DEF a, b, r
<1>2. ~(b < a)
  BY <1>1, Multiples
<1>3. a # b
  BY <1>1
<1>4. a < b
  BY <1>1, <1>2, <1>3
<1>5. a * n + n <= b * n
  BY <1>1, <1>4, Multiples
<1>6. a * n \in Int /\ b * n \in Int
  BY <1>1
<1>. QED
  BY <1>1, <1>5, <1>6

LEMMA Slots ==
    ASSUME NEW t \in Nat
    PROVE  /\ Day(t) \in Nat /\ t % DayLength \in 0..(DayLength - 1)
           /\ t = Day(t) * DayLength + (t % DayLength)
           /\ Weekday(t) = Day(t) % WeekLength
<1>1. t \div DayLength \in Nat
  BY CalendarAssumed
<1>. QED
  BY <1>1, Division, CalendarAssumed DEF Day, Weekday

LEMMA SlotOf ==
    ASSUME NEW q \in Int, NEW h \in 0..(DayLength - 1)
    PROVE  /\ Day(q * DayLength + h) = q /\ (q * DayLength + h) % DayLength = h
           /\ q * DayLength + h \in Int /\ (q \in Nat => q * DayLength + h \in Nat)
<1>1. q * DayLength \in Int /\ (q \in Nat => q * DayLength \in Nat)
  BY CalendarAssumed
<1>2. (q * DayLength + h) \div DayLength = q /\ (q * DayLength + h) % DayLength = h
  BY UniqueDivision, CalendarAssumed
<1>. QED
  BY <1>1, <1>2, CalendarAssumed DEF Day

\* Slots are ordered by day, then by the slot of the day.
LEMMA SlotOrder ==
    ASSUME NEW q \in Int, NEW d \in Int, NEW h \in 0..(DayLength - 1), NEW e \in 0..(DayLength - 1)
    PROVE  q * DayLength + h <= d * DayLength + e <=> q < d \/ (q = d /\ h <= e)
<1>1. q * DayLength \in Int /\ d * DayLength \in Int /\ DayLength \in Nat \ {0}
  BY CalendarAssumed
<1>2. CASE q < d
  <2>1. q * DayLength + DayLength <= d * DayLength
    BY <1>1, <1>2, Multiples
  <2>. QED
    BY <1>1, <1>2, <2>1
<1>3. CASE d < q
  <2>1. d * DayLength + DayLength <= q * DayLength
    BY <1>1, <1>3, Multiples
  <2>. QED
    BY <1>1, <1>3, <2>1
<1>4. CASE q = d
  BY <1>1, <1>4
<1>. QED
  BY <1>2, <1>3, <1>4

\* The last day whose slot of this hour is not in the future.
LastDay(t, hour) == IF hour <= t % DayLength THEN Day(t) ELSE Day(t) - 1

LEMMA LastDayFacts ==
    ASSUME NEW t \in Nat, NEW hour \in 0..(DayLength - 1)
    PROVE  /\ LastDay(t, hour) \in Int /\ LastDay(t, hour) \in {Day(t) - 1, Day(t)}
           /\ At(t, hour) = Day(t) * DayLength + hour /\ At(t, hour) \in Nat
           /\ (At(t, hour) <= t <=> LastDay(t, hour) = Day(t))
           /\ _latest_daily(t, hour) = LastDay(t, hour) * DayLength + hour
           /\ \A q \in Int : q * DayLength + hour <= t <=> q <= LastDay(t, hour)
<1>. DEFINE d == Day(t)
            e == t % DayLength
            L == LastDay(t, hour)
<1>1. d \in Nat /\ e \in 0..(DayLength - 1) /\ t = d * DayLength + e
  BY Slots
<1>2. At(t, hour) = d * DayLength + hour /\ At(t, hour) \in Nat
  BY <1>1, SlotOf DEF At
<1>3. L = IF hour <= e THEN d ELSE d - 1
  BY DEF LastDay
<1>4. L \in Int /\ L \in {d - 1, d}
  BY <1>1, <1>3
<1>. HIDE DEF d, e, L
<1>5. \A q \in Int : q * DayLength + hour <= t <=> q < d \/ (q = d /\ hour <= e)
  BY <1>1, SlotOrder
<1>6. \A q \in Int : q * DayLength + hour <= t <=> q <= L
  BY <1>1, <1>3, <1>5, CalendarAssumed
<1>7. At(t, hour) <= t <=> L = d
  BY <1>1, <1>2, <1>3, <1>5, CalendarAssumed
<1>8. _latest_daily(t, hour) = L * DayLength + hour
  <2>1. CASE L = d
    BY <1>2, <1>7, <2>1 DEF _latest_daily
  <2>2. CASE L = d - 1
    <3>1. ~(At(t, hour) <= t)
      BY <1>1, <1>7, <2>2
    <3>2. (d - 1) * DayLength = d * DayLength - DayLength /\ d * DayLength \in Int
      BY <1>1, CalendarAssumed
    <3>3. _latest_daily(t, hour) = At(t, hour) - DayLength
      BY <3>1 DEF _latest_daily
    <3>. QED
      BY <1>2, <2>2, <3>2, <3>3, CalendarAssumed
  <2>. QED
    BY <1>4, <2>1, <2>2
<1>. QED
  BY <1>2, <1>4, <1>6, <1>7, <1>8 DEF d, L

\* No change of the clock skips or repeats the slot of a regular hour on any day.
LEMMA RegularSlot ==
    ASSUME NEW hour \in RegularHours, NEW q \in Int
    PROVE  ~Skipped(q * DayLength + hour) /\ ~Repeated(q * DayLength + hour)
<1>. DEFINE n == q * DayLength + hour
<1>1. /\ hour \in 0..(DayLength - 1)
      /\ \A s \in 0..(Shift - 1) : (Forward + s) % DayLength # hour /\ (Back + s) % DayLength # hour
  BY DEF RegularHours
<1>2. n \in Int /\ n % DayLength = hour
  BY <1>1, SlotOf
<1>. HIDE DEF n
<1>3. ASSUME Skipped(n)
      PROVE  FALSE
  <2>1. n - Forward \in 0..(Shift - 1) /\ Forward + (n - Forward) = n
    BY <1>2, <1>3, ClockAssumed DEF Skipped
  <2>. QED
    BY <1>1, <1>2, <2>1
<1>4. ASSUME Repeated(n)
      PROVE  FALSE
  <2>1. n - Back \in 0..(Shift - 1) /\ Back + (n - Back) = n
    BY <1>2, <1>4, ClockAssumed DEF Repeated
  <2>. QED
    BY <1>1, <1>2, <2>1
<1>. QED
  BY <1>3, <1>4 DEF n

\* At the other times the clock and its inverse agree, whatever the fold.
LEMMA RegularTime ==
    ASSUME NEW n \in Int, ~Skipped(n), ~Repeated(n)
    PROVE  /\ \A fold : timestamp(n, fold) = timestamp(n, FALSE)
           /\ timestamp(n, FALSE) \in Int
           /\ n \in Nat => timestamp(n, FALSE) \in Nat /\ Local(timestamp(n, FALSE)) = n
           /\ \A t \in Nat : /\ n <= Local(t) <=> timestamp(n, FALSE) <= t
                             /\ Local(t) = n => t = timestamp(n, FALSE)
<1>1. CASE Forward + Shift <= n /\ n < Back
  <2>. DEFINE m == n - Shift
  <2>1. \A fold : timestamp(n, fold) = m
    BY <1>1 DEF timestamp
  <2>2. m \in Nat /\ Forward <= m /\ m < Back - Shift /\ n = m + Shift
    BY <1>1, ClockAssumed
  <2>. HIDE DEF m
  <2>3. Local(m) = n
    BY <2>2, ClockAssumed DEF Local
  <2>4. ASSUME NEW t \in Nat
        PROVE  (n <= Local(t) <=> m <= t) /\ (Local(t) = n => t = m)
    <3>1. CASE Forward <= t /\ t < Back
      <4>1. Local(t) = t + Shift
        BY <3>1 DEF Local
      <4>. QED
        BY <2>2, <4>1, ClockAssumed
    <3>2. CASE t < Forward
      <4>1. Local(t) = t
        BY <3>2, ClockAssumed DEF Local
      <4>. QED
        BY <2>2, <3>2, <4>1, ClockAssumed
    <3>3. CASE Back <= t
      <4>1. Local(t) = t
        BY <3>3, ClockAssumed DEF Local
      <4>. QED
        BY <2>2, <3>3, <4>1, ClockAssumed
    <3>. QED
      BY <3>1, <3>2, <3>3, ClockAssumed
  <2>5. timestamp(n, FALSE) = m
    BY <2>1
  <2>6. \A fold : timestamp(n, fold) = timestamp(n, FALSE)
    BY <2>1, <2>5, Zenon
  <2>7. m \in Nat /\ m \in Int
    BY <2>2
  <2>. QED
    BY <2>3, <2>4, <2>5, <2>6, <2>7
<1>2. CASE ~(Forward + Shift <= n /\ n < Back)
  <2>1. \A fold : timestamp(n, fold) = n
    BY <1>2 DEF timestamp
  <2>2. n < Forward \/ Back + Shift <= n
    BY <1>2, ClockAssumed DEF Skipped, Repeated
  <2>3. n \in Nat => Local(n) = n
    BY <2>2, ClockAssumed DEF Local
  <2>4. ASSUME NEW t \in Nat
        PROVE  (n <= Local(t) <=> n <= t) /\ (Local(t) = n => t = n)
    <3>1. CASE Forward <= t /\ t < Back
      <4>1. Local(t) = t + Shift
        BY <3>1 DEF Local
      <4>. QED
        BY <2>2, <3>1, <4>1, ClockAssumed
    <3>2. CASE ~(Forward <= t /\ t < Back)
      <4>1. Local(t) = t
        BY <3>2 DEF Local
      <4>. QED
        BY <4>1
    <3>. QED
      BY <3>1, <3>2
  <2>5. timestamp(n, FALSE) = n
    BY <2>1
  <2>6. \A fold : timestamp(n, fold) = timestamp(n, FALSE)
    BY <2>1, <2>5, Zenon
  <2>. QED
    BY <2>3, <2>4, <2>5, <2>6
<1>. QED
  BY <1>1, <1>2

LEMMA LocalFacts ==
    ASSUME NEW t \in Nat
    PROVE  Local(t) \in Nat /\ t <= Local(t)
BY ClockAssumed DEF Local

\* The slot of an hour on a day, and the time at which the clock shows it.
Slot(q, hour) == q * DayLength + hour
Stamp(q, hour) == timestamp(Slot(q, hour), FALSE)

LEMMA SlotFacts ==
    ASSUME NEW hour \in RegularHours, NEW q \in Int
    PROVE  /\ Slot(q, hour) \in Int /\ (q \in Nat => Slot(q, hour) \in Nat)
           /\ Day(Slot(q, hour)) = q /\ Slot(q, hour) % DayLength = hour
<1>1. hour \in 0..(DayLength - 1)
  BY DEF RegularHours
<1>. QED
  BY <1>1, SlotOf DEF Slot

LEMMA RegularOccurrence ==
    ASSUME NEW hour \in RegularHours, NEW q \in Int
    PROVE  /\ \A fold : timestamp(Slot(q, hour), fold) = Stamp(q, hour)
           /\ Stamp(q, hour) \in Int
           /\ q \in Nat => Stamp(q, hour) \in Nat /\ Local(Stamp(q, hour)) = Slot(q, hour)
           /\ \A t \in Nat : /\ Slot(q, hour) <= Local(t) <=> Stamp(q, hour) <= t
                             /\ Local(t) = Slot(q, hour) => t = Stamp(q, hour)
<1>. DEFINE n == Slot(q, hour)
<1>1. n \in Int /\ (q \in Nat => n \in Nat)
  BY SlotFacts
<1>2. ~Skipped(n) /\ ~Repeated(n)
  BY RegularSlot DEF Slot
<1>. HIDE DEF n
<1>3. /\ \A fold : timestamp(n, fold) = timestamp(n, FALSE)
      /\ timestamp(n, FALSE) \in Int
      /\ n \in Nat => timestamp(n, FALSE) \in Nat /\ Local(timestamp(n, FALSE)) = n
      /\ \A t \in Nat : /\ n <= Local(t) <=> timestamp(n, FALSE) <= t
                        /\ Local(t) = n => t = timestamp(n, FALSE)
  BY <1>1, <1>2, RegularTime
<1>4. Stamp(q, hour) = timestamp(n, FALSE)
  BY DEF Stamp, n
<1>. QED
  BY <1>1, <1>3, <1>4 DEF n

\* When N is the last day of S that counts, an occurrence on a day of S since the last run
\* means that the one of day N is later than the last run.
LEMMA SinceLastRun ==
    ASSUME NEW t \in Nat, NEW hour \in RegularHours, NEW last \in Nat, NEW S,
           NEW N \in Nat, N \in S, N <= LastDay(Local(t), hour),
           \A q \in Nat : N < q /\ q <= LastDay(Local(t), hour) => q \notin S
    PROVE  /\ Slot(N, hour) <= Local(t)
           /\ (\E o \in (last + 1)..t : Local(o) % DayLength = hour /\ Day(Local(o)) \in S)
                 <=> last < Stamp(N, hour)
<1>. DEFINE r == Stamp(N, hour)
<1>1. hour \in 0..(DayLength - 1) /\ Local(t) \in Nat
  BY LocalFacts DEF RegularHours
<1>2. Day(Slot(N, hour)) = N /\ Slot(N, hour) % DayLength = hour
  BY SlotFacts
<1>3. \A q \in Int : Slot(q, hour) <= Local(t) <=> q <= LastDay(Local(t), hour)
  BY <1>1, LastDayFacts DEF Slot
<1>4. Slot(N, hour) <= Local(t)
  BY <1>3
<1>5. r \in Nat /\ r <= t /\ Local(r) = Slot(N, hour)
  BY <1>4, RegularOccurrence
<1>6. ASSUME NEW o \in (last + 1)..t, Local(o) % DayLength = hour, Day(Local(o)) \in S
      PROVE  last < r
  <2>. DEFINE q == Day(Local(o))
  <2>1. o \in Nat /\ last < o /\ o <= t
    OBVIOUS
  <2>2. q \in Nat /\ Local(o) = Slot(q, hour)
    BY <1>6, <2>1, LocalFacts, Slots DEF Slot
  <2>. HIDE DEF q, r
  <2>3. o = Stamp(q, hour)
    BY <2>1, <2>2, RegularOccurrence
  <2>4. Slot(q, hour) <= Local(t)
    BY <2>1, <2>2, <2>3, RegularOccurrence
  <2>5. q <= N
    BY <1>3, <1>6, <2>2, <2>4 DEF q
  <2>6. Slot(q, hour) <= Slot(N, hour)
    BY <1>1, <2>2, <2>5, SlotOrder DEF Slot
  <2>7. o <= r
    BY <1>5, <2>2, <2>3, <2>6, RegularOccurrence
  <2>. QED
    BY <1>5, <2>1, <2>7
<1>7. ASSUME last < r
      PROVE  \E o \in (last + 1)..t : Local(o) % DayLength = hour /\ Day(Local(o)) \in S
  <2>. HIDE DEF r
  <2>1. r \in (last + 1)..t
    BY <1>5, <1>7
  <2>. QED
    BY <1>2, <1>5, <2>1
<1>. QED
  BY <1>4, <1>6, <1>7 DEF r

\* An occurrence of today since the last run is the slot of this hour today.
LEMMA OfToday ==
    ASSUME NEW t \in Nat, NEW hour \in RegularHours, NEW last \in Nat
    PROVE  LET q == Day(Local(t))
               x == At(Local(t), hour)
               r == Stamp(q, hour)
           IN  /\ q \in Nat /\ x = Slot(q, hour)
               /\ Local(r) = x /\ x % DayLength = hour /\ Day(x) = q
               /\ \A o \in (last + 1)..t :
                     Local(o) % DayLength = hour /\ Day(Local(o)) = q => o = r
               /\ r \in (last + 1)..t <=> x <= Local(t) /\ last < r
<1>. DEFINE q == Day(Local(t))
            x == At(Local(t), hour)
            r == Stamp(q, hour)
<1>1. hour \in 0..(DayLength - 1) /\ Local(t) \in Nat
  BY LocalFacts DEF RegularHours
<1>2. q \in Nat
  BY <1>1, Slots
<1>3. x = Slot(q, hour)
  BY <1>1, LastDayFacts DEF Slot
<1>4. Day(x) = q /\ x % DayLength = hour
  BY <1>2, <1>3, SlotFacts
<1>. HIDE DEF q, x
<1>5. r \in Nat /\ Local(r) = x /\ (x <= Local(t) <=> r <= t)
  BY <1>2, <1>3, RegularOccurrence
<1>6. ASSUME NEW o \in (last + 1)..t, Local(o) % DayLength = hour, Day(Local(o)) = q
      PROVE  o = r
  <2>1. o \in Nat
    OBVIOUS
  <2>2. Local(o) = Slot(q, hour)
    BY <1>6, <2>1, LocalFacts, Slots DEF Slot
  <2>. QED
    BY <1>2, <2>1, <2>2, RegularOccurrence
<1>. HIDE DEF r
<1>7. r \in (last + 1)..t <=> x <= Local(t) /\ last < r
  BY <1>5
<1>. QED
  BY <1>2, <1>3, <1>4, <1>5, <1>6, <1>7 DEF q, x, r

\* The last workday at or before a day.
LEMMA LastWorkday ==
    ASSUME NEW L \in Nat
    PROVE  LET over == (L % WeekLength) + 1 - Workdays
               M    == IF over > 0 THEN L - over ELSE L
           IN  /\ over \in Int /\ M \in Nat /\ M <= L /\ M % WeekLength < Workdays
               /\ \A q \in Nat : M < q /\ q <= L => ~(q % WeekLength < Workdays)
<1>. DEFINE a == L \div WeekLength
            w == L % WeekLength
            over == w + 1 - Workdays
            M == IF over > 0 THEN L - over ELSE L
<1>1. a \in Int /\ w \in 0..(WeekLength - 1) /\ L = a * WeekLength + w
  BY Division, CalendarAssumed
<1>2. a \in Nat /\ a * WeekLength \in Nat
  <2>1. a \in Nat
    BY CalendarAssumed
  <2>. HIDE DEF a
  <2>. QED
    BY <2>1, CalendarAssumed
<1>. HIDE DEF a, w
<1>3. over \in Int
  BY <1>1, CalendarAssumed
<1>4. CASE over > 0
  <2>1. M = a * WeekLength + (Workdays - 1) /\ Workdays - 1 \in 0..(WeekLength - 1)
    BY <1>1, <1>2, <1>4, CalendarAssumed
  <2>2. M % WeekLength = Workdays - 1
    BY <1>1, <2>1, UniqueDivision, CalendarAssumed
  <2>3. M \in Nat /\ M <= L
    BY <1>1, <1>2, <1>4, <2>1, CalendarAssumed
  <2>4. ASSUME NEW q \in Nat, M < q, q <= L
        PROVE  ~(q % WeekLength < Workdays)
    <3>. DEFINE r == q - a * WeekLength
    <3>1. r \in 0..(WeekLength - 1) /\ Workdays <= r
      BY <1>1, <1>2, <2>1, <2>4, CalendarAssumed
    <3>2. q = a * WeekLength + r
      BY <1>2
    <3>. HIDE DEF r
    <3>3. q % WeekLength = r
      BY <1>1, <3>1, <3>2, UniqueDivision, CalendarAssumed
    <3>. QED
      BY <3>1, <3>3, CalendarAssumed
  <2>. QED
    BY <1>3, <2>2, <2>3, <2>4, CalendarAssumed DEF w
<1>5. CASE ~(over > 0)
  <2>1. M = L
    BY <1>5
  <2>2. w < Workdays
    BY <1>1, <1>5, CalendarAssumed
  <2>. HIDE DEF M
  <2>3. \A q \in Nat : ~(M < q /\ q <= L)
    BY <2>1
  <2>. QED
    BY <1>3, <2>1, <2>2, <2>3 DEF w, M
<1>. QED
  BY <1>4, <1>5

\* How many days have passed since a weekday.
LEMMA SinceWeekday ==
    ASSUME NEW d \in Nat, WeekLength <= d, NEW day \in 0..(WeekLength - 1)
    PROVE  LET since == ((d % WeekLength) - day + WeekLength) % WeekLength
           IN  /\ since \in 0..(WeekLength - 1) /\ d - since \in Nat
               /\ (d - since) % WeekLength = day
               /\ (since = 0 <=> d % WeekLength = day)
<1>. DEFINE a == d \div WeekLength
            w == d % WeekLength
            since == (w - day + WeekLength) % WeekLength
<1>1. a \in Int /\ w \in 0..(WeekLength - 1) /\ d = a * WeekLength + w
  BY Division, CalendarAssumed
<1>. HIDE DEF a, w
<1>2. a * WeekLength \in Int /\ day \in Int /\ (a - 1) * WeekLength = a * WeekLength - WeekLength
  BY <1>1, CalendarAssumed
<1>3. CASE day <= w
  <2>1. w - day \in 0..(WeekLength - 1) /\ 1 * WeekLength + (w - day) = w - day + WeekLength
    BY <1>1, <1>3, CalendarAssumed
  <2>2. since = w - day
    <3>. DEFINE y == w - day
    <3>1. since = (1 * WeekLength + y) % WeekLength
      BY <2>1
    <3>2. y \in 0..(WeekLength - 1) /\ 1 \in Int
      BY <2>1
    <3>. HIDE DEF y, since
    <3>3. (1 * WeekLength + y) % WeekLength = y
      BY <3>2, UniqueDivision, CalendarAssumed
    <3>. QED
      BY <3>1, <3>3 DEF y
  <2>. HIDE DEF since
  <2>3. d - since = a * WeekLength + day
    BY <1>1, <1>2, <2>2, CalendarAssumed
  <2>4. (d - since) % WeekLength = day
    BY <1>1, <2>3, UniqueDivision, CalendarAssumed
  <2>5. d - since \in Nat /\ (since = 0 <=> w = day)
    BY <1>1, <2>1, <2>2, CalendarAssumed
  <2>. QED
    BY <2>1, <2>2, <2>4, <2>5 DEF since, w
<1>4. CASE ~(day <= w)
  <2>. DEFINE x == w - day + WeekLength
  <2>1. x \in 1..(WeekLength - 1) /\ x \in 0..(WeekLength - 1) /\ 0 * WeekLength + x = x
    BY <1>1, <1>4, CalendarAssumed
  <2>2. since = x
    <3>1. since = x % WeekLength
      OBVIOUS
    <3>. HIDE DEF x, since
    <3>. QED
      BY <2>1, <3>1, UniqueDivision, CalendarAssumed
  <2>. HIDE DEF since
  <2>3. d - since = (a - 1) * WeekLength + day
    BY <1>1, <1>2, <2>2, CalendarAssumed
  <2>4. (d - since) % WeekLength = day
    <3>1. a - 1 \in Int
      BY <1>1
    <3>2. ((a - 1) * WeekLength + day) % WeekLength = day
      BY <3>1, UniqueDivision, CalendarAssumed
    <3>. QED
      BY <2>3, <3>2
  <2>5. d - since \in Nat /\ ~(since = 0) /\ w # day
    BY <1>1, <1>4, <2>1, <2>2, CalendarAssumed
  <2>. QED
    BY <2>1, <2>2, <2>4, <2>5 DEF since, w
<1>. QED
  BY <1>1, <1>2, <1>3, <1>4, CalendarAssumed

\* No day within a week after a day has the same weekday.
LEMMA NextOfWeekday ==
    ASSUME NEW N \in Int, NEW L \in Int, L < N + WeekLength
    PROVE  \A q \in Nat : N < q /\ q <= L => q % WeekLength # N % WeekLength
<1>. SUFFICES ASSUME NEW q \in Nat, N < q, q <= L, N % WeekLength = q % WeekLength
              PROVE  FALSE
  OBVIOUS
<1>1. q \in Int /\ WeekLength \in Nat \ {0}
  BY CalendarAssumed
<1>2. N + WeekLength <= q
  BY <1>1, ApartByWeeks
<1>. QED
  BY <1>1, <1>2

\* The last occurrence of a weekday at an hour, and when it is one of today.
LEMMA LatestWeekly ==
    ASSUME NEW t \in Nat, NEW hour \in 0..(DayLength - 1), NEW day \in 0..(WeekLength - 1),
           WeekLength <= Day(t)
    PROVE  \E N \in Nat :
              /\ latest_weekly(t, hour, day) = N * DayLength + hour
              /\ N % WeekLength = day /\ N <= LastDay(t, hour)
              /\ \A q \in Nat : N < q /\ q <= LastDay(t, hour) => q % WeekLength # day
              /\ N = Day(t) <=> Weekday(t) = day /\ At(t, hour) <= t
<1>. DEFINE d == Day(t)
            e == t % DayLength
            since == (Weekday(t) - day + WeekLength) % WeekLength
            back == t - since * DayLength
            first == d - since
            occ == At(back, hour)
            N == IF occ > t THEN first - WeekLength ELSE first
<1>1. /\ d \in Nat /\ e \in 0..(DayLength - 1) /\ t = d * DayLength + e
      /\ Weekday(t) = d % WeekLength /\ WeekLength <= d
  BY Slots
<1>2. /\ since \in 0..(WeekLength - 1) /\ first \in Nat /\ first % WeekLength = day
      /\ (since = 0 <=> Weekday(t) = day)
  BY <1>1, SinceWeekday
<1>3. latest_weekly(t, hour, day) = IF occ > t THEN occ - WeekLength * DayLength ELSE occ
  BY DEF latest_weekly
<1>. HIDE DEF d, e, since
<1>4. back = first * DayLength + e
  <2>1. (d - since) * DayLength = d * DayLength - since * DayLength
        /\ d * DayLength \in Int /\ since * DayLength \in Int
    BY <1>1, <1>2, CalendarAssumed
  <2>. QED
    BY <1>1, <2>1, CalendarAssumed
<1>5. Day(back) = first
  BY <1>1, <1>2, <1>4, SlotOf
<1>6. occ = first * DayLength + hour /\ occ \in Nat
  BY <1>2, <1>5, SlotOf DEF At
<1>. HIDE DEF back, occ, first
<1>7. LastDay(t, hour) \in Int /\ LastDay(t, hour) \in {d - 1, d}
      /\ (At(t, hour) <= t <=> LastDay(t, hour) = d)
      /\ \A q \in Int : q * DayLength + hour <= t <=> q <= LastDay(t, hour)
  BY LastDayFacts DEF d
<1>8. first = d - since
  BY DEF first
<1>9. CASE ~(occ > t)
  <2>1. N = first /\ latest_weekly(t, hour, day) = N * DayLength + hour
    BY <1>3, <1>6, <1>9
  <2>. HIDE DEF N
  <2>2. N <= LastDay(t, hour)
    <3>1. occ <= t
      BY <1>6, <1>9
    <3>. QED
      BY <1>2, <1>6, <1>7, <2>1, <3>1
  <2>3. \A q \in Nat : N < q /\ q <= LastDay(t, hour) => q % WeekLength # day
    <3>1. LastDay(t, hour) < N + WeekLength
      BY <1>1, <1>2, <1>7, <1>8, <2>1, CalendarAssumed
    <3>2. N \in Int /\ N % WeekLength = day
      BY <1>2, <2>1
    <3>. QED
      BY <1>7, <3>1, <3>2, NextOfWeekday
  <2>4. N = d <=> Weekday(t) = day /\ At(t, hour) <= t
    <3>1. N = d <=> since = 0
      BY <1>1, <1>2, <1>8, <2>1, CalendarAssumed
    <3>2. N = d => LastDay(t, hour) = d
      BY <1>1, <1>7, <2>2
    <3>. QED
      BY <1>2, <1>7, <3>1, <3>2
  <2>. QED
    BY <1>2, <2>1, <2>2, <2>3, <2>4 DEF d
<1>10. CASE occ > t
  <2>1. N = first - WeekLength
    BY <1>10
  <2>2. latest_weekly(t, hour, day) = N * DayLength + hour
    <3>1. (first - WeekLength) * DayLength = first * DayLength - WeekLength * DayLength
          /\ first * DayLength \in Int /\ WeekLength * DayLength \in Int
      BY <1>2, CalendarAssumed
    <3>2. latest_weekly(t, hour, day) = occ - WeekLength * DayLength
      BY <1>3, <1>10
    <3>. QED
      BY <1>6, <2>1, <3>1, <3>2, CalendarAssumed
  <2>. HIDE DEF N
  <2>3. LastDay(t, hour) < first
    <3>1. ~(occ <= t)
      BY <1>6, <1>10
    <3>. QED
      BY <1>2, <1>6, <1>7, <3>1
  <2>4. first = d /\ LastDay(t, hour) = d - 1 /\ since = 0
    BY <1>1, <1>2, <1>7, <1>8, <2>3, CalendarAssumed
  <2>5. N \in Nat /\ N <= LastDay(t, hour) /\ LastDay(t, hour) < N + WeekLength /\ N # d
    BY <1>1, <2>1, <2>4, CalendarAssumed
  <2>6. N % WeekLength = day
    <3>. DEFINE a == first \div WeekLength
    <3>1. a \in Int /\ first = a * WeekLength + day
      <4>1. first \in Int /\ WeekLength \in Nat \ {0}
        BY <1>2, CalendarAssumed
      <4>2. a \in Int /\ first = a * WeekLength + (first % WeekLength)
        BY <4>1, Division
      <4>. QED
        BY <1>2, <4>2
    <3>. HIDE DEF a
    <3>2. (a - 1) * WeekLength = a * WeekLength - WeekLength /\ a * WeekLength \in Int
      BY <3>1, CalendarAssumed
    <3>3. N = (a - 1) * WeekLength + day
      BY <2>1, <3>1, <3>2, CalendarAssumed
    <3>4. ((a - 1) * WeekLength + day) % WeekLength = day
      <4>1. a - 1 \in Int
        BY <3>1
      <4>. QED
        BY <4>1, UniqueDivision, CalendarAssumed
    <3>. QED
      BY <3>3, <3>4
  <2>7. \A q \in Nat : N < q /\ q <= LastDay(t, hour) => q % WeekLength # day
    BY <1>7, <2>5, <2>6, NextOfWeekday
  <2>8. ~(At(t, hour) <= t)
    BY <1>1, <1>7, <2>4
  <2>. QED
    BY <2>2, <2>5, <2>6, <2>7, <2>8 DEF d
<1>. QED
  BY <1>9, <1>10

\* When the clock has shown an occurrence of a trigger since its last run.
OccursSince(type, policy, hour, day, last, t) ==
    \E o \in (last + 1)..t : /\ Occurs(type, hour, day, Local(o))
                             /\ policy = "latest" \/ Day(Local(o)) = Day(Local(t))

\* An occurrence of today is due when the slot of the hour is one, has been shown and is
\* later than the last run.
LEMMA SkipFacts ==
    ASSUME NEW type, NEW t \in Nat, NEW hour \in RegularHours, NEW day, NEW last \in Nat
    PROVE  OccursSince(type, "skip", hour, day, last, t) <=>
              /\ At(Local(t), hour) <= Local(t) /\ last < Stamp(Day(Local(t)), hour)
              /\ type = "weekdays" => Weekday(Local(t)) < Workdays
              /\ type = "weekly" => Weekday(Local(t)) = day
<1>. DEFINE x == At(Local(t), hour)
            r == Stamp(Day(Local(t)), hour)
            Today(o) == Local(o) % DayLength = hour /\ Day(Local(o)) = Day(Local(t))
            OnDay(n) == /\ type = "weekdays" => Weekday(n) < Workdays
                        /\ type = "weekly" => Weekday(n) = day
<1>1. /\ Local(r) = x /\ x % DayLength = hour /\ Day(x) = Day(Local(t))
      /\ \A o \in (last + 1)..t : Today(o) => o = r
      /\ r \in (last + 1)..t <=> x <= Local(t) /\ last < r
  BY OfToday
<1>2. Weekday(x) = Weekday(Local(t))
  BY <1>1 DEF Weekday
<1>3. OccursSince(type, "skip", hour, day, last, t) <=>
         \E o \in (last + 1)..t : Today(o) /\ OnDay(Local(o))
  BY DEF OccursSince, Occurs
<1>4. (OnDay(x) <=> OnDay(Local(t))) /\ Today(r)
  BY <1>1, <1>2
<1>. HIDE DEF x, r, OnDay, Today
<1>5. (\E o \in (last + 1)..t : Today(o) /\ OnDay(Local(o))) <=> r \in (last + 1)..t /\ OnDay(x)
  BY <1>1, <1>4
<1>6. OccursSince(type, "skip", hour, day, last, t) <=> x <= Local(t) /\ last < r /\ OnDay(Local(t))
  BY <1>1, <1>3, <1>4, <1>5
<1>. QED
  BY <1>6 DEF x, r, OnDay

LEMMA LastDayIsDay ==
    ASSUME NEW n \in Nat, WeekLength <= Day(n), NEW hour \in 0..(DayLength - 1)
    PROVE  LastDay(n, hour) \in Nat
<1>1. Day(n) \in Nat
  BY Slots
<1>2. LastDay(n, hour) \in {Day(n) - 1, Day(n)}
  BY LastDayFacts
<1>. QED
  BY <1>1, <1>2, CalendarAssumed

\* Whether an occurrence at a regular hour has passed does not depend on the fold.
LEMMA PassedFacts ==
    ASSUME NEW t, NEW hour \in RegularHours, NEW q \in Int, NEW last, NEW fold
    PROVE  Passed(Slot(q, hour), fold, last, t)
              <=> Slot(q, hour) <= Local(t) /\ last < Stamp(q, hour)
<1>1. timestamp(Slot(q, hour), fold) = Stamp(q, hour)
  BY RegularOccurrence
<1>2. Passed(Slot(q, hour), fold, last, t)
         <=> Local(t) >= Slot(q, hour) /\ last < timestamp(Slot(q, hour), fold)
  BY DEF Passed
<1>. QED
  BY <1>1, <1>2

LEMMA TodayPassed ==
    ASSUME NEW t \in Nat, NEW hour \in RegularHours, NEW last \in Nat, NEW fold
    PROVE  LET x == At(Local(t), hour)
           IN  Passed(x, fold, last, t) <=> x <= Local(t) /\ last < Stamp(Day(Local(t)), hour)
<1>1. At(Local(t), hour) = Slot(Day(Local(t)), hour) /\ Day(Local(t)) \in Int
  BY OfToday
<1>. QED
  BY <1>1, PassedFacts

LEMMA DailyIsExact ==
    ASSUME NEW t \in Nat, WeekLength <= Day(Local(t)), NEW last \in Nat,
           NEW policy \in {"latest", "skip"}, NEW hour \in RegularHours, NEW day
    PROVE  is_due("daily", policy, hour, day, last, t)
              <=> OccursSince("daily", policy, hour, day, last, t)
<1>. DEFINE n == Local(t)
<1>0. hour \in 0..(DayLength - 1) /\ n \in Nat
  BY LocalFacts DEF RegularHours
<1>1. CASE policy = "skip"
  <2>. DEFINE x == At(n, hour)
  <2>1. is_due("daily", policy, hour, day, last, t) <=> Passed(x, StillFolded(x, t), last, t)
    BY <1>1 DEF is_due
  <2>2. Passed(x, StillFolded(x, t), last, t) <=> x <= n /\ last < Stamp(Day(n), hour)
    BY TodayPassed
  <2>. QED
    BY <1>1, <2>1, <2>2, SkipFacts
<1>2. CASE policy = "latest"
  <2>. DEFINE N == LastDay(n, hour)
              f == Slot(N, hour)
  <2>1. N \in Nat /\ _latest_daily(n, hour) = f
    BY <1>0, LastDayFacts, LastDayIsDay DEF Slot
  <2>2. is_due("daily", policy, hour, day, last, t) <=> Passed(f, StillFolded(f, t), last, t)
    BY <1>2, <2>1 DEF is_due
  <2>3. Passed(f, StillFolded(f, t), last, t) <=> f <= n /\ last < Stamp(N, hour)
    <3>1. N \in Int
      BY <2>1
    <3>. HIDE DEF N
    <3>. QED
      BY <3>1, PassedFacts
  <2>4. f <= n /\ ((\E o \in (last + 1)..t : Local(o) % DayLength = hour /\ Day(Local(o)) \in Nat)
                      <=> last < Stamp(N, hour))
    <3>1. \A q \in Nat : N < q /\ q <= LastDay(n, hour) => q \notin Nat
      BY <2>1
    <3>2. N <= LastDay(n, hour)
      BY <2>1
    <3>. HIDE DEF N
    <3>. QED
      BY <2>1, <3>1, <3>2, SinceLastRun
  <2>5. \A o \in (last + 1)..t : Day(Local(o)) \in Nat
    <3>. SUFFICES ASSUME NEW o \in (last + 1)..t
                  PROVE  Day(Local(o)) \in Nat
      OBVIOUS
    <3>1. o \in Nat
      OBVIOUS
    <3>. QED
      BY <3>1, LocalFacts, Slots
  <2>6. OccursSince("daily", policy, hour, day, last, t)
           <=> \E o \in (last + 1)..t : Local(o) % DayLength = hour /\ Day(Local(o)) \in Nat
    BY <1>2, <2>5 DEF OccursSince, Occurs
  <2>. HIDE DEF f
  <2>. QED
    BY <2>2, <2>3, <2>4, <2>6
<1>. QED
  BY <1>1, <1>2

LEMMA WeekdaysAreExact ==
    ASSUME NEW t \in Nat, WeekLength <= Day(Local(t)), NEW last \in Nat,
           NEW policy \in {"latest", "skip"}, NEW hour \in RegularHours, NEW day
    PROVE  is_due("weekdays", policy, hour, day, last, t)
              <=> OccursSince("weekdays", policy, hour, day, last, t)
<1>. DEFINE n == Local(t)
<1>0. hour \in 0..(DayLength - 1) /\ n \in Nat
  BY LocalFacts DEF RegularHours
<1>1. CASE policy = "skip"
  <2>. DEFINE x == At(n, hour)
  <2>1. is_due("weekdays", policy, hour, day, last, t) <=>
           Weekday(n) < Workdays /\ Passed(x, StillFolded(x, t), last, t)
    BY <1>1 DEF is_due
  <2>2. Passed(x, StillFolded(x, t), last, t) <=> x <= n /\ last < Stamp(Day(n), hour)
    BY TodayPassed
  <2>. QED
    BY <1>1, <2>1, <2>2, SkipFacts
<1>2. CASE policy = "latest"
  <2>. DEFINE L == LastDay(n, hour)
              over == (L % WeekLength) + 1 - Workdays
              N == IF over > 0 THEN L - over ELSE L
              f == Slot(N, hour)
              S == {q \in Nat : q % WeekLength < Workdays}
  <2>1. L \in Nat /\ _latest_daily(n, hour) = L * DayLength + hour
    BY <1>0, LastDayFacts, LastDayIsDay
  <2>2. Weekday(_latest_daily(n, hour)) = L % WeekLength
    BY <1>0, <2>1, SlotOf DEF Weekday
  <2>. HIDE DEF L
  <2>3. /\ over \in Int /\ N \in Nat /\ N <= L /\ N % WeekLength < Workdays
        /\ \A q \in Nat : N < q /\ q <= L => ~(q % WeekLength < Workdays)
    BY <2>1, LastWorkday
  <2>4. _latest_weekday(n, hour) = f
    <3>1. _latest_weekday(n, hour) = IF over > 0 THEN _latest_daily(n, hour) - over * DayLength
                                      ELSE _latest_daily(n, hour)
      BY <2>2 DEF _latest_weekday
    <3>2. CASE over > 0
      <4>1. N = L - over
        BY <3>2
      <4>. HIDE DEF N, over
      <4>2. (L - over) * DayLength = L * DayLength - over * DayLength
            /\ L * DayLength \in Int /\ over * DayLength \in Int
        BY <2>1, <2>3, CalendarAssumed
      <4>3. _latest_weekday(n, hour) = _latest_daily(n, hour) - over * DayLength
        BY <3>1, <3>2
      <4>. QED
        BY <1>0, <2>1, <4>1, <4>2, <4>3 DEF f, Slot
    <3>3. CASE ~(over > 0)
      BY <2>1, <3>1, <3>3 DEF Slot
    <3>. QED
      BY <3>2, <3>3
  <2>. HIDE DEF N
  <2>5. is_due("weekdays", policy, hour, day, last, t) <=> Passed(f, StillFolded(f, t), last, t)
    BY <1>2, <2>4 DEF is_due
  <2>6. Passed(f, StillFolded(f, t), last, t) <=> f <= n /\ last < Stamp(N, hour)
    <3>1. N \in Int
      BY <2>3
    <3>. QED
      BY <3>1, PassedFacts
  <2>7. f <= n /\ ((\E o \in (last + 1)..t : Local(o) % DayLength = hour /\ Day(Local(o)) \in S)
                      <=> last < Stamp(N, hour))
    <3>1. N \in S /\ \A q \in Nat : N < q /\ q <= L => q \notin S
      BY <2>3
    <3>. HIDE DEF S
    <3>. QED
      BY <2>3, <3>1, SinceLastRun DEF L
  <2>8. \A o \in (last + 1)..t : Day(Local(o)) \in S <=> Weekday(Local(o)) < Workdays
    <3>. SUFFICES ASSUME NEW o \in (last + 1)..t
                  PROVE  Day(Local(o)) \in S <=> Weekday(Local(o)) < Workdays
      OBVIOUS
    <3>1. o \in Nat
      OBVIOUS
    <3>. QED
      BY <3>1, LocalFacts, Slots
  <2>. HIDE DEF S
  <2>9. OccursSince("weekdays", policy, hour, day, last, t)
           <=> \E o \in (last + 1)..t : Local(o) % DayLength = hour /\ Day(Local(o)) \in S
    BY <1>2, <2>8 DEF OccursSince, Occurs
  <2>. HIDE DEF f
  <2>. QED
    BY <2>5, <2>6, <2>7, <2>9
<1>. QED
  BY <1>1, <1>2

LEMMA WeeklyIsExact ==
    ASSUME NEW t \in Nat, WeekLength <= Day(Local(t)), NEW last \in Nat,
           NEW policy \in {"latest", "skip"}, NEW hour \in RegularHours,
           NEW day \in 0..(WeekLength - 1)
    PROVE  is_due("weekly", policy, hour, day, last, t)
              <=> OccursSince("weekly", policy, hour, day, last, t)
<1>. DEFINE n == Local(t)
            occ == latest_weekly(n, hour, day)
            S == {q \in Nat : q % WeekLength = day}
<1>0. hour \in 0..(DayLength - 1) /\ n \in Nat
  BY LocalFacts DEF RegularHours
<1>1. PICK N \in Nat :
         /\ occ = Slot(N, hour) /\ N % WeekLength = day /\ N <= LastDay(n, hour)
         /\ \A q \in Nat : N < q /\ q <= LastDay(n, hour) => q % WeekLength # day
         /\ N = Day(n) <=> Weekday(n) = day /\ At(n, hour) <= n
  BY <1>0, LatestWeekly DEF Slot
<1>2. occ \in Nat /\ Day(occ) = N
  BY <1>1, SlotFacts
<1>3. is_due("weekly", policy, hour, day, last, t) <=>
         /\ policy = "latest" \/ (Weekday(n) = day /\ Day(occ) = Day(n))
         /\ Passed(occ, FALSE, last, t)
  BY DEF is_due
<1>. HIDE DEF occ
<1>4. Passed(occ, FALSE, last, t) <=> occ <= n /\ last < Stamp(N, hour)
  <2>1. N \in Int
    OBVIOUS
  <2>. QED
    BY <1>1, <2>1, PassedFacts
<1>5. occ <= n /\ ((\E o \in (last + 1)..t : Local(o) % DayLength = hour /\ Day(Local(o)) \in S)
                      <=> last < Stamp(N, hour))
  <2>1. N \in S /\ \A q \in Nat : N < q /\ q <= LastDay(n, hour) => q \notin S
    BY <1>1
  <2>. HIDE DEF S
  <2>. QED
    BY <1>1, <2>1, SinceLastRun
<1>6. CASE policy = "latest"
  <2>1. \A o \in (last + 1)..t : Day(Local(o)) \in S <=> Weekday(Local(o)) = day
    <3>. SUFFICES ASSUME NEW o \in (last + 1)..t
                  PROVE  Day(Local(o)) \in S <=> Weekday(Local(o)) = day
      OBVIOUS
    <3>1. o \in Nat
      OBVIOUS
    <3>. QED
      BY <3>1, LocalFacts, Slots
  <2>. HIDE DEF S
  <2>2. OccursSince("weekly", policy, hour, day, last, t)
           <=> \E o \in (last + 1)..t : Local(o) % DayLength = hour /\ Day(Local(o)) \in S
    BY <1>6, <2>1 DEF OccursSince, Occurs
  <2>. QED
    BY <1>3, <1>4, <1>5, <1>6, <2>2
<1>7. CASE policy = "skip"
  <2>. DEFINE x == At(n, hour)
  <2>1. OccursSince("weekly", policy, hour, day, last, t) <=>
           x <= n /\ last < Stamp(Day(n), hour) /\ Weekday(n) = day
    BY <1>7, SkipFacts
  <2>2. N = Day(n) => occ = x
    BY <1>1, OfToday
  <2>. QED
    BY <1>1, <1>2, <1>3, <1>4, <1>5, <1>7, <2>1, <2>2
<1>. QED
  BY <1>6, <1>7

LEMMA AfterFirstWeek ==
    ASSUME NEW n \in Nat, WeekLength * DayLength <= n
    PROVE  WeekLength <= Day(n)
<1>. DEFINE d == Day(n)
            e == n % DayLength
<1>1. d \in Nat /\ e \in 0..(DayLength - 1) /\ n = d * DayLength + e
  BY Slots
<1>. HIDE DEF d, e
<1>2. /\ DayLength \in Nat \ {0} /\ WeekLength \in Int /\ 0 \in 0..(DayLength - 1)
      /\ WeekLength * DayLength \in Int /\ d * DayLength \in Int
  BY <1>1, CalendarAssumed
<1>3. WeekLength * DayLength + 0 <= d * DayLength + e
  BY <1>1, <1>2
<1>4. WeekLength < d \/ (WeekLength = d /\ 0 <= e)
  BY <1>1, <1>2, <1>3, SlotOrder
<1>. QED
  BY <1>1, <1>2, <1>4 DEF d

LEMMA DueIsOccursSince ==
    ASSUME NEW type \in {"daily", "weekdays", "weekly"}, NEW policy \in {"latest", "skip"},
           NEW hour \in RegularHours, NEW day \in 0..(WeekLength - 1),
           NEW last \in Nat, NEW t \in Nat, WeekLength * DayLength <= t
    PROVE  is_due(type, policy, hour, day, last, t) = OccursSince(type, policy, hour, day, last, t)
<1>1. WeekLength <= Day(Local(t))
  <2>1. Local(t) \in Nat /\ t <= Local(t)
    BY LocalFacts
  <2>2. WeekLength * DayLength \in Int
    BY CalendarAssumed
  <2>3. WeekLength * DayLength <= Local(t)
    BY <2>1, <2>2
  <2>. QED
    BY <2>1, <2>3, AfterFirstWeek
<1>2. is_due(type, policy, hour, day, last, t) \in BOOLEAN
  BY DEF is_due, Passed
<1>3. OccursSince(type, policy, hour, day, last, t) \in BOOLEAN
  BY DEF OccursSince
<1>4. is_due(type, policy, hour, day, last, t) <=> OccursSince(type, policy, hour, day, last, t)
  <2>1. CASE type = "daily"
    BY <1>1, <2>1, DailyIsExact
  <2>2. CASE type = "weekdays"
    BY <1>1, <2>2, WeekdaysAreExact
  <2>3. CASE type = "weekly"
    BY <1>1, <2>3, WeeklyIsExact
  <2>. QED
    BY <2>1, <2>2, <2>3
<1>. QED
  BY <1>2, <1>3, <1>4

\* The calendar arithmetic of is_due finds exactly the occurrences of daily, weekday and
\* weekly triggers across changes of the clock, for any length of the day and the week, any
\* number of workdays and any time and size of the changes, however long ago the last run
\* was: from the second week on, it answers what looking at every slot since the last run
\* on the clock would find, at the hours that no change skips or repeats (latest_weekly,
\* _latest_weekday, is_due and the conversions between local times and timestamps).
THEOREM CalendarIsExact ==
    ASSUME NEW type \in {"daily", "weekdays", "weekly"}, NEW policy \in {"latest", "skip"},
           NEW hour \in RegularHours, NEW day \in 0..(WeekLength - 1),
           NEW last \in Nat, NEW t \in Nat, WeekLength * DayLength <= t
    PROVE  is_due(type, policy, hour, day, last, t) <=>
              \E o \in (last + 1)..t : /\ Occurs(type, hour, day, Local(o))
                                       /\ policy = "latest" \/ Day(Local(o)) = Day(Local(t))
<1>1. is_due(type, policy, hour, day, last, t) = OccursSince(type, policy, hour, day, last, t)
  BY DueIsOccursSince
<1>2. OccursSince(type, policy, hour, day, last, t) <=>
         \E o \in (last + 1)..t : /\ Occurs(type, hour, day, Local(o))
                                  /\ policy = "latest" \/ Day(Local(o)) = Day(Local(t))
  BY ONLY DEF OccursSince
<1>. QED
  BY ONLY <1>1, <1>2, Zenon

\* Whenever the loop fires, the arithmetic it acts on misjudges none of the inputs of two
\* weeks at regular hours: what is due is what the clock has shown since the last run.
THEOREM DueExact == Spec => []DueIsExact
<1>1. WrongDue = {}
  <2>. DEFINE week == WeekLength * DayLength
              Input == [type : {"daily", "weekdays", "weekly"}, policy : {"latest", "skip"},
                        hour : RegularHours, day : 0..(WeekLength - 1),
                        last : 0..(2 * week), t : week..(2 * week)]
  <2>1. week \in Nat
    BY CalendarAssumed
  <2>2. WrongDue = {x \in Input : is_due(x.type, x.policy, x.hour, x.day, x.last, x.t) #
                       OccursSince(x.type, x.policy, x.hour, x.day, x.last, x.t)}
    BY DEF WrongDue, OccursSince
  <2>3. ASSUME NEW x \in Input
        PROVE  is_due(x.type, x.policy, x.hour, x.day, x.last, x.t)
                  = OccursSince(x.type, x.policy, x.hour, x.day, x.last, x.t)
    <3>1. /\ x.type \in {"daily", "weekdays", "weekly"} /\ x.policy \in {"latest", "skip"}
          /\ x.hour \in RegularHours /\ x.day \in 0..(WeekLength - 1)
          /\ x.last \in 0..(2 * week) /\ x.t \in week..(2 * week)
      OBVIOUS
    <3>. HIDE DEF Input
    <3>2. x.last \in Nat /\ x.t \in Nat /\ WeekLength * DayLength <= x.t
      BY <2>1, <3>1
    <3>. QED
      BY <3>1, <3>2, DueIsOccursSince
  <2>. HIDE DEF Input
  <2>. QED
    BY <2>2, <2>3
<1>2. DueIsExact
  BY <1>1 DEF DueIsExact
<1>. QED
  BY <1>2, PTL
=============================================================================
