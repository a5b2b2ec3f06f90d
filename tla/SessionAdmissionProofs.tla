------------------------ MODULE SessionAdmissionProofs ------------------------
(***************************************************************************)
(* Proofs about the admission of runs of one chat, for any turns, settings *)
(* changes, kernel retirements and windows and any charges to its budget.  *)
(***************************************************************************)
EXTENDS SessionAdmission, TLAPS

USE DEF Holding, _budget_allows, TurnState

Live == [admission: Turn \cup {None}, settings: Change \cup {None},
         retirement: Retire \cup {None}]
Command == [kind: Kinds, target: Turn]
Shown == [run: Turn, revision: Nat, state: {"running", "pausing", "paused"}]

\* Who holds the chat, and what that holder may rely on.
Held ==
    OneRunPerChat /\ RunExcludesMaintenance /\ AuthorityFixedDuringRun

\* What clients were shown is ordered.
Ordered == PauseRevisionOrdersSnapshots /\ SnapshotsArePast

LEMMA InvParts == AdmissionInv <=> AdmissionTypeOK /\ Held /\ Ordered
BY DEF AdmissionInv, Held, Ordered

LEMMA InvPartsNext == AdmissionTypeOK' /\ Held' /\ Ordered' => AdmissionInv'
BY DEF AdmissionInv, Held, Ordered

LEMMA TypeFacts ==
    ASSUME AdmissionTypeOK
    PROVE  /\ live \in Live /\ turn \in [Turn -> TurnState] /\ adm \in [Turn -> Admission]
           /\ awaited \in [Turn -> Retire \cup {None}]
           /\ \A t \in Turn : turn[t] \in TurnState /\ adm[t] \in Admission
           /\ \A t \in Turn : turn[t] = "waiting" <=> awaited[t] # None
           /\ shown \subseteq Shown /\ \A a \in shown : a.run \in Turn /\ a.revision \in Nat
           /\ commands \subseteq Command /\ exhausted \in BOOLEAN
           /\ authority \in [enabled: BOOLEAN, revision: 0..MaxAuthority]
           /\ authority.revision \in Nat
BY AdmissionAssumption DEF AdmissionTypeOK, Live, Shown, Command

LEMMA InitInv == Init => AdmissionInv
<1>. SUFFICES ASSUME Init PROVE AdmissionInv
  OBVIOUS
<1>1. AdmissionTypeOK
  <2>1. \A t \in Turn : Reserved(t) \in Admission
    BY AdmissionAssumption DEF Init, Reserved, Admission
  <2>2. exhausted \in BOOLEAN
    BY DEF Init
  <2>. QED
    BY <2>1, <2>2, AdmissionAssumption DEF Init, AdmissionTypeOK, TurnState
<1>2. Held
  BY AdmissionAssumption
     DEF Init, Held, OneRunPerChat, RunExcludesMaintenance, AuthorityFixedDuringRun
<1>3. Ordered
  BY DEF Init, Ordered, PauseRevisionOrdersSnapshots, SnapshotsArePast
<1>. QED
  BY <1>1, <1>2, <1>3, InvParts

-----------------------------------------------------------------------------
(* Parts of steps. *)

\* Snapshots stay ordered when no run that was shown changes its pause.
LEMMA QuietSnapshots ==
    ASSUME AdmissionTypeOK, Ordered, shown' = shown,
           \A a \in shown :
              /\ adm'[a.run].pause_revision = adm[a.run].pause_revision
              /\ _pause_state(adm'[a.run]) = _pause_state(adm[a.run])
              /\ turn[a.run] \notin {"idle", "waiting"} => turn'[a.run] \notin {"idle", "waiting"}
    PROVE  Ordered'
BY DEF Ordered, PauseRevisionOrdersSnapshots, SnapshotsArePast

\* So does a step that leaves all admissions alone.
LEMMA SameAdmissions ==
    ASSUME AdmissionTypeOK, Ordered, UNCHANGED <<adm, shown>>,
           \A t \in Turn :
              turn[t] \notin {"idle", "waiting"} => turn'[t] \notin {"idle", "waiting"}
    PROVE  Ordered'
BY TypeFacts, QuietSnapshots

\* Closing an admission to input changes nothing of its pause.
LEMMA ClosedAdmission ==
    ASSUME NEW a \in Admission
    PROVE  LET b == [a EXCEPT !.accepting = FALSE]
           IN  /\ b \in Admission /\ b.authority = a.authority
               /\ b.pause_revision = a.pause_revision /\ _pause_state(b) = _pause_state(a)
               /\ b.pause_requested = a.pause_requested
BY DEF Admission, _pause_state

\* A new snapshot: of the state as it was at this revision, or of a new revision.
LEMMA NewSnapshot ==
    ASSUME AdmissionTypeOK, Ordered, NEW t \in Turn, NEW b \in Admission,
           adm' = [adm EXCEPT ![t] = b], shown' = shown \cup {Snapshot(t, b)},
           \/ b.pause_revision > adm[t].pause_revision
           \/ /\ b.pause_revision = adm[t].pause_revision
              /\ _pause_state(b) = _pause_state(adm[t]),
           turn'[t] \notin {"idle", "waiting"}, \A k \in Turn : k # t => turn'[k] = turn[k]
    PROVE  Ordered'
<1>. DEFINE s == Snapshot(t, b)
<1>1. s.run = t /\ s.revision = b.pause_revision /\ s.state = _pause_state(b)
  BY DEF Snapshot
<1>. HIDE DEF s
<1>2. /\ adm'[t] = b /\ \A k \in Turn : k # t => adm'[k] = adm[k]
      /\ b.pause_revision \in Nat /\ adm[t].pause_revision \in Nat
  BY TypeFacts DEF Admission
<1>3. \A a \in shown : /\ a.run \in Turn /\ a.revision \in Nat
                       /\ turn[a.run] \notin {"idle", "waiting"}
                       /\ a.revision <= adm[a.run].pause_revision
  BY TypeFacts DEF Ordered, SnapshotsArePast
<1>4. ASSUME NEW a \in shown, a.run = t, a.revision = b.pause_revision
      PROVE  a.state = _pause_state(b)
  BY <1>2, <1>3, <1>4 DEF Ordered, PauseRevisionOrdersSnapshots
<1>5. shown' = shown \cup {s}
  BY DEF s
<1>6. ASSUME NEW a \in shown' PROVE a.revision = adm'[a.run].pause_revision
                                      => a.state = _pause_state(adm'[a.run])
  <2>1. CASE a = s
    BY <1>1, <1>2, <2>1
  <2>2. CASE a \in shown /\ a.run = t
    BY <1>2, <1>4, <2>2
  <2>3. CASE a \in shown /\ a.run # t
    BY <1>2, <1>3, <2>3 DEF Ordered, PauseRevisionOrdersSnapshots
  <2>. QED
    BY <1>5, <2>1, <2>2, <2>3
<1>7. ASSUME NEW a \in shown', NEW c \in shown', a.run = c.run, a.revision = c.revision
      PROVE  a.state = c.state
  <2>1. CASE a \in shown /\ c \in shown
    BY <1>7, <2>1 DEF Ordered, PauseRevisionOrdersSnapshots
  <2>2. CASE a = s
    BY <1>1, <1>4, <1>5, <1>7, <2>2
  <2>3. CASE c = s
    BY <1>1, <1>4, <1>5, <1>7, <2>3
  <2>. QED
    BY <1>5, <2>1, <2>2, <2>3
<1>8. ASSUME NEW a \in shown' PROVE /\ turn'[a.run] \notin {"idle", "waiting"}
                                    /\ a.revision <= adm'[a.run].pause_revision
  <2>1. CASE a = s
    BY <1>1, <1>2, <2>1
  <2>2. CASE a \in shown /\ a.run = t
    BY <1>2, <1>3, <2>2
  <2>3. CASE a \in shown /\ a.run # t
    BY <1>2, <1>3, <2>3
  <2>. QED
    BY <1>5, <2>1, <2>2, <2>3
<1>. QED
  BY <1>6, <1>7, <1>8 DEF Ordered, PauseRevisionOrdersSnapshots, SnapshotsArePast

LEMMA SnapshotShown ==
    ASSUME NEW t \in Turn, NEW b \in Admission
    PROVE  Snapshot(t, b) \in Shown
BY DEF Snapshot, Shown, Admission, _pause_state

\* What holds of the holder when the admission is released or stays.
LEMMA HeldStays ==
    ASSUME AdmissionTypeOK, Held, live'.admission \in {live.admission, None},
           live'.admission # None => live'.settings = live.settings
                                     /\ live'.retirement = live.retirement,
           \A t \in Turn : turn'[t] \in Holding <=> live'.admission = t,
           \A t \in Turn : adm'[t].authority = adm[t].authority,
           authority' = authority
    PROVE  Held'
<1>1. OneRunPerChat' /\ RunExcludesMaintenance'
  BY DEF Held, OneRunPerChat, RunExcludesMaintenance
<1>2. AuthorityFixedDuringRun'
  BY AdmissionAssumption DEF Held, AuthorityFixedDuringRun
<1>. QED
  BY <1>1, <1>2 DEF Held

-----------------------------------------------------------------------------
(* Reservation and maintenance. *)

LEMMA AdmitInv ==
    ASSUME AdmissionInv, NEW t \in Turn, try_reserve_run(t)
    PROVE  AdmissionInv'
<1>0. AdmissionTypeOK /\ Held /\ Ordered
  BY InvParts
<1>1. /\ AtReservation(t) /\ Free
      /\ live' = [live EXCEPT !.admission = t] /\ adm' = [adm EXCEPT ![t] = Reserved(t)]
      /\ turn' = [turn EXCEPT ![t] = "launched"] /\ awaited' = [awaited EXCEPT ![t] = None]
      /\ UNCHANGED <<change, retire, authority, exhausted, commands, shown>>
  BY DEF try_reserve_run
<1>2. /\ live' \in Live /\ live'.admission = t /\ live'.settings = None
      /\ live'.retirement = None
  BY <1>0, <1>1, TypeFacts DEF Live, Free
<1>3. Reserved(t) \in Admission /\ Reserved(t).authority = authority.revision
  BY <1>0, TypeFacts DEF Reserved, Admission
<1>4. turn[t] \in {"idle", "waiting"}
  BY <1>1 DEF AtReservation
<1>5. AdmissionTypeOK'
  BY <1>0, <1>1, <1>2, <1>3, AdmissionAssumption DEF AdmissionTypeOK, Live
<1>6. \A k \in Turn : turn[k] \notin Holding
  BY <1>0, <1>1, AdmissionAssumption DEF Free, Held, OneRunPerChat
<1>7. Held'
  <2>1. OneRunPerChat' /\ RunExcludesMaintenance'
    BY <1>0, <1>1, <1>2, <1>6, TypeFacts DEF OneRunPerChat, RunExcludesMaintenance
  <2>2. AuthorityFixedDuringRun'
    BY <1>0, <1>1, <1>2, <1>3, TypeFacts DEF AuthorityFixedDuringRun
  <2>. QED
    BY <2>1, <2>2 DEF Held
<1>8. Ordered'
  <2>1. ASSUME NEW a \in shown
        PROVE  /\ a.run \in Turn /\ a.run # t
               /\ adm'[a.run] = adm[a.run] /\ turn'[a.run] = turn[a.run]
    BY <1>0, <1>1, <1>4, TypeFacts DEF Ordered, SnapshotsArePast
  <2>. QED
    BY <1>0, <1>1, <2>1, QuietSnapshots
<1>. QED
  BY <1>5, <1>7, <1>8, InvPartsNext

LEMMA NotAdmittedInv ==
    ASSUME AdmissionInv, NEW t \in Turn,
           reserve_run_refused(t) \/ reserve_run_waits(t) \/ reserve_run_cancelled(t)
    PROVE  AdmissionInv'
<1>0. AdmissionTypeOK /\ Held /\ Ordered
  BY InvParts
<1>1. UNCHANGED <<live, adm, change, retire, authority, exhausted, commands, shown>>
  BY DEF reserve_run_refused, reserve_run_waits, reserve_run_cancelled
<1>2. PICK s \in {"refused", "waiting"}, r \in Retire \cup {None} :
        /\ turn' = [turn EXCEPT ![t] = s] /\ awaited' = [awaited EXCEPT ![t] = r]
        /\ s = "waiting" <=> r # None
  BY <1>0, TypeFacts DEF reserve_run_refused, reserve_run_waits, reserve_run_cancelled, Live
<1>3. turn[t] \in {"idle", "waiting"}
  BY DEF reserve_run_refused, reserve_run_waits, reserve_run_cancelled, AtReservation
<1>4. AdmissionTypeOK'
  BY <1>0, <1>1, <1>2 DEF AdmissionTypeOK
<1>5. Held'
  BY <1>0, <1>1, <1>2, <1>3, TypeFacts
     DEF Held, OneRunPerChat, RunExcludesMaintenance, AuthorityFixedDuringRun
<1>6. Ordered'
  BY <1>0, <1>1, <1>2, <1>3, TypeFacts, SameAdmissions
<1>. QED
  BY <1>4, <1>5, <1>6, InvPartsNext

LEMMA MaintenanceInv ==
    ASSUME AdmissionInv,
           \/ \E c \in Change : change_settings(c) \/ change_settings_ends(c)
           \/ \E r \in Retire : claim_kernel_retirement(r) \/ claim_kernel_retirement_ends(r)
    PROVE  AdmissionInv'
<1>0. AdmissionTypeOK /\ Held /\ Ordered
  BY InvParts
<1>1. UNCHANGED <<turn, adm, awaited, authority, exhausted, commands, shown>>
  BY DEF change_settings, change_settings_ends, claim_kernel_retirement,
         claim_kernel_retirement_ends
<1>. DEFINE KeepsRun ==
              /\ live' \in Live /\ live'.admission = live.admission
              /\ live.admission # None => live'.settings = None /\ live'.retirement = None
              /\ change' \in [Change -> {"idle", "holding", "done"}]
              /\ retire' \in [Retire -> {"idle", "holding", "done"}]
<1>2. KeepsRun
  <2>1. ASSUME NEW c \in Change, change_settings(c) \/ change_settings_ends(c) PROVE KeepsRun
    <3>1. live'.admission = live.admission /\ live'.retirement = live.retirement
          /\ live' \in Live /\ (live.admission # None => live'.settings = None)
      BY <1>0, <2>1, TypeFacts
         DEF change_settings, change_settings_ends, Live, Held, RunExcludesMaintenance
    <3>2. change' \in [Change -> {"idle", "holding", "done"}] /\ retire' = retire
      BY <1>0, <2>1 DEF change_settings, change_settings_ends, AdmissionTypeOK
    <3>. QED
      BY <1>0, <3>1, <3>2 DEF Held, RunExcludesMaintenance, AdmissionTypeOK
  <2>2. ASSUME NEW r \in Retire, claim_kernel_retirement(r) \/ claim_kernel_retirement_ends(r)
        PROVE  KeepsRun
    <3>1. live'.admission = live.admission /\ live'.settings = live.settings
          /\ live' \in Live /\ (live.admission # None => live'.retirement = None)
      BY <1>0, <2>2, TypeFacts
         DEF claim_kernel_retirement, claim_kernel_retirement_ends, Live, Held, Free,
             RunExcludesMaintenance
    <3>2. retire' \in [Retire -> {"idle", "holding", "done"}] /\ change' = change
      BY <1>0, <2>2 DEF claim_kernel_retirement, claim_kernel_retirement_ends, AdmissionTypeOK
    <3>. QED
      BY <1>0, <3>1, <3>2 DEF Held, RunExcludesMaintenance, AdmissionTypeOK
  <2>. QED
    BY <2>1, <2>2
<1>3. AdmissionTypeOK'
  BY <1>0, <1>1, <1>2 DEF AdmissionTypeOK, Live
<1>4. Held'
  BY <1>0, <1>1, <1>2
     DEF Held, OneRunPerChat, RunExcludesMaintenance, AuthorityFixedDuringRun
<1>5. Ordered'
  BY <1>0, <1>1, SameAdmissions
<1>. QED
  BY <1>3, <1>4, <1>5, InvPartsNext

LEMMA AuthorityInv ==
    ASSUME AdmissionInv, NEW e \in BOOLEAN, NEW v \in 0..MaxAuthority,
           set_mutation_write_enabled(e, v)
    PROVE  AdmissionInv'
<1>0. AdmissionTypeOK /\ Held /\ Ordered
  BY InvParts
<1>1. /\ live.admission = None /\ authority' = [enabled |-> e, revision |-> authority.revision + 1]
      /\ authority.revision < MaxAuthority
      /\ UNCHANGED <<live, turn, adm, awaited, change, retire, exhausted, commands, shown>>
  BY DEF set_mutation_write_enabled
<1>2. AdmissionTypeOK'
  <2>1. authority.revision + 1 \in 0..MaxAuthority
    BY <1>0, <1>1, TypeFacts, AdmissionAssumption
  <2>. QED
    BY <1>0, <1>1, <2>1 DEF AdmissionTypeOK
<1>3. Held'
  BY <1>0, <1>1, AdmissionAssumption
     DEF Held, OneRunPerChat, RunExcludesMaintenance, AuthorityFixedDuringRun
<1>4. Ordered'
  BY <1>0, <1>1, SameAdmissions
<1>. QED
  BY <1>2, <1>3, <1>4, InvPartsNext

-----------------------------------------------------------------------------
(* The run. *)

\* A turn that was not charged moves on and keeps its admission.
LEMMA MoveInv ==
    ASSUME AdmissionInv, NEW t \in Turn, NEW to \in Holding \ {"charged"},
           turn[t] \in Holding \ {"charged"}, turn' = [turn EXCEPT ![t] = to],
           UNCHANGED <<live, awaited, change, retire, authority, exhausted, commands>>,
           adm' \in [Turn -> Admission], \A k \in Turn : adm'[k].authority = adm[k].authority,
           shown' \subseteq Shown, Ordered'
    PROVE  AdmissionInv'
<1>0. AdmissionTypeOK /\ Held /\ Ordered
  BY InvParts
<1>1. AdmissionTypeOK'
  BY <1>0 DEF AdmissionTypeOK, Shown
<1>2. \A k \in Turn : turn'[k] \in Holding <=> live'.admission = k
  BY <1>0, TypeFacts DEF Held, OneRunPerChat
<1>3. Held'
  BY <1>0, <1>2, TypeFacts, HeldStays DEF Held
<1>. QED
  BY <1>1, <1>3, InvPartsNext

LEMMA RunInv ==
    ASSUME AdmissionInv, NEW t \in Turn,
           begin_run(t) \/ wait_if_paused_holds(t) \/ wait_if_paused_returns(t)
    PROVE  AdmissionInv'
<1>0. AdmissionTypeOK /\ Held /\ Ordered
  BY InvParts
<1>1. UNCHANGED <<live, adm, awaited, change, retire, authority, exhausted, commands, shown>>
  BY DEF begin_run, wait_if_paused_holds, wait_if_paused_returns
<1>2. PICK to \in Holding \ {"charged"} : turn' = [turn EXCEPT ![t] = to]
  BY DEF begin_run, wait_if_paused_holds, wait_if_paused_returns
<1>3. turn[t] \in Holding \ {"charged"}
  BY DEF begin_run, wait_if_paused_holds, wait_if_paused_returns
<1>4. Ordered'
  BY <1>0, <1>1, <1>2, TypeFacts, SameAdmissions
<1>. QED
  BY <1>0, <1>1, <1>2, <1>3, <1>4, TypeFacts, MoveInv

LEMMA PausedInv ==
    ASSUME AdmissionInv, NEW t \in Turn, wait_if_paused(t)
    PROVE  AdmissionInv'
<1>. DEFINE a == [adm[t] EXCEPT !.paused = TRUE, !.pause_revision = @ + 1]
<1>0. AdmissionTypeOK /\ Held /\ Ordered /\ adm[t] \in Admission
  BY InvParts, TypeFacts
<1>1. /\ turn[t] \in {"running", "notifying"} /\ turn' = [turn EXCEPT ![t] = "notifying"]
      /\ adm' = [adm EXCEPT ![t] = a] /\ shown' = shown \cup {Snapshot(t, a)}
      /\ UNCHANGED <<live, awaited, change, retire, authority, exhausted, commands>>
  BY DEF wait_if_paused
<1>2. /\ a \in Admission /\ a.authority = adm[t].authority
      /\ a.pause_revision > adm[t].pause_revision
  <2>. DEFINE n == adm[t].pause_revision + 1
  <2>1. n \in Nat /\ n > adm[t].pause_revision
    BY <1>0 DEF Admission
  <2>2. a = [adm[t] EXCEPT !.paused = TRUE, !.pause_revision = n]
    OBVIOUS
  <2>. HIDE DEF n, a
  <2>. QED
    BY <1>0, <2>1, <2>2 DEF Admission
<1>. HIDE DEF a
<1>3. Ordered'
  BY <1>0, <1>1, <1>2, TypeFacts, NewSnapshot
<1>4. /\ adm' \in [Turn -> Admission] /\ shown' \subseteq Shown
      /\ \A k \in Turn : adm'[k].authority = adm[k].authority
  BY <1>0, <1>1, <1>2, TypeFacts, SnapshotShown
<1>. QED
  BY <1>1, <1>3, <1>4, MoveInv

LEMMA FinalizeInv ==
    ASSUME AdmissionInv, NEW t \in Turn, begin_run_finalization(t)
    PROVE  AdmissionInv'
<1>. DEFINE b == [adm[t] EXCEPT !.accepting = FALSE]
<1>0. AdmissionTypeOK /\ Held /\ Ordered /\ adm[t] \in Admission
  BY InvParts, TypeFacts
<1>1. /\ turn[t] = "running" /\ turn' = [turn EXCEPT ![t] = "finalizing"]
      /\ adm' = [adm EXCEPT ![t] = b]
      /\ UNCHANGED <<live, awaited, change, retire, authority, exhausted, commands, shown>>
  BY DEF begin_run_finalization
<1>2. /\ b \in Admission /\ b.authority = adm[t].authority
      /\ b.pause_revision = adm[t].pause_revision /\ _pause_state(b) = _pause_state(adm[t])
  BY <1>0, ClosedAdmission
<1>. HIDE DEF b
<1>3. Ordered'
  BY <1>0, <1>1, <1>2, TypeFacts, QuietSnapshots
<1>4. /\ adm' \in [Turn -> Admission] /\ shown' \subseteq Shown
      /\ \A k \in Turn : adm'[k].authority = adm[k].authority
  BY <1>0, <1>1, <1>2, TypeFacts
<1>. QED
  BY <1>1, <1>3, <1>4, MoveInv

LEMMA ChargeInv ==
    ASSUME AdmissionInv, NEW t \in Turn, record_run_usage(t)
    PROVE  AdmissionInv'
<1>0. AdmissionTypeOK /\ Held /\ Ordered
  BY InvParts
<1>1. /\ turn[t] = "finalizing" /\ turn' = [turn EXCEPT ![t] = "charged"]
      /\ exhausted' \in {exhausted, TRUE}
      /\ UNCHANGED <<live, adm, awaited, change, retire, authority, commands, shown>>
  BY DEF record_run_usage
<1>2. exhausted' \in BOOLEAN
  BY <1>0, <1>1, TypeFacts
<1>3. AdmissionTypeOK'
  BY <1>0, <1>1, <1>2 DEF AdmissionTypeOK
<1>4. live.admission = t /\ \A k \in Turn : turn'[k] \in Holding <=> live'.admission = k
  BY <1>0, <1>1, TypeFacts DEF Held, OneRunPerChat
<1>6. Held'
  BY <1>0, <1>1, <1>2, <1>4, HeldStays
<1>7. Ordered'
  BY <1>0, <1>1, TypeFacts, SameAdmissions
<1>. QED
  BY <1>3, <1>6, <1>7, InvPartsNext

\* Charges of descendants and new limits touch nothing else.
LEMMA BudgetInv ==
    ASSUME AdmissionInv, child_usage \/ set_budget
    PROVE  AdmissionInv'
<1>0. AdmissionTypeOK /\ Held /\ Ordered
  BY InvParts
<1>1. /\ exhausted' \in BOOLEAN
      /\ UNCHANGED <<live, turn, adm, awaited, change, retire, authority, commands, shown>>
  BY DEF child_usage, set_budget
<1>2. AdmissionTypeOK'
  BY <1>0, <1>1 DEF AdmissionTypeOK
<1>3. Held'
  BY <1>0, <1>1 DEF Held, OneRunPerChat, RunExcludesMaintenance, AuthorityFixedDuringRun
<1>4. Ordered'
  BY <1>0, <1>1, SameAdmissions
<1>. QED
  BY <1>2, <1>3, <1>4, InvPartsNext

\* A turn that leaves its run clears its own admission and no other.
LEMMA FinishInv ==
    ASSUME AdmissionInv, NEW t \in Turn,
           finish_run(t) \/ launch_clear(t) \/ cancel_fallback(t)
    PROVE  AdmissionInv'
<1>0. AdmissionTypeOK /\ Held /\ Ordered
  BY InvParts
<1>1. /\ Finish(t) /\ turn[t] \in {"charged", "released", "unlaunched"}
      /\ UNCHANGED <<adm, awaited, change, retire, authority, exhausted, commands, shown>>
  BY DEF finish_run, launch_clear, cancel_fallback
<1>2. PICK to \in {"released", "ended"} : turn' = [turn EXCEPT ![t] = to]
  BY DEF finish_run, launch_clear, cancel_fallback
<1>3. /\ live' \in Live /\ live'.settings = live.settings
      /\ live'.retirement = live.retirement
      /\ live'.admission = IF live.admission = t THEN None ELSE live.admission
  BY <1>0, <1>1, TypeFacts DEF Finish, Live
<1>4. AdmissionTypeOK'
  BY <1>0, <1>1, <1>2, <1>3 DEF AdmissionTypeOK, Live
<1>5. \A k \in Turn : turn'[k] \in Holding <=> live'.admission = k
  BY <1>0, <1>2, <1>3, TypeFacts, AdmissionAssumption DEF Held, OneRunPerChat
<1>6. Held'
  BY <1>0, <1>1, <1>2, <1>3, <1>5, TypeFacts, HeldStays DEF Held
<1>7. Ordered'
  BY <1>0, <1>1, <1>2, TypeFacts, SameAdmissions
<1>. QED
  BY <1>4, <1>6, <1>7, InvPartsNext

-----------------------------------------------------------------------------
(* Commands. *)

LEMMA QueueInv ==
    ASSUME AdmissionInv, commands' \subseteq Command,
           UNCHANGED <<live, turn, adm, awaited, change, retire, authority, exhausted, shown>>
    PROVE  AdmissionInv'
<1>0. AdmissionTypeOK /\ Held /\ Ordered
  BY InvParts
<1>1. AdmissionTypeOK'
  BY <1>0 DEF AdmissionTypeOK, Command
<1>2. Held'
  BY <1>0 DEF Held, OneRunPerChat, RunExcludesMaintenance, AuthorityFixedDuringRun
<1>3. Ordered'
  BY <1>0, SameAdmissions
<1>. QED
  BY <1>1, <1>2, <1>3, InvPartsNext

\* The run a command reaches is the one it names, and it holds the chat.
LEMMA AddressedRun ==
    ASSUME AdmissionInv, NEW m \in commands, Addressed(m)
    PROVE  live.admission = m.target /\ m.target \in Turn /\ turn[m.target] \in Holding
BY InvParts, TypeFacts DEF Addressed, Command, Held, OneRunPerChat

\* What a pause or resume does to the admission it reaches.
LEMMA PauseChange ==
    ASSUME NEW a \in Admission, NEW p \in BOOLEAN
    PROVE  LET b == [a EXCEPT !.pause_requested = p, !.paused = @ /\ p, !.pause_revision = @ + 1]
           IN  b \in Admission /\ b.authority = a.authority /\ b.pause_revision > a.pause_revision
<1>. DEFINE q == a.paused /\ p
            n == a.pause_revision + 1
            b == [a EXCEPT !.pause_requested = p, !.paused = q, !.pause_revision = n]
<1>1. q \in BOOLEAN /\ n \in Nat /\ n > a.pause_revision
  BY DEF Admission
<1>. HIDE DEF q, n
<1>2. b \in Admission /\ b.authority = a.authority /\ b.pause_revision = n
  BY <1>1 DEF Admission
<1>. HIDE DEF b
<1>3. b \in Admission /\ b.authority = a.authority /\ b.pause_revision > a.pause_revision
  BY <1>1, <1>2
<1>. QED
  BY <1>3 DEF b, q, n

LEMMA PauseInv ==
    ASSUME AdmissionInv, NEW m \in commands, PauseCommand(m)
    PROVE  AdmissionInv'
<1>. DEFINE t == m.target
            paused == m.kind = "pause"
            a == [adm[t] EXCEPT !.pause_requested = paused, !.paused = @ /\ paused,
                                !.pause_revision = @ + 1]
            changed == adm[t].pause_requested # paused
            b == IF changed THEN a ELSE adm[t]
<1>0. AdmissionTypeOK /\ Held /\ Ordered
  BY InvParts
<1>1. Addressed(m) /\ commands' = commands \ {m}
      /\ UNCHANGED <<live, awaited, change, retire, authority, exhausted>>
  BY DEF PauseCommand, set_run_paused
<1>2. live.admission = t /\ t \in Turn /\ turn[t] \in Holding /\ adm[t] \in Admission
  BY <1>0, <1>1, AddressedRun, TypeFacts
<1>3. a \in Admission /\ a.authority = adm[t].authority
      /\ a.pause_revision > adm[t].pause_revision
  BY <1>2, PauseChange
<1>4. /\ adm' = IF changed THEN [adm EXCEPT ![t] = a] ELSE adm
      /\ shown' = shown \cup {Snapshot(t, adm'[t])}
      /\ turn' = IF changed /\ turn[t] = "paused" THEN [turn EXCEPT ![t] = "notifying"] ELSE turn
  BY <1>2 DEF PauseCommand, set_run_paused
<1>. HIDE DEF a, changed, t
<1>5. /\ adm' = [adm EXCEPT ![t] = b] /\ adm'[t] = b
      /\ b \in Admission /\ b.authority = adm[t].authority
      /\ \/ b.pause_revision > adm[t].pause_revision
         \/ b = adm[t]
  BY <1>0, <1>2, <1>3, <1>4, TypeFacts
<1>. HIDE DEF b
<1>6. /\ turn' \in [Turn -> TurnState] /\ \A k \in Turn : k # t => turn'[k] = turn[k]
      /\ turn'[t] \in Holding /\ (turn'[t] = "charged" <=> turn[t] = "charged")
      /\ turn'[t] # "waiting"
  BY <1>0, <1>2, <1>4, TypeFacts
<1>7. Ordered'
  <2>1. shown' = shown \cup {Snapshot(t, b)}
    BY <1>4, <1>5
  <2>2. \/ b.pause_revision > adm[t].pause_revision
        \/ /\ b.pause_revision = adm[t].pause_revision
           /\ _pause_state(b) = _pause_state(adm[t])
    BY <1>5
  <2>. QED
    BY <1>0, <1>2, <1>5, <1>6, <2>1, <2>2, NewSnapshot
<1>8. AdmissionTypeOK'
  <2>1. shown' \subseteq Shown
    BY <1>0, <1>2, <1>4, <1>5, TypeFacts, SnapshotShown
  <2>2. adm' \in [Turn -> Admission]
    BY <1>0, <1>5, TypeFacts
  <2>3. \A k \in Turn : turn'[k] = "waiting" <=> awaited'[k] # None
    BY <1>0, <1>1, <1>2, <1>6, TypeFacts
  <2>. QED
    BY <1>0, <1>1, <1>6, <2>1, <2>2, <2>3 DEF AdmissionTypeOK, Shown
<1>9. Held'
  <2>1. \A k \in Turn : adm'[k].authority = adm[k].authority
    BY <1>0, <1>5, TypeFacts
  <2>2. \A k \in Turn : turn'[k] \in Holding <=> live'.admission = k
    BY <1>0, <1>1, <1>2, <1>6 DEF Held, OneRunPerChat
  <2>. QED
    BY <1>0, <1>1, <2>1, <2>2, HeldStays DEF Held
<1>. QED
  BY <1>7, <1>8, <1>9, InvPartsNext

LEMMA CancelInv ==
    ASSUME AdmissionInv, NEW m \in commands, cancel(m)
    PROVE  AdmissionInv'
<1>. DEFINE t == m.target
            b == [adm[t] EXCEPT !.accepting = FALSE]
            to == Cancelled(turn[t])
<1>0. AdmissionTypeOK /\ Held /\ Ordered
  BY InvParts
<1>1. Addressed(m) /\ commands' = commands \ {m}
      /\ UNCHANGED <<awaited, change, retire, authority, exhausted, shown>>
  BY DEF cancel
<1>2. live.admission = t /\ t \in Turn /\ turn[t] \in Holding /\ adm[t] \in Admission
  BY <1>0, <1>1, AddressedRun, TypeFacts
<1>3. /\ turn' = [turn EXCEPT ![t] = to] /\ adm' = [adm EXCEPT ![t] = b]
      /\ IF turn[t] \in {"finalizing", "charged"} THEN Finish(t) ELSE UNCHANGED live
  BY <1>2 DEF cancel
<1>4. /\ b \in Admission /\ b.authority = adm[t].authority
      /\ b.pause_revision = adm[t].pause_revision /\ _pause_state(b) = _pause_state(adm[t])
  BY <1>2, ClosedAdmission
<1>5. /\ turn[t] \in {"finalizing", "charged"} => to = "released"
      /\ turn[t] \notin {"finalizing", "charged"} => to \in {"unlaunched", "finalizing"}
  BY <1>2 DEF Cancelled
<1>. HIDE DEF t, b, to
<1>6. /\ live' \in Live /\ live'.settings = live.settings
      /\ live'.retirement = live.retirement
      /\ live'.admission = IF to = "released" THEN None ELSE t
  <2>1. CASE turn[t] \in {"finalizing", "charged"}
    BY <1>0, <1>2, <1>3, <1>5, <2>1, TypeFacts DEF Finish, Live
  <2>2. CASE turn[t] \notin {"finalizing", "charged"}
    BY <1>0, <1>2, <1>3, <1>5, <2>2, TypeFacts DEF Live
  <2>. QED
    BY <2>1, <2>2
<1>7. Ordered'
  BY <1>0, <1>1, <1>2, <1>3, <1>4, <1>5, TypeFacts, QuietSnapshots
<1>8. AdmissionTypeOK'
  <2>1. adm' \in [Turn -> Admission] /\ turn' \in [Turn -> TurnState]
    BY <1>0, <1>3, <1>4, <1>5, TypeFacts
  <2>2. \A k \in Turn : turn'[k] = "waiting" <=> awaited'[k] # None
    BY <1>0, <1>1, <1>2, <1>3, <1>5, TypeFacts
  <2>. QED
    BY <1>0, <1>1, <1>6, <2>1, <2>2 DEF AdmissionTypeOK, Live
<1>9. Held'
  <2>1. \A k \in Turn : adm'[k].authority = adm[k].authority
    BY <1>0, <1>3, <1>4, TypeFacts
  <2>2. \A k \in Turn : turn'[k] \in Holding <=> live'.admission = k
    BY <1>0, <1>2, <1>3, <1>5, <1>6, TypeFacts, AdmissionAssumption DEF Held, OneRunPerChat
  <2>. QED
    BY <1>0, <1>1, <1>2, <1>6, <2>1, <2>2, HeldStays DEF Held
<1>. QED
  BY <1>7, <1>8, <1>9, InvPartsNext

LEMMA CommandsInv ==
    ASSUME AdmissionInv, Commands
    PROVE  AdmissionInv'
<1>1. ASSUME NEW k \in Kinds, NEW t \in Turn, SendCommand(k, t) PROVE AdmissionInv'
  <2>1. commands' \subseteq Command
    BY <1>1, InvParts, TypeFacts DEF SendCommand, Command
  <2>. QED
    BY <1>1, <2>1, QueueInv DEF SendCommand
<1>2. ASSUME NEW m \in commands, CommandRefused(m) PROVE AdmissionInv'
  <2>1. commands' \subseteq Command
    BY <1>2, InvParts, TypeFacts DEF CommandRefused
  <2>. QED
    BY <1>2, <2>1, QueueInv DEF CommandRefused
<1>. QED
  BY <1>1, <1>2, PauseInv, CancelInv DEF Commands

LEMMA TurnsInv ==
    ASSUME AdmissionInv, NEW t \in Turn,
           \/ Reservation(t) \/ reserve_run_cancelled(t)
           \/ begin_run(t) \/ Boundary(t) \/ begin_run_finalization(t) \/ Release(t)
    PROVE  AdmissionInv'
BY AdmitInv, NotAdmittedInv, RunInv, PausedInv, FinalizeInv, ChargeInv, FinishInv
   DEF Reservation, Boundary, Release

LEMMA NextInv ==
    ASSUME AdmissionInv, [Next]_vars
    PROVE  AdmissionInv'
<1>1. CASE UNCHANGED vars
  <2>1. commands' \subseteq Command
    BY <1>1, InvParts, TypeFacts DEF vars
  <2>. QED
    BY <1>1, <2>1, QueueInv DEF vars
<1>2. CASE Next
  BY <1>2, TurnsInv, MaintenanceInv, AuthorityInv, BudgetInv, CommandsInv DEF Next
<1>. QED
  BY <1>1, <1>2

-----------------------------------------------------------------------------
\* Whatever the order of reservations, settings changes, retirements, commands and
\* teardown: one run holds the chat, apart from maintenance, under the authority
\* that admitted it, and its pause snapshots can be ordered
\* (try_reserve_run, finish_run, set_run_paused).
THEOREM AdmissionInvariant == Spec => []AdmissionInv
<1>1. AdmissionInv /\ [Next]_vars => AdmissionInv'
  BY NextInv
<1>. QED
  BY InitInv, <1>1, PTL DEF Spec

\* A pause or resume changes the run it was composed for and no other
\* (set_run_paused).
LEMMA CommandsHitTheirRun ==
    ASSUME AdmissionInv, [Next]_vars, NEW t \in Turn,
           adm'[t].pause_requested # adm[t].pause_requested
    PROVE  \/ turn[t] \notin Holding
           \/ \E m \in commands : m.target = t /\ m.kind # "stop" /\ m \notin commands'
<1>0. AdmissionTypeOK /\ adm[t] \in Admission /\ adm \in [Turn -> Admission]
  BY InvParts, TypeFacts
<1>1. CASE \E k \in Turn : wait_if_paused(k)
  <2>1. PICK k \in Turn : adm' = [adm EXCEPT ![k] =
                              [adm[k] EXCEPT !.paused = TRUE, !.pause_revision = @ + 1]]
    BY <1>1 DEF wait_if_paused
  <2>2. adm[k] \in Admission
    BY <1>0
  <2>3. [adm[k] EXCEPT !.paused = TRUE, !.pause_revision = @ + 1].pause_requested
          = adm[k].pause_requested
    BY <2>2 DEF Admission
  <2>. QED
    BY <1>0, <2>1, <2>3
<1>2. CASE \E k \in Turn : begin_run_finalization(k)
  BY <1>0, <1>2, ClosedAdmission DEF begin_run_finalization
<1>3. CASE \E m \in commands : cancel(m)
  <2>1. PICK m \in commands : cancel(m)
    BY <1>3
  <2>. QED
    BY <1>0, <2>1, AddressedRun, ClosedAdmission DEF cancel
<1>4. CASE \E k \in Turn : try_reserve_run(k)
  BY <1>0, <1>4 DEF try_reserve_run, AtReservation
<1>5. CASE \E m \in commands : PauseCommand(m)
  <2>1. PICK m \in commands : PauseCommand(m)
    BY <1>5
  <2>2. Addressed(m) /\ m.kind # "stop" /\ commands' = commands \ {m}
    BY <2>1 DEF PauseCommand, set_run_paused
  <2>3. live.admission = m.target /\ m.target \in Turn
    BY <2>2, AddressedRun
  <2>4. \A k \in Turn : k # m.target => adm'[k] = adm[k]
    BY <1>0, <2>1, <2>3 DEF PauseCommand, set_run_paused
  <2>. QED
    BY <2>2, <2>4
<1>6. CASE UNCHANGED adm
  BY <1>6
<1>. QED
  BY <1>1, <1>2, <1>3, <1>4, <1>5, <1>6
     DEF Next, vars, Reservation, reserve_run_refused, reserve_run_waits,
         reserve_run_cancelled, begin_run, Boundary, wait_if_paused_holds,
         wait_if_paused_returns, Release, record_run_usage, finish_run, launch_clear,
         cancel_fallback, change_settings, change_settings_ends, claim_kernel_retirement,
         claim_kernel_retirement_ends, set_mutation_write_enabled, child_usage, set_budget,
         Commands, SendCommand, CommandRefused

\* A command composed for a finished run never pauses its successor (set_run_paused).
THEOREM StaleCommands == Spec => StaleCommandsIgnored
<1>1. AdmissionInv /\ [Next]_vars
        => [\A t \in Turn : adm'[t].pause_requested # adm[t].pause_requested =>
             \/ turn[t] \notin Holding
             \/ \E m \in commands : m.target = t /\ m.kind # "stop" /\ m \notin commands']_vars
  BY CommandsHitTheirRun
<1>. QED
  BY <1>1, AdmissionInvariant, PTL DEF Spec, StaleCommandsIgnored
=============================================================================
