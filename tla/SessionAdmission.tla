-------------------------- MODULE SessionAdmission --------------------------
(***************************************************************************)
(* The live half of SessionRuntimeRegistry for one chat: the admission of  *)
(* runs, the fence of a settings change, the retirement of the chat's      *)
(* kernel, the mutation authority, pausing, stopping and the budget.       *)
(*                                                                         *)
(* The registry runs on one asyncio loop, so the code between two awaits   *)
(* is one step.  An admission id is the turn that holds it.  The durable   *)
(* input queue of the chat is the subject of SessionTickets.               *)
(***************************************************************************)
EXTENDS Naturals, FiniteSets

CONSTANTS
    Turn,           \* would-be runs of the chat: each reserves at most once
    Change,         \* settings changes
    Retire,         \* automatic kernel retirements
    Kinds,          \* the commands the attached windows send
    MaxInFlight,    \* bound on the commands in flight
    MaxRevision,    \* bound on the pause commands a run receives
    MaxAuthority,   \* bound on the mutation authority revision
    None

ASSUME AdmissionAssumption ==
    /\ None \notin Turn \cup Change \cup Retire
    /\ Kinds \subseteq {"pause", "resume", "stop"}
    /\ MaxInFlight \in Nat
    /\ MaxRevision \in Nat
    /\ MaxAuthority \in Nat

VARIABLES
    live,       \* _LiveRuntime: who holds the chat, the settings, the kernel
    turn,       \* where the task of each turn is
    adm,        \* the _RunAdmission of each turn
    awaited,    \* the retirement a waiting reserve_run awaits
    change,     \* progress of each settings change
    retire,     \* progress of each retirement
    authority,  \* mutation authority: write enabled and its revision
    exhausted,  \* budget_used of the durable record has reached a limit
    commands,   \* pause, resume and stop messages in flight
    shown       \* pause snapshots that were sent to clients

vars == <<live, turn, adm, awaited, change, retire, authority, exhausted, commands, shown>>

TurnState == {"idle", "waiting", "refused", "launched", "unlaunched", "running",
              "notifying", "paused", "finalizing", "charged", "released", "ended"}

Admission == [accepting: BOOLEAN, pause_requested: BOOLEAN, paused: BOOLEAN,
              pause_revision: Nat, authority: Nat]

Reserved(t) == [accepting |-> TRUE, pause_requested |-> FALSE, paused |-> FALSE,
                pause_revision |-> 0, authority |-> authority.revision]

_pause_state(a) == IF a.paused THEN "paused"
                   ELSE IF a.pause_requested THEN "pausing" ELSE "running"

\* The snapshot a client receives: which run, which revision, which state.
Snapshot(t, a) == [run |-> t, revision |-> a.pause_revision, state |-> _pause_state(a)]

AdmissionTypeOK ==
    /\ live \in [admission: Turn \cup {None}, settings: Change \cup {None},
                 retirement: Retire \cup {None}]
    /\ turn \in [Turn -> TurnState]
    /\ adm \in [Turn -> Admission]
    /\ awaited \in [Turn -> Retire \cup {None}]
    /\ \A t \in Turn : turn[t] = "waiting" <=> awaited[t] # None
    /\ change \in [Change -> {"idle", "holding", "done"}]
    /\ retire \in [Retire -> {"idle", "holding", "done"}]
    /\ authority \in [enabled: BOOLEAN, revision: 0..MaxAuthority]
    /\ exhausted \in BOOLEAN
    /\ commands \subseteq [kind: Kinds, target: Turn]
    /\ shown \subseteq [run: Turn, revision: Nat, state: {"running", "pausing", "paused"}]

Init ==
    /\ live = [admission |-> None, settings |-> None, retirement |-> None]
    /\ turn = [t \in Turn |-> "idle"]
    /\ authority = [enabled |-> FALSE, revision |-> 0]
    /\ adm = [t \in Turn |-> Reserved(t)]
    /\ awaited = [t \in Turn |-> None]
    /\ change = [c \in Change |-> "idle"]
    /\ retire = [r \in Retire |-> "idle"]
    /\ exhausted = FALSE
    /\ commands = {}
    /\ shown = {}

-----------------------------------------------------------------------------
(* Reservation                                                             *)

_budget_allows == ~exhausted

Free == live.admission = None /\ live.settings = None /\ live.retirement = None

\* The caller of reserve_run: an idle turn, or one whose awaited retirement is over.
AtReservation(t) ==
    \/ turn[t] = "idle"
    \/ turn[t] = "waiting" /\ retire[awaited[t]] = "done"

\* The chat is free and within its budget: the turn is admitted and its task launched.
try_reserve_run(t) ==
    /\ AtReservation(t)
    /\ _budget_allows
    /\ Free
    /\ live' = [live EXCEPT !.admission = t]
    /\ adm' = [adm EXCEPT ![t] = Reserved(t)]
    /\ turn' = [turn EXCEPT ![t] = "launched"]
    /\ awaited' = [awaited EXCEPT ![t] = None]
    /\ UNCHANGED <<change, retire, authority, exhausted, commands, shown>>

\* BudgetExhausted is raised, or the chat is busy or being configured: no admission.
reserve_run_refused(t) ==
    /\ AtReservation(t)
    /\ ~_budget_allows \/ live.admission # None \/ live.settings # None
    /\ turn' = [turn EXCEPT ![t] = "refused"]
    /\ awaited' = [awaited EXCEPT ![t] = None]
    /\ UNCHANGED <<live, adm, change, retire, authority, exhausted, commands, shown>>

\* Only a retirement is in the way: await its (shielded) completion and retry.
reserve_run_waits(t) ==
    /\ AtReservation(t)
    /\ _budget_allows
    /\ live.admission = None /\ live.settings = None
    /\ live.retirement # None
    /\ turn' = [turn EXCEPT ![t] = "waiting"]
    /\ awaited' = [awaited EXCEPT ![t] = live.retirement]
    /\ UNCHANGED <<live, adm, change, retire, authority, exhausted, commands, shown>>

\* The waiting caller is cancelled; the shield keeps the shared signal intact.
reserve_run_cancelled(t) ==
    /\ turn[t] = "waiting"
    /\ turn' = [turn EXCEPT ![t] = "refused"]
    /\ awaited' = [awaited EXCEPT ![t] = None]
    /\ UNCHANGED <<live, adm, change, retire, authority, exhausted, commands, shown>>

-----------------------------------------------------------------------------
(* Settings changes, kernel retirement, mutation authority                 *)

change_settings(c) ==
    /\ change[c] = "idle"
    /\ live.admission = None /\ live.settings = None
    /\ live' = [live EXCEPT !.settings = c]
    /\ change' = [change EXCEPT ![c] = "holding"]
    /\ UNCHANGED <<turn, adm, awaited, retire, authority, exhausted, commands, shown>>

\* The finally block: the token is cleared by its holder only.
change_settings_ends(c) ==
    /\ change[c] = "holding"
    /\ live' = IF live.settings = c THEN [live EXCEPT !.settings = None] ELSE live
    /\ change' = [change EXCEPT ![c] = "done"]
    /\ UNCHANGED <<turn, adm, awaited, retire, authority, exhausted, commands, shown>>

\* The claim is allowed only on a chat without run, settings change or other claim.
claim_kernel_retirement(r) ==
    /\ retire[r] = "idle"
    /\ Free
    /\ live' = [live EXCEPT !.retirement = r]
    /\ retire' = [retire EXCEPT ![r] = "holding"]
    /\ UNCHANGED <<turn, adm, awaited, change, authority, exhausted, commands, shown>>

claim_kernel_retirement_ends(r) ==
    /\ retire[r] = "holding"
    /\ live' = IF live.retirement = r THEN [live EXCEPT !.retirement = None] ELSE live
    /\ retire' = [retire EXCEPT ![r] = "done"]
    /\ UNCHANGED <<turn, adm, awaited, change, authority, exhausted, commands, shown>>

\* Compare-and-set on the revision the click was composed from; an unchanged
\* value is accepted without a new revision and leaves no trace here.
set_mutation_write_enabled(enabled, expected_revision) ==
    /\ live.settings = None
    /\ live.admission = None
    /\ authority.revision = expected_revision
    /\ authority.enabled # enabled
    /\ authority.revision < MaxAuthority
    /\ authority' = [enabled |-> enabled, revision |-> authority.revision + 1]
    /\ UNCHANGED <<live, turn, adm, awaited, change, retire, exhausted, commands, shown>>

-----------------------------------------------------------------------------
(* The run and its pause boundary                                          *)

\* The coroutine body starts under its admission.
begin_run(t) ==
    /\ turn[t] = "launched"
    /\ turn' = [turn EXCEPT ![t] = "running"]
    /\ UNCHANGED <<live, adm, awaited, change, retire, authority, exhausted, commands, shown>>

\* A graph boundary finds a pause request not yet acknowledged: it marks the run
\* paused and awaits the delivery of the notice.
wait_if_paused(t) ==
    /\ turn[t] \in {"running", "notifying"}
    /\ live.admission = t
    /\ adm[t].pause_requested /\ ~adm[t].paused
    /\ LET a == [adm[t] EXCEPT !.paused = TRUE, !.pause_revision = @ + 1]
       IN  /\ adm' = [adm EXCEPT ![t] = a]
           /\ shown' = shown \cup {Snapshot(t, a)}
    /\ turn' = [turn EXCEPT ![t] = "notifying"]
    /\ UNCHANGED <<live, awaited, change, retire, authority, exhausted, commands>>

\* The notice is out and the pause still stands: wait for the resume event.
wait_if_paused_holds(t) ==
    /\ turn[t] = "notifying"
    /\ live.admission = t
    /\ adm[t].pause_requested /\ adm[t].paused
    /\ turn' = [turn EXCEPT ![t] = "paused"]
    /\ UNCHANGED <<live, adm, awaited, change, retire, authority, exhausted, commands, shown>>

\* No pause is requested any more: the run goes on.
wait_if_paused_returns(t) ==
    /\ turn[t] = "notifying"
    /\ live.admission = t
    /\ ~adm[t].pause_requested
    /\ turn' = [turn EXCEPT ![t] = "running"]
    /\ UNCHANGED <<live, adm, awaited, change, retire, authority, exhausted, commands, shown>>

\* The graph ended: the finalizer closes the admission to inputs and commands.
begin_run_finalization(t) ==
    /\ turn[t] = "running"
    /\ adm' = [adm EXCEPT ![t].accepting = FALSE]
    /\ turn' = [turn EXCEPT ![t] = "finalizing"]
    /\ UNCHANGED <<live, awaited, change, retire, authority, exhausted, commands, shown>>

\* The budget charge of the finalizer, of any amount, which may be what uses up
\* the budget; a failing ledger is logged and skipped.
record_run_usage(t) ==
    /\ turn[t] = "finalizing"
    /\ exhausted' \in {exhausted, TRUE}
    /\ turn' = [turn EXCEPT ![t] = "charged"]
    /\ UNCHANGED <<live, adm, awaited, change, retire, authority, commands, shown>>

\* The usage of a descendant is charged to its ancestors when it ends, also while
\* a run of the chat is admitted.
child_usage ==
    /\ ~exhausted /\ exhausted' = TRUE
    /\ UNCHANGED <<live, turn, adm, awaited, change, retire, authority, commands, shown>>

\* New limits start with nothing used.
set_budget ==
    /\ exhausted /\ exhausted' = FALSE
    /\ UNCHANGED <<live, turn, adm, awaited, change, retire, authority, commands, shown>>

\* Mutant: any caller clears the chat's admission.
Finish_any(t) == live' = [live EXCEPT !.admission = None]

\* What finish_run does, whoever calls it (its resume_event has no waiter here:
\* every caller comes after the task left the pause boundary).
Finish(t) ==
    live' = IF live.admission = t THEN [live EXCEPT !.admission = None] ELSE live

\* The terminal boundary of the task releases the admission.
finish_run(t) ==
    /\ turn[t] = "charged"
    /\ Finish(t)
    /\ turn' = [turn EXCEPT ![t] = "released"]
    /\ UNCHANGED <<adm, awaited, change, retire, authority, exhausted, commands, shown>>

\* The done callback of the launched task finishes the admission once more.
launch_clear(t) ==
    /\ turn[t] = "released"
    /\ Finish(t)
    /\ turn' = [turn EXCEPT ![t] = "ended"]
    /\ UNCHANGED <<adm, awaited, change, retire, authority, exhausted, commands, shown>>

-----------------------------------------------------------------------------
(* Commands from attached windows                                          *)

\* A window that displays run t sends a command naming it; delivery is later.
SendCommand(kind, t) ==
    /\ live.admission = t
    /\ adm[t].pause_revision < MaxRevision
    /\ Cardinality(commands) < MaxInFlight
    /\ [kind |-> kind, target |-> t] \notin commands
    /\ commands' = commands \cup {[kind |-> kind, target |-> t]}
    /\ UNCHANGED <<live, turn, adm, awaited, change, retire, authority, exhausted, shown>>

\* Mutant: the command is applied to whichever run is active.
Addressed_any(m) == live.admission # None

\* The fence on the admission the command was composed for.
Addressed(m) == live.admission # None /\ live.admission = m.target

\* Mutant: resuming forgets to set the event the paused run waits on.
set_run_paused_mute(m) ==
    LET t == live.admission
        paused == m.kind = "pause"
        b == [adm[t] EXCEPT !.pause_requested = paused, !.paused = @ /\ paused,
                            !.pause_revision = @ + 1]
        changed == adm[t].pause_requested # paused
    IN  /\ Addressed(m) /\ adm[t].accepting
        /\ adm' = IF changed THEN [adm EXCEPT ![t] = b] ELSE adm
        /\ shown' = shown \cup {Snapshot(t, adm'[t])}
        /\ turn' = turn

\* A pause or resume reaches the run it names, if that run still accepts input;
\* a repeated command changes nothing and answers with the current snapshot.  The
\* event a resume sets wakes the waiting boundary, which re-reads the admission.
set_run_paused(m) ==
    LET t == live.admission
        paused == m.kind = "pause"
        b == [adm[t] EXCEPT !.pause_requested = paused, !.paused = @ /\ paused,
                            !.pause_revision = @ + 1]
        changed == adm[t].pause_requested # paused
    IN  /\ Addressed(m) /\ adm[t].accepting
        /\ adm' = IF changed THEN [adm EXCEPT ![t] = b] ELSE adm
        /\ shown' = shown \cup {Snapshot(t, adm'[t])}
        /\ turn' = IF changed /\ turn[t] = "paused" THEN [turn EXCEPT ![t] = "notifying"]
                   ELSE turn

PauseCommand(m) ==
    /\ m \in commands /\ m.kind # "stop"
    /\ set_run_paused(m)
    /\ commands' = commands \ {m}
    /\ UNCHANGED <<live, awaited, change, retire, authority, exhausted>>

\* Mutant: a task held at the pause boundary does not notice its cancellation.
Cancelled_deaf(pc) ==
    CASE pc = "launched" -> "unlaunched"
      [] pc \in {"running", "notifying"} -> "finalizing"
      [] pc \in {"finalizing", "charged"} -> "released"
      [] OTHER -> pc

\* Where the cancelled task goes: a body that never started runs no finalizer,
\* a running one enters it, and one cancelled inside its finalizer releases the
\* admission on the way out.
Cancelled(pc) ==
    CASE pc = "launched" -> "unlaunched"
      [] pc \in {"running", "notifying", "paused"} -> "finalizing"
      [] pc \in {"finalizing", "charged"} -> "released"
      [] OTHER -> pc

\* Stop closes the admission and cancels its task.
cancel(m) ==
    LET t == live.admission IN
    /\ m \in commands /\ m.kind = "stop"
    /\ Addressed(m)
    /\ turn' = [turn EXCEPT ![t] = Cancelled(@)]
    /\ adm' = [adm EXCEPT ![t].accepting = FALSE]
    /\ IF turn[t] \in {"finalizing", "charged"} THEN Finish(t) ELSE UNCHANGED live
    /\ commands' = commands \ {m}
    /\ UNCHANGED <<awaited, change, retire, authority, exhausted, shown>>

\* The fallback of the Stop handler for a task that never entered its body.
cancel_fallback(t) ==
    /\ turn[t] = "unlaunched"
    /\ Finish(t)
    /\ turn' = [turn EXCEPT ![t] = "ended"]
    /\ UNCHANGED <<adm, awaited, change, retire, authority, exhausted, commands, shown>>

\* A command that finds its run gone or finalizing is refused.
CommandRefused(m) ==
    /\ m \in commands
    /\ Addressed(m) => m.kind # "stop" /\ ~adm[m.target].accepting
    /\ commands' = commands \ {m}
    /\ UNCHANGED <<live, turn, adm, awaited, change, retire, authority, exhausted, shown>>

-----------------------------------------------------------------------------
Commands ==
    \/ \E k \in Kinds, t \in Turn : SendCommand(k, t)
    \/ \E m \in commands : PauseCommand(m) \/ cancel(m) \/ CommandRefused(m)

Reservation(t) == try_reserve_run(t) \/ reserve_run_refused(t) \/ reserve_run_waits(t)

Boundary(t) ==
    wait_if_paused(t) \/ wait_if_paused_holds(t) \/ wait_if_paused_returns(t)

Release(t) ==
    \/ record_run_usage(t) \/ finish_run(t) \/ launch_clear(t) \/ cancel_fallback(t)

Next ==
    \/ \E t \in Turn :
         \/ Reservation(t) \/ reserve_run_cancelled(t)
         \/ begin_run(t) \/ Boundary(t) \/ begin_run_finalization(t) \/ Release(t)
    \/ \E c \in Change : change_settings(c) \/ change_settings_ends(c)
    \/ \E r \in Retire : claim_kernel_retirement(r) \/ claim_kernel_retirement_ends(r)
    \/ \E e \in BOOLEAN, v \in 0..MaxAuthority : set_mutation_write_enabled(e, v)
    \/ child_usage \/ set_budget
    \/ Commands

(* The loop runs every ready task: awaiting callers retry, boundaries and    *)
(* finalizers proceed, teardown and settings handlers end (their awaits are  *)
(* bounded by timeouts), a queued message is handled.  Nothing obliges a     *)
(* graph to end, a user to resume, or anyone to reserve.                     *)
Fairness ==
    /\ \A t \in Turn :
         /\ WF_vars(turn[t] = "waiting" /\ Reservation(t))
         /\ WF_vars(begin_run(t))
         /\ WF_vars(wait_if_paused_holds(t) \/ wait_if_paused_returns(t))
         /\ WF_vars(Release(t))
    /\ \A c \in Change : WF_vars(change_settings_ends(c))
    /\ \A r \in Retire : WF_vars(claim_kernel_retirement_ends(r))
    /\ \A k \in Kinds, t \in Turn :
         LET m == [kind |-> k, target |-> t]
         IN  WF_vars(PauseCommand(m) \/ cancel(m) \/ CommandRefused(m))

Spec == Init /\ [][Next]_vars
FairSpec == Spec /\ Fairness

-----------------------------------------------------------------------------
(* Properties                                                              *)

Holding == {"launched", "unlaunched", "running", "notifying", "paused",
            "finalizing", "charged"}

(* A turn that believes it is admitted, from reserve_run to finish_run, is   *)
(* the chat's one admission: a late or repeated finish_run of a predecessor  *)
(* never releases it and no second run is let in.                            *)
OneRunPerChat == \A t \in Turn : turn[t] \in Holding <=> live.admission = t

(* While a run is admitted no settings change is in progress and no kernel   *)
(* retirement is tearing its kernel down, although both await in the middle. *)
RunExcludesMaintenance ==
    live.admission # None => live.settings = None /\ live.retirement = None

(* A run keeps the mutation authority it was admitted with until it is       *)
(* released.                                                                 *)
AuthorityFixedDuringRun ==
    \A t \in Turn : live.admission = t => adm[t].authority = authority.revision

(* Two pause snapshots of a run with the same revision show the same state,  *)
(* so a client that keeps the highest revision ends up right whatever the    *)
(* order of delivery.                                                        *)
PauseRevisionOrdersSnapshots ==
    /\ \A a, b \in shown : a.run = b.run /\ a.revision = b.revision => a.state = b.state
    /\ \A a \in shown : a.revision = adm[a.run].pause_revision
                          => a.state = _pause_state(adm[a.run])

(* A snapshot is of a run that was admitted and not newer than its admission. *)
SnapshotsArePast ==
    \A a \in shown : /\ turn[a.run] \notin {"idle", "waiting"}
                     /\ a.revision <= adm[a.run].pause_revision

(* One admission per chat, kept apart from maintenance, under the authority  *)
(* it was granted; its pause snapshots can be ordered.                       *)
AdmissionInv ==
    /\ AdmissionTypeOK
    /\ OneRunPerChat
    /\ RunExcludesMaintenance
    /\ AuthorityFixedDuringRun
    /\ PauseRevisionOrdersSnapshots /\ SnapshotsArePast

(* A run is only ever held at the boundary by commands that named it: one    *)
(* composed for a finished run never pauses its successor.                   *)
StaleCommandsIgnored ==
    [][\A t \in Turn : adm'[t].pause_requested # adm[t].pause_requested =>
          \/ turn[t] \notin Holding
          \/ \E m \in commands : m.target = t /\ m.kind # "stop" /\ m \notin commands']_vars

(* A run that was stopped releases the chat, also when Stop arrives before   *)
(* the task started, at a pause, or during the finalizer.                    *)
StopReleasesChat ==
    \A t \in Turn : (live.admission = t /\ ~adm[t].accepting) ~> (live.admission # t)

(* No wake-up is lost: a resumed run leaves the boundary whatever the order  *)
(* of pause, notice and resume, and a caller of reserve_run that waits for a *)
(* retirement always gets an answer.                                         *)
WaitersWake ==
    \A t \in Turn :
        /\ (turn[t] \in {"notifying", "paused"} /\ ~adm[t].pause_requested)
             ~> (turn[t] \notin {"notifying", "paused"} \/ adm[t].pause_requested)
        /\ turn[t] = "waiting" ~> turn[t] # "waiting"
=============================================================================
