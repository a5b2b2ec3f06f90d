----------------------------- MODULE JobContract -----------------------------
(***************************************************************************)
(* What the Work Fabric promises about a job, without leases, clocks,      *)
(* workers, revisions or events: the life a submitter may observe.         *)
(*                                                                         *)
(* A job is executed under grants.  Grants are numbered, each costs one of *)
(* the job's attempts unless it continues an interrupted one, and a job    *)
(* never spends more attempts than its limit.  Asking for a cancellation   *)
(* settles a job that does not execute at once; an executing job is told   *)
(* to stop, and from then on it can no longer succeed.  A settled job      *)
(* stays settled unless somebody reopens a failure or an unknown outcome.  *)
(*                                                                         *)
(* WorkJobs implements this specification.                                 *)
(***************************************************************************)
EXTENDS Naturals

CONSTANTS
  Job,
  Limit       \* [Job -> Nat]: attempts a job may spend

VARIABLE life

Outcome == {"succeeded", "failed", "cancelled", "unknown_effect"}

Life == [phase: {"absent", "pending", "parked", "granted", "executing", "settled"},
         outcome: Outcome \cup {"none"}, grants: Nat, spent: Nat,
         free: BOOLEAN,        \* the next grant continues an attempt already paid for
         stopping: BOOLEAN]

Unborn == [phase |-> "absent", outcome |-> "none", grants |-> 0, spent |-> 0,
           free |-> FALSE, stopping |-> FALSE]

Init == life = [j \in Job |-> Unborn]

-----------------------------------------------------------------------------
(* One step in the life of job j, from a to b.                             *)

Submit(a, b) ==
  /\ a.phase = "absent"
  /\ b = [a EXCEPT !.phase = "pending"]

Grant(j, a, b) ==
  /\ a.phase = "pending" /\ ~a.stopping
  /\ b = [a EXCEPT !.phase = "granted", !.grants = @ + 1,
                   !.spent = @ + (IF a.free THEN 0 ELSE 1)]
  /\ b.spent <= Limit[j]

Begin(a, b) ==
  /\ a.phase = "granted"
  /\ b = [a EXCEPT !.phase = "executing", !.free = FALSE]

(* The execution is over for now; the job goes back to wait for a grant it *)
(* can still pay for.                                                      *)
Requeue(j, a, b) ==
  /\ a.phase \in {"granted", "executing"} /\ ~a.stopping
  /\ \E f \in BOOLEAN : b = [a EXCEPT !.phase = "pending", !.free = f]
  /\ b.free \/ b.spent < Limit[j]

(* The execution waits for something: it will continue at no cost.         *)
Suspend(a, b) ==
  /\ a.phase = "executing"
  /\ b = [a EXCEPT !.phase = "parked", !.free = TRUE]

Pause(a, b) ==
  /\ a.phase \in {"pending", "parked"}
  /\ b = [a EXCEPT !.phase = "parked"]

Wake(a, b) ==
  /\ a.phase = "parked"
  /\ b = [a EXCEPT !.phase = "pending", !.stopping = FALSE]

Cancel(a, b) ==
  /\ ~a.stopping
  /\ \/ /\ a.phase \in {"pending", "parked", "granted"}
        /\ b = [a EXCEPT !.phase = "settled", !.outcome = "cancelled", !.stopping = TRUE]
     \/ /\ a.phase = "executing"
        /\ b = [a EXCEPT !.stopping = TRUE]

Settle(a, b) ==
  /\ a.phase \in {"granted", "executing"}
  /\ \E o \in Outcome, f \in BOOLEAN :
       /\ a.stopping => o # "succeeded"
       /\ b = [a EXCEPT !.phase = "settled", !.outcome = o, !.free = f]

Reopen(j, a, b) ==
  /\ a.phase = "settled" /\ a.outcome \in {"failed", "unknown_effect"}
  /\ \E n \in {0, a.spent} :
       /\ n < Limit[j]
       /\ b = [a EXCEPT !.phase = "pending", !.outcome = "none", !.spent = n,
                        !.free = FALSE, !.stopping = FALSE]

JobStep(j, a, b) ==
  \/ Submit(a, b) \/ Grant(j, a, b) \/ Begin(a, b) \/ Requeue(j, a, b)
  \/ Suspend(a, b) \/ Pause(a, b) \/ Wake(a, b) \/ Cancel(a, b)
  \/ Settle(a, b) \/ Reopen(j, a, b)

(* Recovery after a crash may move several jobs at once.                   *)
Next ==
  /\ life' \in [Job -> Life]
  /\ \A j \in Job : life'[j] = life[j] \/ JobStep(j, life[j], life'[j])

Spec == Init /\ [][Next]_life
=============================================================================
