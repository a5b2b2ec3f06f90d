--------------------------- MODULE MCWorkScheduler ---------------------------
(* Instances of WorkScheduler: one job whose handler is a coroutine, in    *)
(* depth, and two jobs of a kind whose handlers run in threads.            *)
EXTENDS WorkScheduler, TLC

CONSTANTS j1, j2, w1, w2

BothJobs == {j1, j2}
CoroutineJob == {j1}
TwoProcesses == {w1, w2}
OneProcess == {w1}

MCKind == {"coroutine", "thread"}
MCSyncKind == {"thread"}
OwnKinds == [j \in Job |-> IF j = j1 THEN "coroutine" ELSE "thread"]
SameKind == [j \in Job |-> "thread"]
OnePerKind == [k \in MCKind |-> 1]
TwoPerKind == [k \in MCKind |-> 2]

TwoAttempts == [j \in Job |-> 2]
AlwaysRetry == [j \in Job |-> "retry"]
EqualPriority == [j \in Job |-> 0]
=============================================================================
