----------------------------- MODULE MCWorkJobs -----------------------------
(* Instance of WorkJobs: one retrying job with two attempts and one job    *)
(* that allows a single attempt and fails when its lease expires.          *)
EXTENDS WorkJobs, TLC

CONSTANTS j1, j2, w1, w2

MCJob == {j1, j2}
MCWorker == {w1, w2}
MCMaxAttempts == (j1 :> 2) @@ (j2 :> 1)
MCOnLeaseExpiry == (j1 :> "retry") @@ (j2 :> "fail")
MCPriority == (j1 :> 0) @@ (j2 :> 1)
=============================================================================
