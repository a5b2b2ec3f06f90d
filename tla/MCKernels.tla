----------------------------- MODULE MCKernels -----------------------------
EXTENDS Kernels

CONSTANTS c1, c2, c3, o1

\* Two chats compete for one kernel; two warm chats meet a sweep of both; and three chats,
\* two of them warm, have one boot slot.
MCConfig ==
    {[max_live_kernels |-> 1, max_boot_concurrency |-> 2, warm |-> {}, users |-> {c1, c2},
      operators |-> {o1}, runs |-> 2, faults |-> 1],
     [max_live_kernels |-> 2, max_boot_concurrency |-> 1, warm |-> {c1, c2}, users |-> {c1},
      operators |-> {o1}, runs |-> 1, faults |-> 0],
     [max_live_kernels |-> 2, max_boot_concurrency |-> 1, warm |-> {c1, c2},
      users |-> {c1, c2, c3}, operators |-> {}, runs |-> 2, faults |-> 0]}
=============================================================================
