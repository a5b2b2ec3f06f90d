SPECIFICATION FairSpec
CONSTANTS
    c1 = c1
    c2 = c2
    c3 = c3
    o1 = o1
    Chat = {c1, c2, c3}
    Cell = {1, 2}
    Op = {o1}
    None = None
    Config <- MCConfig
INVARIANTS
    KernelsInv
    RunKeepsKernel
    AdmittedIsRecorded
PROPERTIES
    RequestIsAnswered
CHECK_DEADLOCK FALSE
