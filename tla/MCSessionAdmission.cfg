SPECIFICATION FairSpec
CONSTANTS
    Turn = {t1, t2}
    Change = {c1}
    Retire = {r1}
    Kinds = {"pause", "resume", "stop"}
    MaxInFlight = 1
    MaxRevision = 2
    MaxAuthority = 1
    None = None
INVARIANTS
    AdmissionInv
PROPERTIES
    StopReleasesChat
    StaleCommandsIgnored
    WaitersWake
CHECK_DEADLOCK FALSE
