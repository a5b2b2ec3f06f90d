SPECIFICATION FairSpec
CONSTANTS
    Conn = {c1, c2}
    Runtime = {"r1", "r2"}
    NMsg = 2
    MaxEpoch = 2
    MaxCrashes = 1
    NoOne = NoOne
INVARIANTS
    PeersInv
PROPERTIES
    RepliedIsFinal
    LostLeaseReleases
CHECK_DEADLOCK FALSE
