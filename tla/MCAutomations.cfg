SPECIFICATION FairSpec
CONSTANTS
    Hook = {"h1"}
    Payload = {"p", "q"}
    Sched = {"s1", "s2"}
    Manual = {"m1"}
    MaxAttempts = 2
    MaxClaims = 1
    MaxEdits = 2
    MaxRequests = 2
    MaxFaults = 1
    MaxTime = 1
    DayLength = 3
    WeekLength = 4
    Workdays = 2
    Forward = 13
    Back = 19
    Shift = 1
INVARIANTS
    AutomationsInv
    DueIsExact
PROPERTIES
    StoppedStaysStopped
    AcceptedIsNotLost
    ClaimSettles
CHECK_DEADLOCK FALSE
