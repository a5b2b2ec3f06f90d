SPECIFICATION FairSpec
CONSTANTS
    MaxAttempts = 5
    MaxRepeats = 1
    MaxStops = 2
    MaxCommands = 1
    MaxFaults = 1
    MaxJobs = 2
INVARIANTS
    GoalTurnsInv
PROPERTIES
    NoSilentReplay
    EndedStaysEnded
    TurnEndIsNoticed
CHECK_DEADLOCK FALSE
