SPECIFICATION FairSpec
CONSTANTS
    MaxAttempts = 5
    MaxRepeats = 2
    MaxStops = 0
    MaxCommands = 0
    MaxFaults = 0
    MaxJobs = 2
PROPERTIES
    IdleEventWakes
CHECK_DEADLOCK FALSE
