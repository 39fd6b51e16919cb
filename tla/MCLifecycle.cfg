SPECIFICATION FairSpec
CONSTANTS
    c1 = c1
    c2 = c2
    Containers = {c1, c2}
    Deployments <- Together
    MaxCalls = 1
    MaxFaults = 1
INVARIANTS
    TypeOK
    DrainedBeforeClosed
    AckedWasApplied
PROPERTIES
    Stops
    Recovers
    WorkedOff
CHECK_DEADLOCK FALSE
