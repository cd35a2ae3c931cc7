SPECIFICATION Spec
CONSTANTS
    Runs = {r1}
    Slots = {s1, s2}
    Users = {u1}
    None = None
    MaxAttempts = 2
    MaxStalled = 1
    EarlyPickup = TRUE
    Deletable = {r1}
    MaxFaults = 2
    MaxCrashes = 2
    MaxDropped = 1
    MaxLockLosses = 2
    MaxCancels = 1
    MaxDisturbances = 2
SYMMETRY Symmetry
CONSTRAINT FewDisturbances
INVARIANTS
    TypeOK
    OneProcessorPerRun
    NoDuplicateResults
    CompletedRunHasItsResults
    ActiveRowHasProcessor
    RetryIsRecorded
PROPERTY SettledForGood
CHECK_DEADLOCK FALSE
