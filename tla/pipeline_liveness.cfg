SPECIFICATION FairSpec
CONSTANTS
    Runs = {r1, r2}
    Slots = {s1}
    Users = {u1}
    None = None
    MaxAttempts = 2
    MaxStalled = 1
    EarlyPickup = FALSE
    Deletable = {}
    MaxFaults = 0
    MaxCrashes = 1
    MaxDropped = 0
    MaxLockLosses = 0
    MaxCancels = 1
    MaxDisturbances = 2
INVARIANT NoOrphanedRun
PROPERTY EveryRunFinishes
CHECK_DEADLOCK FALSE
