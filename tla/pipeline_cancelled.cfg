SPECIFICATION Spec
CONSTANTS
    Runs = {r1}
    Slots = {s1}
    Users = {u1}
    None = None
    MaxAttempts = 3
    MaxStalled = 1
    EarlyPickup = FALSE
    Deletable = {}
    MaxFaults = 0
    MaxCrashes = 0
    MaxDropped = 0
    MaxLockLosses = 0
    MaxCancels = 1
    MaxDisturbances = 1
PROPERTY CancelledIsFinal
CHECK_DEADLOCK FALSE
