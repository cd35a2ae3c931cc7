SPECIFICATION Spec
CONSTANTS
    Runs = {r1}
    Slots = {s1, s2}
    Users = {u1}
    None = None
    MaxAttempts = 3
    MaxStalled = 1
    EarlyPickup = FALSE
    Deletable = {r1}
    MaxFaults = 3
    MaxCrashes = 2
    MaxDropped = 1
    MaxLockLosses = 0
    MaxCancels = 0
    MaxDisturbances = 4
SYMMETRY Symmetry
CONSTRAINT FewDisturbances
PROPERTY FollowsLifecycle
CHECK_DEADLOCK FALSE
