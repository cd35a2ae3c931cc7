SPECIFICATION Spec
CONSTANTS
    Timeout = 8
    PollEvery = 2
    Grace = 3
    ReadTime = 3
    StopTime = 1
    MaxTime = 16
INVARIANTS
    TypeOK
    AttemptIsBounded
    CancelIsPrompt
    ReasonIsTrue
    GracefulStop
CHECK_DEADLOCK FALSE
