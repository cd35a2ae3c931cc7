SPECIFICATION Spec
CONSTANTS
    Pages = {"environments", "project", "team", "projects", "settings"}
    Roles = {"owner", "admin", "developer", "viewer"}
    MaxVersion = 2
    MaxQueue = 3
    MaxMishaps = 1
INVARIANTS TypeOK OfferedIsAllowed OwnChangesArrive
PROPERTY AnswerClosesItsDialog
CHECK_DEADLOCK FALSE
