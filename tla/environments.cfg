SPECIFICATION Spec
CONSTANTS
    Envs = {e1, e2}
    Requests = {r1, r2}
    Names = {n1, n2}
    None = None
    MaxMishaps = 1
SYMMETRY Symmetry
INVARIANTS
    TypeOK
    OneDefault
    SavedStateIsUsed
    NoBareCredential
CHECK_DEADLOCK FALSE
