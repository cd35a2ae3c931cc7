SPECIFICATION FairSpec
CONSTANTS
    Projects = {p1, p2}
    EnvironmentIds = {e1}
    None = None
    Delay = 1
    MaxBatches = 2
    MaxUpdates = 4
    MaxMishaps = 1
INVARIANTS TypeOK CompletedShowsResults
PROPERTIES OneRefreshPerWindow LastStatusShown
CHECK_DEADLOCK FALSE
