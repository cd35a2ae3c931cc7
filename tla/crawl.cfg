SPECIFICATION FairSpec
CONSTANTS
    Urls = {home, a, b, login, out}
    Home = home
    AuthPages = {login}
    Skipped = {out}
    Offsite = {out}
    Landings = {login, out}
    None = None
    MaxPages = 4
    MaxDepth = 2
    MaxHrefs = 2
INVARIANTS
    TypeOK
    CrawlIsComplete
    CrawlStaysWithinLimits
    ReportFitsResults
PROPERTY ExecutorReturns
CHECK_DEADLOCK FALSE
