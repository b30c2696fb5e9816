SPECIFICATION FairSpec
CONSTANTS
    Fetchers = {f1, f2}
    Urls = {"page", "ported"}
    AllowedUrls = {"page"}
    PortUrls = {"ported"}
    Reasons = {}
    Unset = Unset
    MaxJobs = 2
    Timeout = 2
    Stale = 2
    PollGap = 2
INVARIANTS NoOrphanJob JobsCountedOnce VerdictAgrees TimeoutWasHealthy
PROPERTIES VerdictFinal FetchReturns
