SPECIFICATION SessionSpec
CONSTANTS
    BaseURLs <- MCBaseURLs
    BasePaths <- MCBasePaths
    Tenants <- MCTenants
    IdTexts <- MCIdTexts
    RawTexts <- MCRawTexts
    Hosts <- MCHosts
    None = None
    NoHost = NoHost
    NoRequest = NoRequest
    Lifetimes = {0, 3, 16, 30, 60}
    Thresholds = {33, 70}
    MinSleep = 2
    BaseDelay = 1
    MaxDelay = 6
    MaxAttempts = 4
    MaxTimer = 30
    Latency = 2
    NoLoop = NoLoop
INVARIANTS OwnRoute BasePathOnce Unambiguous PendingIsExact ScopedCarriesTenant
    RequestAgrees TokenWasGiven MachineIsLast ReliableCloudFound
    Paced LapseNeedsOutage
