\* Two sublayers of three features, two fetching threads, two attempts, one fault.
SPECIFICATION FairFetchSpec
CONSTANTS
    Threads = {t1, t2}
    NumLayers = 2
    NumFeatures = 3
    PageSize = 2
    MaxAttempts = 2
    MaxFaults = 1
INVARIANTS NothingIsPartial HealthyIsWhole
PROPERTIES DownloadEnds
CHECK_DEADLOCK FALSE
