\* Two requests and a worker, every request once and a failure.
SPECIFICATION FairSpec
CONSTANTS
    Requests = {r1, r2}
    Workers = {w1}
    None = None
    MaxRequests = 2
    MaxRetries = 1
    MaxFailures = 1
INVARIANTS TilesAreFinished DoneHasLayer ArtifactIsPinned
PROPERTIES ProcessingEnds
CHECK_DEADLOCK FALSE
