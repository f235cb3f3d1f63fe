\* Two sublayers, two requests, two tasks, a retry and a failure.
SPECIFICATION FairSpec
CONSTANTS
    Requests = {r1, r2}
    Workers = {w1, w2}
    None = None
    NumSublayers = 2
    MaxRequests = 2
    MaxRetries = 1
    MaxFailures = 1
INVARIANTS DoneHasFiles RecordIsCurrent DeletedIsGone
PROPERTIES CancelIsHeard
CHECK_DEADLOCK FALSE
