\* One run, two requests, one worker, three calls and three failures.
SPECIFICATION FairSpec
CONSTANTS
    Runs = {a1}
    Requests = {r1, r2}
    Workers = {w1}
    None = None
    MaxCalls = 3
    MaxRetries = 1
    MaxFailures = 3
INVARIANTS ResultIsWhole SavedIsKept RemovedIsGone
 
CHECK_DEADLOCK FALSE
