\* Two datasets, two requests, two tasks, a retry and a failure.
SPECIFICATION FairSpec
CONSTANTS
    Requests = {r1, r2}
    Workers = {w1, w2}
    None = None
    NumDatasets = 2
    NumBatches = 1
    MaxRequests = 2
    MaxRetries = 1
    MaxFailures = 1
INVARIANTS SingleImportIsWhole CompletedHasTables
PROPERTIES ImportEnds 
CHECK_DEADLOCK FALSE
