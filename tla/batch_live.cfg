\* Two datasets and a crash under fairness, also after transactions have crossed.
SPECIFICATION FairSpec
CONSTANTS
    None = None
    MaxTokens = 3
    MaxCrashes = 1
    Clients = {c1}
    Datasets = {d1, d2}
    Workers = {w1}
PROPERTIES EveryAttemptSettles CancelStopsTheWork ImplementsJob
CHECK_DEADLOCK FALSE
