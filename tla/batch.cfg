\* Two users and two tasks, three attempts, with transactions that interleave.
SPECIFICATION Spec
CONSTANTS
    None = None
    MaxTokens = 3
    MaxCrashes = 0
    Clients = {c1, c2}
    Datasets = {d1}
    Workers = {w1, w2}
CONSTRAINT UntilCrossed
SYMMETRY Symmetry
INVARIANTS WorkIsNotLost OneTask 
PROPERTIES StaleTaskIsFenced CancelHolds
CHECK_DEADLOCK FALSE
