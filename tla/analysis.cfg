\* Two inputs, two requests, one worker and the sweep, with one failure.
SPECIFICATION Spec
CONSTANTS
    None = None
    Sweeper = Sweeper
    MaxStored = 2
    MaxActive = 1
    MaxFailures = 1
    Inputs = {i1, i2}
    Layers = {l1}
    Requests = {r1, r2}
    Workers = {w1}
SYMMETRY Symmetry
INVARIANTS WithinLimits ActiveIsPinned
PROPERTIES SettlesOnce InputIsKept
CHECK_DEADLOCK FALSE
