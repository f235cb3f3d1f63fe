\* One input, two requests, one worker and the sweep, with two failures.
SPECIFICATION FairSpec
CONSTANTS
    None = None
    Sweeper = Sweeper
    MaxStored = 1
    MaxActive = 1
    MaxFailures = 2
    Inputs = {i1}
    Layers = {l1}
    Requests = {r1, r2}
    Workers = {w1}
PROPERTIES EveryJobSettles InputsAreRemoved
CHECK_DEADLOCK FALSE
