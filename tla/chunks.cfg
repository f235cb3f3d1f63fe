\* Three chunks sent in up to six requests, three at a time, with one failure.
SPECIFICATION Spec
CONSTANTS
    None = None
    MaxSends = 6
    MaxFailures = 1
    Chunks = {k1, k2, k3}
    Requests = {r1, r2, r3}
SYMMETRY Symmetry
INVARIANTS RecordedIsStored SourceIsWhole SerialUploadCompletes
PROPERTIES SerialIsNotReopened
CHECK_DEADLOCK FALSE
