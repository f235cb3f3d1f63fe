\* Two groups, two codes and two requests whose transactions interleave.
SPECIFICATION Spec
CONSTANTS
    None = None
    Layers = {l1, l2}
    Groups = {g1, g2}
    Codes = {k1, k2}
    Users = {u1, u2}
    MaxRevision = 2
    MaxFailures = 1
CONSTRAINT Explored
SYMMETRY Symmetry
INVARIANTS PublicationIsOwn MapShowsRows
PROPERTIES RevisionIsSeen
CHECK_DEADLOCK FALSE
