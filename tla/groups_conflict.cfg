\* Two users update a group of one layer that both have loaded.
SPECIFICATION Spec
CONSTANTS
    None = None
    Layers = {l1}
    Groups = {g1}
    Codes = {k1}
    Users = {u1, u2}
    MaxRevision = 2
    MaxFailures = 0
PROPERTIES NoLostUpdate
CHECK_DEADLOCK FALSE
