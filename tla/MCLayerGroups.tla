---------------------------- MODULE MCLayerGroups ---------------------------
(* Small instances of LayerGroups for TLC.                                 *)
EXTENDS LayerGroups, TLC

\* Layers, groups, codes and requests are interchangeable.
Symmetry ==
    Permutations(Layers) \cup Permutations(Groups) \cup Permutations(Codes)
        \cup Permutations(Users)

\* Nothing is promised of a map after a crossing, so it is not explored.  To
\* bound the run, a batch selects one layer (an update may take any), one group
\* is there at a time, and nobody holds the view of a group that is gone.
Explored ==
    /\ crossed = {}
    /\ \A g \in Groups : Cardinality(chosen[g]) <= 1
    /\ Cardinality({g \in Groups : Exists(g)}) <= 1
    /\ \A u \in Users : view[u].g # None => Exists(view[u].g)
=============================================================================
