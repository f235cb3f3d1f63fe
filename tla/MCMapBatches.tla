---------------------------- MODULE MCMapBatches ----------------------------
(* Small instances of MapBatches for TLC.                                  *)
EXTENDS MapBatches, TLC

\* Requests, tasks and datasets are interchangeable (safety runs only).
Symmetry == Permutations(Clients) \cup Permutations(Workers) \cup Permutations(Datasets)

\* Nothing is promised of what follows a crossing, so it is not explored.
UntilCrossed == ~crossed
=============================================================================
