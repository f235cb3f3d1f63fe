-------------------------- MODULE MCLayerCatalogue --------------------------
(* Small instances of LayerCatalogue for TLC.                              *)
EXTENDS LayerCatalogue, TLC

Symmetry == Permutations(Requests) \cup Permutations(Workers)
=============================================================================
