-------------------------- MODULE MCOverlayAnalysis --------------------------
(* Small instances of OverlayAnalysis for TLC.                             *)
EXTENDS OverlayAnalysis, TLC

Symmetry == Permutations(Runs) \cup Permutations(Requests) \cup Permutations(Workers)
=============================================================================
