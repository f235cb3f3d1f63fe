------------------------ MODULE MCReferenceAnalysis -------------------------
(* Small instances of ReferenceAnalysis for TLC.                           *)
EXTENDS ReferenceAnalysis, TLC

\* Inputs, requests and tasks are interchangeable (safety runs only).
Symmetry == Permutations(Inputs) \cup Permutations(Requests) \cup Permutations(Workers)
=============================================================================
