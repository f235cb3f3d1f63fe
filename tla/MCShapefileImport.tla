-------------------------- MODULE MCShapefileImport -------------------------
(* Small instances of ShapefileImport for TLC.                             *)
EXTENDS ShapefileImport, TLC

Symmetry == Permutations(Requests) \cup Permutations(Workers)
=============================================================================
