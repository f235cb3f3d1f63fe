---------------------------- MODULE MCUploadTasks ---------------------------
(* Small instances of UploadTasks for TLC.                                 *)
EXTENDS UploadTasks, TLC

Symmetry == Permutations(Requests) \cup Permutations(Workers)
=============================================================================
