-------------------------- MODULE MCChunkedUpload ---------------------------
(* Small instances of ChunkedUpload for TLC.                               *)
EXTENDS ChunkedUpload, TLC

\* Chunks and requests are interchangeable.
Symmetry == Permutations(Chunks) \cup Permutations(Requests)
=============================================================================
