----------------------------- MODULE MCEsriFetch -----------------------------
(* Small instances of EsriFetch for TLC.                                    *)
EXTENDS EsriFetch, TLC

Symmetry == Permutations(Threads)
=============================================================================
