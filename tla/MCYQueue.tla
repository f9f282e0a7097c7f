------------------------------ MODULE MCYQueue ------------------------------
(* YQueue for TLC: chunk addresses are interchangeable. *)
EXTENDS YQueue, TLC

Symmetry == Permutations(Chunk)
=============================================================================
