------------------------------ MODULE MCArchive ------------------------------
(* Buffers of one and two samples, files of two buffers, a crash at any step. *)
EXTENDS Archive

Sym == Permutations(Kinds)
==============================================================================
