------------------------------ MODULE MC_Cache ------------------------------
(* Model-checking instance of Cache.  Threads and ids are interchangeable *)
(* model values.                                                          *)
EXTENDS Cache, TLC

Symmetry == Permutations(Threads) \cup Permutations(Ids)

=============================================================================
