--------------------------- MODULE MC_BlobBackend ---------------------------
(* Model-checking instance of BlobBackend: threads and ids are model       *)
(* values and interchangeable, so their permutations form a symmetry set.  *)
EXTENDS BlobBackend, TLC

Symmetry == Permutations(Threads) \cup Permutations(Ids)

=============================================================================
