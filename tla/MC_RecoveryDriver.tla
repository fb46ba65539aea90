------------------------- MODULE MC_RecoveryDriver -------------------------
(* Model-checking instance of RecoveryDriver: every invocation locks, and   *)
(* may be of either type, use the per-type or a shared tmp dir, pause at   *)
(* the -e prompt, and fail an option check before or after the lock.       *)
EXTENDS RecoveryDriver, TLC

MCOptionSpace ==
    [type : Types, perType : BOOLEAN, lock : {TRUE}, noExit : BOOLEAN,
     bad : {"none", "early", "late"}]

=============================================================================
