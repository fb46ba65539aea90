--------------------------- MODULE MC_RecoveryWorkers ---------------------------
EXTENDS RecoveryWorkers, TLC

(* Two nodes, three keys in two units, both on the one worker of -n 1. *)
MCKeyRange == [u \in Units |-> IF u = "u1" THEN {1, 2} ELSE {3}]

MCOwner == [u \in Units |-> "w1"]

(* An old version and two new ones tied on timestamp: every ts order  *)
(* between two replicas, and the size tie-break of the dc winner.     *)
MCVersions == {[ts |-> 1, size |-> 1], [ts |-> 2, size |-> 1], [ts |-> 2, size |-> 2]}

(* -S only changes a merge; a dry run issues no transfer. *)
MCOptionSpace ==
    {[type |-> "merge", dryRun |-> d, safe |-> s] : d \in BOOLEAN, s \in BOOLEAN}
    \cup {[type |-> "dc", dryRun |-> d, safe |-> FALSE] : d \in BOOLEAN}

=============================================================================
