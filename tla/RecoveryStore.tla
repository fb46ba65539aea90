----------------------------- MODULE RecoveryStore -----------------------------
(***************************************************************************)
(* What a recovery run promises the nodes it works on (spec 4.4, P8): it   *)
(* only copies, to a node, a version of a key that no node holds a newer   *)
(* version of; it only deletes a node's copy of a key when another node    *)
(* holds that same version; a dry run changes nothing; and every work unit *)
(* is closed once, as done or failed.                                      *)
(***************************************************************************)
EXTENDS Naturals

CONSTANTS Nodes, Keys, Versions, Units, None

VARIABLES store, phase, dry

Vars == <<store, phase, dry>>

(* v is as new as every version of key k on the nodes. *)
Newest(k, v) == \A n \in Nodes : store[n][k] = None \/ store[n][k].ts <= v.ts

(* A node's copy of k changes by a copy of the newest version from     *)
(* another node, or goes away while another node keeps that version.   *)
Synced(n, k) ==
    \/ store'[n][k] = store[n][k]
    \/ /\ store'[n][k] # None
       /\ \E m \in Nodes : store[m][k] = store'[n][k]
       /\ Newest(k, store'[n][k])
    \/ /\ store'[n][k] = None
       /\ \E m \in Nodes \ {n} : store'[m][k] = store[n][k]

Init ==
    /\ store \in [Nodes -> [Keys -> Versions \cup {None}]]
    /\ phase = [u \in Units |-> "open"]
    /\ dry \in BOOLEAN

(* A unit is closed at most once, as done or failed. *)
Closes(u) ==
    \/ phase'[u] = phase[u]
    \/ phase[u] = "open" /\ phase'[u] \in {"done", "failed"}

(* Copies and deletes of some unit's batch; the unit may fail with it. *)
Sync ==
    /\ ~dry
    /\ store' \in [Nodes -> [Keys -> Versions \cup {None}]]
    /\ \A n \in Nodes, k \in Keys : Synced(n, k)
    /\ phase' \in [Units -> {"open", "done", "failed"}]
    /\ \A u \in Units : Closes(u)
    /\ UNCHANGED dry

Close(u) ==
    /\ phase[u] = "open"
    /\ phase' \in {[phase EXCEPT ![u] = "done"], [phase EXCEPT ![u] = "failed"]}
    /\ UNCHANGED <<store, dry>>

Next == Sync \/ \E u \in Units : Close(u)

Spec == Init /\ [][Next]_Vars

=============================================================================
