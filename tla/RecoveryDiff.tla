----------------------------- MODULE RecoveryDiff -----------------------------
(***************************************************************************)
(* The diff phase of the recovery coordinators (spec 4.4, step 3), run on  *)
(* the streams the iterators returned.  A stream is a sequence of records  *)
(* [id, ts, size] sorted by id, one record per key.  The coordinators live *)
(* in the elliptics_recovery package that src/recovery/dnet_recovery       *)
(* imports, so this module follows the spec: the merge diff walks two      *)
(* streams pairwise, the dc diff walks k streams at once and picks a       *)
(* winner per key.                                                         *)
(***************************************************************************)
EXTENDS Naturals, Sequences, FiniteSetsExt, SequencesExt

KeysOf(s) == {s[i].id : i \in DOMAIN s}

(* Merge diff of the local stream l against the remote stream r: emit a  *)
(* local record whose key the remote lacks or holds with an older        *)
(* timestamp, unless its timestamp is below the cutoff t (then it is the *)
(* key's latest and the key is skipped).                                 *)
RECURSIVE MergeDiff(_, _, _)
MergeDiff(l, r, t) ==
    IF l = <<>> THEN <<>>
    ELSE LET a == Head(l)
             keep == IF a.ts >= t THEN <<a>> ELSE <<>>
         IN IF r = <<>> \/ a.id < Head(r).id THEN keep \o MergeDiff(Tail(l), r, t)
            ELSE IF Head(r).id < a.id THEN MergeDiff(l, Tail(r), t)
            ELSE (IF a.ts > Head(r).ts THEN keep ELSE <<>>) \o MergeDiff(Tail(l), Tail(r), t)

(* Replica i's record a beats replica j's record b: higher timestamp,   *)
(* then larger size, then lower node address (replicas are numbered in  *)
(* address order).                                                      *)
Beats(a, i, b, j) ==
    \/ a.ts > b.ts
    \/ a.ts = b.ts /\ a.size > b.size
    \/ a.ts = b.ts /\ a.size = b.size /\ i < j

Heads(ss) == {i \in DOMAIN ss : ss[i] # <<>>}

(* The winner among the replicas S whose stream heads carry one key. *)
Winner(ss, S) ==
    CHOOSE i \in S : \A j \in S \ {i} : Beats(Head(ss[i]), i, Head(ss[j]), j)

(* Replicas that lack the key or hold another version than the winner. *)
Stale(ss, have, win) ==
    {i \in DOMAIN ss : i \notin have \/ Head(ss[i]).ts # win.ts
                                     \/ Head(ss[i]).size # win.size}

(* DC diff of the replica streams ss: take the lowest id at the heads,  *)
(* the winner among the replicas that have it, and emit one transfer   *)
(* from the winner to every stale replica, unless the winner's         *)
(* timestamp is below the cutoff t.                                    *)
RECURSIVE DcDiff(_, _)
DcDiff(ss, t) ==
    IF Heads(ss) = {} THEN <<>>
    ELSE LET k == Min({Head(ss[i]).id : i \in Heads(ss)})
             have == {i \in Heads(ss) : Head(ss[i]).id = k}
             w == Winner(ss, have)
             to == Stale(ss, have, Head(ss[w]))
             rest == [i \in DOMAIN ss |-> IF i \in have THEN Tail(ss[i]) ELSE ss[i]]
         IN (IF to # {} /\ Head(ss[w]).ts >= t
             THEN <<[id |-> k, from |-> w, to |-> to]>> ELSE <<>>)
            \o DcDiff(rest, t)

=============================================================================
