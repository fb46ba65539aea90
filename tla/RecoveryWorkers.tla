---------------------------- MODULE RecoveryWorkers ----------------------------
(***************************************************************************)
(* One run of a recovery coordinator, main(ctx) of elliptics_recovery's    *)
(* types.merge or types.dc as src/recovery/dnet_recovery calls it (line    *)
(* 284), modelled from the spec (4.4, 4.5, 5, 7): the work units planned   *)
(* from the route table are handed out once to the worker processes; a    *)
(* worker takes its units one at a time through                           *)
(*     PENDING -> ITERATING -> DIFFING -> TRANSFERRING -> DONE             *)
(* where an RPC that times out or fails moves the unit to FAILED; the      *)
(* parent waits for every worker and fails the run when a unit failed.     *)
(*                                                                         *)
(* Nodes are numbered in address order.  A merge moves keys from the local *)
(* node (Local) to the remote one (Remote) and, without -S, deletes them   *)
(* from the local node after the write; a dc run copies each key's winner  *)
(* to every stale replica.  The options are those dnet_recovery reads:     *)
(* the type, -N (dry run), -S (safe), -b (batch size), -t (cutoff).        *)
(***************************************************************************)
EXTENDS RecoveryDiff

CONSTANTS
    Nodes,        \* node addresses, 1..n
    Keys,         \* key ids (naturals: streams are sorted by id)
    Versions,     \* [ts, size] records a node may hold for a key
    Units,        \* work units
    KeyRange,     \* KeyRange[u]: the keys of unit u's key range
    Workers,      \* the nprocess worker processes
    Owner,        \* Owner[u]: the worker unit u was handed to
    OptionSpace,  \* [type, dryRun, safe] command lines
    BatchSize,    \* -b
    Cutoff,       \* -t
    MaxFailures,  \* bound on failed RPCs
    None

ASSUME BatchSize \in Nat \ {0}

VARIABLES
    opts,      \* the run's options
    store,     \* store[n][k]: the version node n holds of key k, or None
    status,    \* status[u]: the unit's state
    streams,   \* streams[u][n]: what node n's iterator returned for u
    diff,      \* diff[u]: the transfer instructions [id, from, to]
    sent,      \* sent[u]: instructions issued so far
    failures,
    result     \* the parent's verdict, None while it waits

vars == <<opts, store, status, streams, diff, sent, failures, result>>

Local == 1
Remote == 2
Terminal == {"DONE", "FAILED"}

(* What an iterator over the keys K of a node holding row returns: its *)
(* records sorted by id.                                               *)
StreamOf(row, K) ==
    SetToSortSeq({[id |-> k, ts |-> row[k].ts, size |-> row[k].size] :
                    k \in {k \in K : row[k] # None}},
                 LAMBDA a, b : a.id < b.id)

(* The iterator of node n over unit u's range. *)
Stream(n, u) == StreamOf(store[n], KeyRange[u])

(* The diff of the streams ss, as transfer instructions. *)
RunDiff(ss) ==
    IF opts.type = "merge"
    THEN LET md == MergeDiff(ss[Local], ss[Remote], Cutoff)
         IN [i \in DOMAIN md |-> [id |-> md[i].id, from |-> Local, to |-> {Remote}]]
    ELSE DcDiff(ss, Cutoff)

Busy(w) == \E u \in Units : Owner[u] = w /\ status[u] \in {"ITERATING", "DIFFING", "TRANSFERRING"}

(* The next batch_size instructions after the first from. *)
Batch(d, from) == SubSeq(d, from + 1, IF from + BatchSize < Len(d) THEN from + BatchSize ELSE Len(d))

(* bulk_write of batch b: each destination gets the source's record. *)
Written(s, b) ==
    [n \in Nodes |-> [k \in Keys |->
        IF \E i \in DOMAIN b : b[i].id = k /\ n \in b[i].to
        THEN s[b[CHOOSE i \in DOMAIN b : b[i].id = k].from][k] ELSE s[n][k]]]

(* bulk_delete of batch b's keys on their source. *)
Purged(s, b) ==
    [n \in Nodes |-> [k \in Keys |->
        IF \E i \in DOMAIN b : b[i].id = k /\ b[i].from = n THEN None ELSE s[n][k]]]

Deletes == opts.type = "merge" /\ ~opts.safe

(* Mutant: the source deleted before the bulk read that feeds the write. *)
PurgeThenWrite(s, b) == Written(Purged(s, b), b)

(* A successful transfer of batch b: bulk read and bulk write, then the *)
(* bulk delete on the source for a merge without -S.                   *)
TransferBatch(s, b) == IF Deletes THEN Purged(Written(s, b), b) ELSE Written(s, b)

Init ==
    /\ opts \in OptionSpace
    /\ store \in [Nodes -> [Keys -> Versions \cup {None}]]
    /\ status = [u \in Units |-> "PENDING"]
    /\ streams = [u \in Units |-> [n \in Nodes |-> <<>>]]
    /\ diff = [u \in Units |-> <<>>]
    /\ sent = [u \in Units |-> 0]
    /\ failures = 0
    /\ result = None

(* The worker takes its next unit. *)
Begin(u) ==
    /\ status[u] = "PENDING"
    /\ ~Busy(Owner[u])
    /\ status' = [status EXCEPT ![u] = "ITERATING"]
    /\ UNCHANGED <<opts, store, streams, diff, sent, failures, result>>

(* The iterator RPCs to every node of the unit; their records go to the *)
(* iterator_ scratch files.  A timeout fails the unit.                  *)
Iterate(u) ==
    /\ status[u] = "ITERATING"
    /\ \/ /\ streams' = [streams EXCEPT ![u] = [n \in Nodes |-> Stream(n, u)]]
          /\ status' = [status EXCEPT ![u] = "DIFFING"]
          /\ UNCHANGED failures
       \/ /\ failures < MaxFailures
          /\ status' = [status EXCEPT ![u] = "FAILED"]
          /\ failures' = failures + 1
          /\ UNCHANGED streams
    /\ UNCHANGED <<opts, store, diff, sent, result>>

(* The diff of the iterated streams, written to the diff_ files. *)
Diff(u) ==
    /\ status[u] = "DIFFING"
    /\ diff' = [diff EXCEPT ![u] = RunDiff(streams[u])]
    /\ status' = [status EXCEPT ![u] = "TRANSFERRING"]
    /\ UNCHANGED <<opts, store, streams, sent, failures, result>>

(* One batch: counted only in a dry run; else transferred, or failed   *)
(* part way: a bulk write that reached some destinations, or (merge    *)
(* without -S) a bulk delete that reached some sources.                *)
Transfer(u) ==
    /\ status[u] = "TRANSFERRING"
    /\ sent[u] < Len(diff[u])
    /\ LET b == Batch(diff[u], sent[u])
           Part(S) == SelectSeq(b, LAMBDA x : x.id \in S)
       IN \/ /\ opts.dryRun
             /\ sent' = [sent EXCEPT ![u] = @ + Len(b)]
             /\ UNCHANGED <<store, status, failures>>
          \/ /\ ~opts.dryRun
             /\ store' = TransferBatch(store, b)
             /\ sent' = [sent EXCEPT ![u] = @ + Len(b)]
             /\ UNCHANGED <<status, failures>>
          \/ /\ ~opts.dryRun
             /\ failures < MaxFailures
             /\ \/ \E S \in SUBSET KeysOf(b) : store' = Written(store, Part(S))
                \/ Deletes /\ \E S \in SUBSET KeysOf(b) :
                                 store' = Purged(Written(store, b), Part(S))
             /\ status' = [status EXCEPT ![u] = "FAILED"]
             /\ failures' = failures + 1
             /\ UNCHANGED sent
    /\ UNCHANGED <<opts, streams, diff, result>>

(* Mutant: the unit closed once its last batch is issued, before it is sent. *)
FinishEarly(u) ==
    /\ status[u] = "TRANSFERRING"
    /\ sent[u] + BatchSize >= Len(diff[u])
    /\ status' = [status EXCEPT ![u] = "DONE"]
    /\ UNCHANGED <<opts, store, streams, diff, sent, failures, result>>

(* The unit is done once every instruction of its diff has been sent. *)
Finish(u) ==
    /\ status[u] = "TRANSFERRING"
    /\ sent[u] = Len(diff[u])
    /\ status' = [status EXCEPT ![u] = "DONE"]
    /\ UNCHANGED <<opts, store, streams, diff, sent, failures, result>>

(* The parent joins the workers; a failed unit fails the run. *)
Join ==
    /\ result = None
    /\ \A u \in Units : status[u] \in Terminal
    /\ result' = IF \A u \in Units : status[u] = "DONE" THEN "ok" ELSE "failed"
    /\ UNCHANGED <<opts, store, status, streams, diff, sent, failures>>

WorkerStep(w) ==
    \E u \in Units : Owner[u] = w /\ (Begin(u) \/ Iterate(u) \/ Diff(u) \/ Transfer(u) \/ Finish(u))

Next == Join \/ \E w \in Workers : WorkerStep(w)

Spec == Init /\ [][Next]_vars

-----------------------------------------------------------------------------
(* Spec 8, idempotence: after a run in which every unit is done, a new  *)
(* run over the same nodes has nothing to transfer.  It needs the diff, *)
(* the batching and the deletes to have left every key in sync.         *)
RecoveryIdempotent ==
    result = "ok" /\ ~opts.dryRun =>
        \A u \in Units : RunDiff([n \in Nodes |-> Stream(n, u)]) = <<>>

Abs == INSTANCE RecoveryStore WITH
         phase <- [u \in Units |-> IF status[u] = "DONE" THEN "done"
                                   ELSE IF status[u] = "FAILED" THEN "failed" ELSE "open"],
         dry <- opts.dryRun

(* The run implements RecoveryStore: it copies only newest versions,   *)
(* deletes only what another node keeps, changes nothing when dry.     *)
RecoveryImplementsStore == Abs!Spec

=============================================================================
