-------------------------------- MODULE Cache --------------------------------
(***************************************************************************)
(* The in-memory cache of src/cache/cache.cpp: class cache_t (an           *)
(* unordered_map from ids to shared_ptr<raw_data_t> under one mutex) and   *)
(* the command dispatcher dnet_cmd_cache_io, run by several transport      *)
(* threads at once.                                                         *)
(*                                                                          *)
(* Every method of cache_t runs entirely under m_lock, so each is one      *)
(* atomic action.  A READ is not: cache_t::read returns a reference to the *)
(* map slot, the scoped lock is released on return, and only then does     *)
(* dnet_cmd_cache_io copy the shared_ptr out of the slot (line 179).  That *)
(* copy loads the slot's pointer and then increments the reference count   *)
(* of what it loaded, and each can meet a concurrent write or remove.  The *)
(* READ is therefore three steps: the locked find, the load, the increment *)
(* (followed by the reply, which releases the copy).                       *)
(*                                                                          *)
(* Memory is modelled by identity: hmap[k] is the slot of the node for key *)
(* k (None: no node; Null: a node holding an empty shared_ptr), nodeGen[k] *)
(* tells a re-inserted node from an erased one, and objects 1..MaxObjs are *)
(* the raw_data_t allocations with their shared_ptr use counts.  A load    *)
(* through an erased node or an increment of a freed count is undefined    *)
(* behaviour; the model lets the thread go on with the value Garbage.      *)
(***************************************************************************)
EXTENDS Naturals

CONSTANTS
    Threads,      \* transport threads calling dnet_cmd_cache_io
    Ids,          \* object ids (key_t)
    Sizes,        \* lengths of written data (io->size of a WRITE)
    ReadOffsets,  \* io->offset of a READ
    ReadSizes,    \* io->size of a READ
    IoWidth,      \* bit width of io->offset and io->size (u64 in the code)
    MaxObjs,      \* bound on raw_data_t allocations
    MaxFailures,  \* bound on allocation failures (std::bad_alloc)
    None, Null, Garbage

Objs == 1..MaxObjs

IoMod == 2^IoWidth

VARIABLES
    cacheOn,   \* n->cache != NULL after dnet_cache_init
    hmap,      \* m_hmap: node slot per key
    nodeGen,   \* how many times a node for the key has been inserted
    objKey,    \* the id a raw_data_t was written for
    objSize,   \* raw_data_t::m_size
    refs,      \* shared_ptr use count of each raw_data_t
    freed,     \* raw_data_t objects whose count reached 0
    nextObj,   \* allocations made so far
    th,        \* locals of the command each thread is running
    reply,     \* the last result each thread returned or sent
    failures

vars == <<cacheOn, hmap, nodeGen, objKey, objSize, refs, freed, nextObj,
          th, reply, failures>>

IdleThread == [pc |-> "idle", id |-> None, gen |-> 0, obj |-> None,
               counted |-> FALSE, off |-> 0, sz |-> 0]

(* What a command returned: an error code, or the data it sent. *)
Status(code) == [code |-> code, obj |-> 0, size |-> 0]

(* equal_to: two keys are equal when all DNET_ID_SIZE bytes are. *)
KeyEq(x, y) == x = y

(* The node an unordered_map operation on id reaches: the existing node  *)
(* of an equal key, or the node that operator[] would insert for id.     *)
Node(id) ==
    LET found == {k \in Ids : hmap[k] # None /\ KeyEq(k, id)}
    IN  IF found = {} THEN id ELSE CHOOSE k \in found : TRUE

(* Dropping one shared_ptr to o: the use count falls and the object is *)
(* freed when it reaches 0.  Null and None own nothing.               *)
RefsAfterRelease(o) == IF o \in Objs THEN [refs EXCEPT ![o] = @ - 1] ELSE refs
FreedAfterRelease(o) ==
    IF o \in Objs /\ refs[o] = 1 THEN freed \cup {o} ELSE freed

(* The bounds check of the READ case, in IoWidth-bit arithmetic. *)
ReadOutOfRange(off, sz, size) == (off + sz) % IoMod > size

Init ==
    /\ cacheOn \in BOOLEAN
    /\ hmap = [k \in Ids |-> None]
    /\ nodeGen = [k \in Ids |-> 0]
    /\ objKey = [o \in Objs |-> None]
    /\ objSize = [o \in Objs |-> 0]
    /\ refs = [o \in Objs |-> 0]
    /\ freed = {}
    /\ nextObj = 0
    /\ th = [t \in Threads |-> IdleThread]
    /\ reply = [t \in Threads |-> Status("none")]
    /\ failures = 0

(* dnet_cmd_cache_io when dnet_cache_init failed: -ENOTSUP for anything. *)
CacheDisabled(t) ==
    /\ ~cacheOn
    /\ th[t].pc = "idle"
    /\ reply' = [reply EXCEPT ![t] = Status("ENOTSUP")]
    /\ UNCHANGED <<cacheOn, hmap, nodeGen, objKey, objSize, refs, freed,
                   nextObj, th, failures>>

(* WRITE: cache_t::write, m_hmap[id] = make_shared<raw_data_t>(data, size) *)
(* under m_lock, then err = 0.  The allocation can throw bad_alloc, which  *)
(* the dispatcher turns into -ENOENT.  Before C++17 the order in which      *)
(* m_hmap[id] and the make_shared argument are evaluated is unspecified,   *)
(* so a throw may come after operator[] inserted a node with an empty      *)
(* shared_ptr.                                                              *)
CacheWrite(t) ==
    /\ cacheOn
    /\ th[t].pc = "idle"
    /\ nextObj < MaxObjs
    /\ \E id \in Ids, sz \in Sizes :
         LET k   == Node(id)
             old == hmap[k]
             o   == nextObj + 1
         IN  \/ /\ hmap' = [hmap EXCEPT ![k] = o]
                /\ nodeGen' = IF old = None THEN [nodeGen EXCEPT ![k] = @ + 1]
                                            ELSE nodeGen
                /\ objKey' = [objKey EXCEPT ![o] = id]
                /\ objSize' = [objSize EXCEPT ![o] = sz]
                /\ refs' = [RefsAfterRelease(old) EXCEPT ![o] = 1]
                /\ freed' = FreedAfterRelease(old)
                /\ nextObj' = o
                /\ reply' = [reply EXCEPT ![t] = Status("OK")]
                /\ UNCHANGED failures
             \/ /\ failures < MaxFailures
                /\ \E inserted \in IF old = None THEN BOOLEAN ELSE {FALSE} :
                     /\ hmap' = IF inserted THEN [hmap EXCEPT ![k] = Null] ELSE hmap
                     /\ nodeGen' = IF inserted THEN [nodeGen EXCEPT ![k] = @ + 1]
                                               ELSE nodeGen
                /\ reply' = [reply EXCEPT ![t] = Status("ENOENT")]
                /\ failures' = failures + 1
                /\ UNCHANGED <<objKey, objSize, refs, freed, nextObj>>
    /\ UNCHANGED <<cacheOn, th>>

(* READ, step 1: cache_t::read under m_lock.  A miss throws "no record",  *)
(* which the dispatcher turns into -ENOENT; a hit returns a reference to  *)
(* the node's slot and releases the lock.                                 *)
CacheReadFind(t) ==
    /\ cacheOn
    /\ th[t].pc = "idle"
    /\ \E id \in Ids, off \in ReadOffsets, sz \in ReadSizes :
         LET k == Node(id) IN
         IF hmap[k] = None
         THEN /\ reply' = [reply EXCEPT ![t] = Status("ENOENT")]
              /\ UNCHANGED th
         ELSE /\ th' = [th EXCEPT ![t] = [IdleThread EXCEPT
                          !.pc = "copy", !.id = k, !.gen = nodeGen[k],
                          !.off = off, !.sz = sz]]
              /\ UNCHANGED reply
    /\ UNCHANGED <<cacheOn, hmap, nodeGen, objKey, objSize, refs, freed,
                   nextObj, failures>>

(* READ, step 2: d = <reference>, unlocked: the pointer is loaded from the *)
(* slot.  If the node was erased since step 1 the load reads freed memory. *)
CacheReadCopy(t) ==
    /\ th[t].pc = "copy"
    /\ LET s    == th[t]
           live == hmap[s.id] # None /\ nodeGen[s.id] = s.gen
           p    == IF live THEN hmap[s.id] ELSE Garbage
       IN  th' = [th EXCEPT ![t].pc = IF p \in Objs THEN "incref" ELSE "check",
                            ![t].obj = p]
    /\ UNCHANGED <<cacheOn, hmap, nodeGen, objKey, objSize, refs, freed,
                   nextObj, reply, failures>>

(* READ, step 3: the copy increments the use count of what it loaded.  If *)
(* a write or remove dropped the slot's reference in between, the object  *)
(* and its count are already freed.                                        *)
CacheReadIncref(t) ==
    /\ th[t].pc = "incref"
    /\ LET o == th[t].obj IN
       IF o \notin freed
       THEN /\ refs' = [refs EXCEPT ![o] = @ + 1]
            /\ th' = [th EXCEPT ![t].pc = "check", ![t].counted = TRUE]
       ELSE /\ th' = [th EXCEPT ![t].pc = "check", ![t].obj = Garbage]
            /\ UNCHANGED refs
    /\ UNCHANGED <<cacheOn, hmap, nodeGen, objKey, objSize, freed, nextObj,
                   reply, failures>>

(* READ, step 4: the bounds check, io->size = d->size(), the send from    *)
(* d->data() + io->offset, and the release of d when the try block ends. *)
CacheReadReply(t) ==
    /\ th[t].pc = "check"
    /\ LET s == th[t] IN
       /\ reply' = [reply EXCEPT ![t] =
            IF s.obj \notin Objs THEN Status("UB")
            ELSE IF ReadOutOfRange(s.off, s.sz, objSize[s.obj]) THEN Status("EINVAL")
            ELSE [code |-> "DATA", obj |-> s.obj, size |-> objSize[s.obj]]]
       /\ refs' = IF s.counted THEN RefsAfterRelease(s.obj) ELSE refs
       /\ freed' = IF s.counted THEN FreedAfterRelease(s.obj) ELSE freed
    /\ th' = [th EXCEPT ![t] = IdleThread]
    /\ UNCHANGED <<cacheOn, hmap, nodeGen, objKey, objSize, nextObj, failures>>

(* DEL: cache_t::remove, m_hmap.erase(id) under m_lock.  err stays       *)
(* -ENOTSUP, so the caller goes on to the backend.                       *)
CacheRemove(t) ==
    /\ cacheOn
    /\ th[t].pc = "idle"
    /\ \E id \in Ids :
         LET k == Node(id) IN
         /\ hmap' = [hmap EXCEPT ![k] = None]
         /\ refs' = RefsAfterRelease(hmap[k])
         /\ freed' = FreedAfterRelease(hmap[k])
    /\ reply' = [reply EXCEPT ![t] = Status("ENOTSUP")]
    /\ UNCHANGED <<cacheOn, nodeGen, objKey, objSize, nextObj, th, failures>>

Next ==
    \E t \in Threads :
        \/ CacheDisabled(t)
        \/ CacheWrite(t)
        \/ CacheReadFind(t)
        \/ CacheReadCopy(t)
        \/ CacheReadIncref(t)
        \/ CacheReadReply(t)
        \/ CacheRemove(t)

Spec == Init /\ [][Next]_vars

-----------------------------------------------------------------------------
(* A READ never touches freed memory: between the unlock in cache_t::read *)
(* and the copy of the shared_ptr the node is still there, the object    *)
(* loaded from it is still alive when its count is incremented, and the  *)
(* reply is built from a real raw_data_t, never through an empty or      *)
(* dangling pointer.                                                      *)
ReadTouchesLiveMemory ==
    \A t \in Threads :
        LET s == th[t] IN
        /\ s.pc = "copy" => hmap[s.id] # None /\ nodeGen[s.id] = s.gen
        /\ s.pc = "incref" => s.obj \notin freed
        /\ s.pc = "check" => s.obj \in Objs

=============================================================================
