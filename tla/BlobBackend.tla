---------------------------- MODULE BlobBackend ----------------------------
(***************************************************************************)
(* The blob backend of src/example/blob/backend.c: two append-only log     *)
(* files (data, history) with a tail offset each, one in-memory hash index *)
(* from (id, kind) to (offset, on-disk size), served by one transport      *)
(* thread per command, and rebuilt by scanning the logs at start-up.       *)
(*                                                                         *)
(* A file is a sequence of cells.  A record is one header cell (the        *)
(* blob_disk_control: id, REMOVED flag, payload size), its payload cells   *)
(* and zero padding cells up to the block size.  A payload cell carries    *)
(* the version it was written by: every data write gets a fresh version,   *)
(* and a history entry is the version of the write it records.            *)
(***************************************************************************)
EXTENDS Naturals, Sequences, SequencesExt, FiniteSets

CONSTANTS
    Threads,        \* transport threads calling the command handler
    Ids,            \* identifiers the clients write (model values)
    ZeroId,         \* the all-zero identifier, what a zero-filled header holds
    DataSizes,      \* payload sizes, in cells, of a data WRITE
    DataBSize,      \* "data_block_size" (0: no alignment)
    HistoryBSize,   \* "history_block_size"
    ReadOffsets,    \* io->offset values a READ may carry
    ReadSizes,      \* io->size values a READ may carry (0: whole record)
    MaxWrites,      \* bound on WRITE commands (data or history) issued
    MaxFailures,    \* bound on failed I/O or allocation steps
    MaxRestarts,    \* bound on restarts of the backend
    Crashes,        \* TRUE: the process may die while commands are in flight
    PowerLosses,    \* TRUE: the machine may lose power (page cache lost)
    None            \* absent index entry / no read result

ASSUME ZeroId \notin Ids /\ None \notin Ids
ASSUME DataBSize \in Nat /\ HistoryBSize \in Nat
ASSUME DataSizes \subseteq Nat \ {0} /\ MaxWrites \in Nat

VARIABLES
    file,       \* file[k]: contents of the data / history log
    tail,       \* tail[k]: b->data_offset / b->history_offset
    index,      \* the dnet_hash: (id, kind) -> [offset, size] or None
    th,         \* per-thread command state (locals of the handlers)
    \* observation (ghost) variables
    nextVer,    \* versions handed out so far
    dataVers,   \* dataVers[id]: the versions a READ of id may return
    ackedHist,  \* ackedHist[id]: history entries of acknowledged writes
    lastRead,   \* lastRead[t]: what thread t's last READ returned
    failures,
    restarts,
    ondisk      \* ondisk[k]: length of the log prefix known to be on disk

vars == <<file, tail, index, th, nextVer, dataVers, ackedHist, lastRead,
          failures, restarts, ondisk>>

LogKinds == {"data", "history"}
HdrSize == 1
IndexKeys == (Ids \cup {ZeroId}) \X LogKinds

BSize(k) == IF k = "data" THEN DataBSize ELSE HistoryBSize

(* Cells.  All cells have the same fields so that they compare.  A zero   *)
(* padding cell is, read as a header, the header of an empty live record   *)
(* of the all-zero id.                                                     *)
DiskControl(id, size) ==
    [kind |-> "hdr", id |-> id, removed |-> FALSE, size |-> size, val |-> 0]
PayCell(v) == [kind |-> "pay", id |-> ZeroId, removed |-> FALSE, size |-> 0, val |-> v]
PadCell == [kind |-> "pad", id |-> ZeroId, removed |-> FALSE, size |-> 0, val |-> 0]

Cell == [kind : {"hdr", "pay", "pad"}, id : Ids \cup {ZeroId},
         removed : BOOLEAN, size : Nat, val : Nat]

RamControl == [offset : Nat, size : Nat]

IdleThread == [pc |-> "idle", id |-> None, entry |-> 0, buf |-> <<>>]

(* pwrite of cells at byte offset off: overwrites or extends the file.    *)
WriteAt(f, off, cells) ==
    LET n == IF off + Len(cells) > Len(f) THEN off + Len(cells) ELSE Len(f)
    IN [i \in 1..n |-> IF off < i /\ i <= off + Len(cells)
                         THEN cells[i - off] ELSE f[i]]

(* Mutant: padding computed from the payload length alone, header left   *)
(* out.                                                                    *)
PadLenPayloadOnly(len, b) ==
    IF b = 0 THEN 0
    ELSE LET size == b - ((len - HdrSize) % b) IN IF size < b THEN size ELSE 0

(* Zero padding after a record of len cells: the loop in blob_write_raw   *)
(* pads by bsize - (len % bsize) unless that is a whole block.            *)
PadLen(len, b) ==
    IF b = 0 THEN 0
    ELSE LET size == b - (len % b) IN IF size < b THEN size ELSE 0

Record(id, payload, b) ==
    <<DiskControl(id, Len(payload))>> \o payload
        \o [i \in 1..PadLen(HdrSize + Len(payload), b) |-> PadCell]

(* Mutant: blob_write_raw that forgets to advance the tail.              *)
BlobWriteRawNoAdvance(k, id, payload) ==
    LET rec == Record(id, payload, BSize(k))
    IN /\ file' = [file EXCEPT ![k] = WriteAt(@, tail[k], rec)]
       /\ index' = [index EXCEPT ![<<id, k>>] =
                        [offset |-> tail[k], size |-> Len(rec)]]
       /\ UNCHANGED tail

(* Mutant: ctl.size taken as the end offset instead of offset - ctl.offset *)
BlobWriteRawAbsSize(k, id, payload) ==
    LET rec == Record(id, payload, BSize(k))
    IN /\ file' = [file EXCEPT ![k] = WriteAt(@, tail[k], rec)]
       /\ index' = [index EXCEPT ![<<id, k>>] =
                        [offset |-> tail[k], size |-> tail[k] + Len(rec)]]
       /\ tail' = [tail EXCEPT ![k] = @ + (@ + Len(rec))]

(* blob_write_raw, all of it under b->lock: header, payload and padding   *)
(* at the tail, then dnet_hash_replace, then the tail advance.            *)
BlobWriteRaw(k, id, payload) ==
    LET rec == Record(id, payload, BSize(k))
    IN /\ file' = [file EXCEPT ![k] = WriteAt(@, tail[k], rec)]
       /\ index' = [index EXCEPT ![<<id, k>>] =
                        [offset |-> tail[k], size |-> Len(rec)]]
       /\ tail' = [tail EXCEPT ![k] = @ + Len(rec)]

(* blob_write_raw failing: a pwrite error after n cells of the record     *)
(* reached the file (n = whole record: dnet_hash_replace failed).  The    *)
(* index and the tail are left alone.                                     *)
BlobWriteRawFails(k, id, payload) ==
    LET rec == Record(id, payload, BSize(k))
    IN /\ failures < MaxFailures
       /\ \E n \in 0..Len(rec) :
            file' = [file EXCEPT ![k] = WriteAt(@, tail[k], SubSeq(rec, 1, n))]
       /\ failures' = failures + 1
       /\ UNCHANGED <<index, tail>>

(* The history key of blob_write_history_meta: id plus kind byte 1.       *)
HistKey(id) == <<id, "history">>

(* Mutant: the old entries copied one short (memmove length off by one).  *)
OldEntriesShort(f, off) == SubSeq(f, off + HdrSize + 1, off + f[off + 1].size)

(* blob_write_history_meta: the old blob's payload, dc->size bytes after  *)
(* the header read back from the file at the indexed offset.              *)
OldEntries(f, off) ==
    SubSeq(f, off + HdrSize + 1, off + HdrSize + f[off + 1].size)

(* blob_read: where the requested bytes start in the file.                *)
ReadOffset(ctl, ioOff) == ctl.offset + HdrSize + ioOff

(* Mutant: the tail set to 0 at open instead of to the end of the file.   *)
StartTailZero(f) == 0

(* dnet_blob_set_data: the tail is lseek(fd, 0, SEEK_END).                *)
StartTail(f) == Len(f)

(* backend_process_meta (outside src/): the new history blob is the old   *)
(* one with the new entry added.                                          *)
ProcessMeta(old, entry) == Append(old, entry)

Init ==
    /\ file = [k \in LogKinds |-> <<>>]
    /\ tail = [k \in LogKinds |-> 0]
    /\ index = [key \in IndexKeys |-> None]
    /\ th = [t \in Threads |-> IdleThread]
    /\ nextVer = 0
    /\ dataVers = [id \in Ids |-> {}]
    /\ ackedHist = [id \in Ids |-> {}]
    /\ lastRead = [t \in Threads |-> None]
    /\ failures = 0
    /\ restarts = 0
    /\ ondisk = [k \in LogKinds |-> 0]

(***************************************************************************)
(* WRITE of data (blob_write without DNET_IO_FLAGS_HISTORY): append the    *)
(* data record; unless NO_HISTORY_UPDATE, go on to append a history entry  *)
(* for it through blob_write_history.                                      *)
(***************************************************************************)
WriteData(t) ==
    /\ th[t].pc = "idle"
    /\ nextVer < MaxWrites
    /\ \E id \in Ids, sz \in DataSizes, noHistoryUpdate \in BOOLEAN :
         LET v == nextVer + 1
             payload == [i \in 1..sz |-> PayCell(v)]
         IN /\ nextVer' = v
            /\ \/ /\ BlobWriteRaw("data", id, payload)
                  /\ dataVers' = [dataVers EXCEPT ![id] = {v}]
                  /\ th' = IF noHistoryUpdate THEN th
                           ELSE [th EXCEPT ![t] = [pc |-> "hist_mark", id |-> id,
                                                   entry |-> v, buf |-> <<>>]]
                  /\ UNCHANGED failures
               \/ /\ BlobWriteRawFails("data", id, payload)
                  \* an error went back, but if the whole record reached the
                  \* file a later start-up may index it over the last good one
                  /\ dataVers' = [dataVers EXCEPT ![id] =
                        IF @ # {} /\ file'["data"] = WriteAt(file["data"], tail["data"],
                                                   Record(id, payload, DataBSize))
                        THEN @ \cup {v} ELSE @]
                  /\ UNCHANGED th
    /\ UNCHANGED <<ackedHist, lastRead, restarts, ondisk>>

(* WRITE with DNET_IO_FLAGS_HISTORY: the client's blob goes straight to   *)
(* blob_write_history.                                                    *)
WriteHistory(t) ==
    /\ th[t].pc = "idle"
    /\ nextVer < MaxWrites
    /\ \E id \in Ids :
         /\ nextVer' = nextVer + 1
         /\ th' = [th EXCEPT ![t] = [pc |-> "hist_mark", id |-> id,
                                     entry |-> nextVer + 1, buf |-> <<>>]]
    /\ UNCHANGED <<file, tail, index, dataVers, ackedHist, lastRead,
                   failures, restarts, ondisk>>

(***************************************************************************)
(* blob_write_history_meta, first half, done without b->lock: look the     *)
(* history key up; if present, pread the old blob and pwrite its header    *)
(* back with BLOB_DISK_CTL_REMOVE set, keeping its payload (the entries).  *)
(***************************************************************************)
HistLookupMiss(t) ==
    /\ th[t].pc = "hist_mark"
    /\ index[HistKey(th[t].id)] = None
    /\ \/ /\ th' = [th EXCEPT ![t].pc = "hist_append", ![t].buf = <<>>]
          /\ UNCHANGED failures
       \/ \* malloc fails: -ENOMEM goes back
          /\ failures < MaxFailures
          /\ th' = [th EXCEPT ![t] = IdleThread]
          /\ failures' = failures + 1
    /\ UNCHANGED <<file, tail, index, nextVer, dataVers, ackedHist, lastRead,
                   restarts, ondisk>>

(* A failed step of blob_write_history_meta returns err = -errno (lines   *)
(* 207, 222, 243).  After a short pread or pwrite, a pwrite that wrote    *)
(* nothing, or a dnet_hash_replace failure, errno is whatever it held:    *)
(* when 0 the command is acknowledged although no entry was appended.     *)
AckIfErrnoZero(t) ==
    \E errnoIsZero \in BOOLEAN :
        ackedHist' = IF errnoIsZero
                     THEN [ackedHist EXCEPT ![th[t].id] = @ \cup {th[t].entry}]
                     ELSE ackedHist

HistReadMark(t) ==
    /\ th[t].pc = "hist_mark"
    /\ index[HistKey(th[t].id)] # None
    /\ LET ctl == index[HistKey(th[t].id)]
           old == OldEntries(file["history"], ctl.offset)
           marked == [file EXCEPT !["history"][ctl.offset + 1].removed = TRUE]
       IN \/ /\ file' = marked
             /\ th' = [th EXCEPT ![t].pc = "hist_append", ![t].buf = old]
             /\ UNCHANGED failures
             /\ UNCHANGED ackedHist
          \/ \* malloc (-ENOMEM) or pread fails, or the header pwrite
             \* fails (short or not): err is -errno
             /\ failures < MaxFailures
             /\ file' \in {file, marked}
             /\ AckIfErrnoZero(t)
             /\ th' = [th EXCEPT ![t] = IdleThread]
             /\ failures' = failures + 1
    /\ UNCHANGED <<tail, index, nextVer, dataVers, lastRead,
                   restarts, ondisk>>

(* blob_write_history_meta, second half: backend_process_meta adds the    *)
(* entry and blob_write_raw appends the new blob to the history log.      *)
HistAppend(t) ==
    /\ th[t].pc = "hist_append"
    /\ LET id == th[t].id
           new == ProcessMeta(th[t].buf, PayCell(th[t].entry))
       IN \/ /\ BlobWriteRaw("history", id, new)
             /\ ackedHist' = [ackedHist EXCEPT ![id] = @ \cup {th[t].entry}]
             /\ UNCHANGED failures
          \/ /\ BlobWriteRawFails("history", id, new)
             /\ AckIfErrnoZero(t)
    /\ th' = [th EXCEPT ![t] = IdleThread]
    /\ UNCHANGED <<nextVer, dataVers, lastRead, restarts, ondisk>>

(***************************************************************************)
(* READ (blob_read): look the key up and read from                         *)
(* ctl.offset + header + io->offset, io->size cells or, when io->size is   *)
(* 0, ctl.size - header cells.  There is no bounds check.  A read of 0     *)
(* bytes makes pread return 0 and the handler return -errno, whatever      *)
(* errno holds.  lastRead records what came back next to what the spec's   *)
(* READ returns: the requested bytes of the record's payload, or INVALID.  *)
(***************************************************************************)
BlobRead(t) ==
    /\ th[t].pc = "idle"
    /\ \E id \in Ids, k \in LogKinds, ioOff \in ReadOffsets, ioSize \in ReadSizes :
         LET ctl == index[<<id, k>>]
             f == file[k]
             size == IF ioSize = 0 THEN ctl.size - HdrSize ELSE ioSize
             offset == ReadOffset(ctl, ioOff)
             last == IF offset + size > Len(f) THEN Len(f) ELSE offset + size
             got == SubSeq(f, offset + 1, last)
             dc == f[ctl.offset + 1]
             payload == SubSeq(f, ctl.offset + 2, ctl.offset + 1 + dc.size)
             valid == ioOff + ioSize <= dc.size
             want == IF ~valid THEN <<>>
                     ELSE IF ioSize = 0 THEN SubSeq(payload, ioOff + 1, Len(payload))
                     ELSE SubSeq(payload, ioOff + 1, ioOff + ioSize)
         IN \/ /\ ctl = None
               /\ lastRead' = [lastRead EXCEPT ![t] = None]
            \/ /\ ctl # None
               /\ got # <<>>
               /\ lastRead' = [lastRead EXCEPT ![t] =
                      [valid |-> valid, got |-> got, want |-> want]]
            \/ /\ ctl # None
               /\ got = <<>>
               /\ \E errnoIsZero \in BOOLEAN :
                    lastRead' = [lastRead EXCEPT ![t] =
                        IF errnoIsZero
                        THEN [valid |-> valid, got |-> got, want |-> want]
                        ELSE None]
    /\ UNCHANGED <<file, tail, index, th, nextVer, dataVers, ackedHist,
                   failures, restarts, ondisk>>

(***************************************************************************)
(* Start-up.  dnet_blob_set_data opens each log and sets its tail to       *)
(* lseek(fd, 0, SEEK_END); dnet_blob_config_init then runs blob_iterate    *)
(* over the data log and then the history log, calling dnet_blob_iter on   *)
(* every header.  blob_iterate is outside src/ and follows the spec: read  *)
(* a header; stop if its size runs past the end of the file; else skip a   *)
(* REMOVED record or index a live one, and go on past header, payload and  *)
(* padding.  A payload cell read as a header holds whatever the user       *)
(* wrote; it is taken to decode to a size past the end, which stops the    *)
(* scan.                                                                   *)
(***************************************************************************)

(* Mutant: dnet_blob_iter sizing the entry without its header.           *)
BlobIterNoHeader(idx, dc, pos, k) ==
    IF dc.removed THEN idx
    ELSE [idx EXCEPT ![<<dc.id, k>>] = [offset |-> pos, size |-> dc.size]]

(* dnet_blob_iter: index a live record at position pos, sized header plus *)
(* payload.                                                               *)
BlobIter(idx, dc, pos, k) ==
    IF dc.removed THEN idx
    ELSE [idx EXCEPT ![<<dc.id, k>>] = [offset |-> pos, size |-> dc.size + HdrSize]]

RECURSIVE ScanLog(_, _, _, _)
ScanLog(f, k, pos, idx) ==
    IF pos + HdrSize > Len(f) THEN idx
    ELSE LET dc == f[pos + 1]
         IN IF dc.kind = "pay" \/ pos + HdrSize + dc.size > Len(f) THEN idx
            ELSE ScanLog(f, k,
                         pos + HdrSize + dc.size + PadLen(HdrSize + dc.size, BSize(k)),
                         BlobIter(idx, dc, pos, k))

(* dnet_blob_config_init after dnet_blob_set_data, on the files f as     *)
(* they read when the backend starts.  Commands in flight are gone.       *)
ConfigInit(f) ==
    /\ restarts < MaxRestarts
    /\ file' = f
    /\ tail' = [k \in LogKinds |-> StartTail(f[k])]
    /\ index' = ScanLog(f["history"], "history", 0,
                        ScanLog(f["data"], "data", 0,
                                [key \in IndexKeys |-> None]))
    /\ th' = [t \in Threads |-> IdleThread]
    /\ lastRead' = [t \in Threads |-> None]
    /\ restarts' = restarts + 1
    /\ UNCHANGED <<nextVer, dataVers, ackedHist, failures>>

(* Stop with no command in flight (dnet_blob_config_cleanup) and start.   *)
Shutdown ==
    /\ \A t \in Threads : th[t].pc = "idle"
    /\ ConfigInit(file)
    /\ UNCHANGED ondisk

(* The process dies while a command is between two of its steps; what it *)
(* wrote is in the page cache and the next start reads it.                *)
Crash ==
    /\ Crashes
    /\ \E t \in Threads : th[t].pc # "idle"
    /\ ConfigInit(file)
    /\ UNCHANGED ondisk

(* What log k may read as after a power loss.  Nothing calls fsync (the   *)
(* "sync" option is parsed and unused), so of the cells written since the *)
(* last power loss any may have been written back or not, in any order,  *)
(* and the file size may have reached any length in between: a cell not  *)
(* written back reads as zeros.  The tombstones pwritten into the durable *)
(* prefix are kept.                                                      *)
DiskImages(k) ==
    { [i \in 1..n |-> IF i <= ondisk[k] \/ i \in kept THEN file[k][i] ELSE PadCell] :
        n \in ondisk[k]..Len(file[k]),
        kept \in SUBSET (ondisk[k] + 1..Len(file[k])) }

(* The machine loses power, with or without commands in flight, and the   *)
(* backend starts on what reached the disk.                               *)
PowerLoss ==
    /\ PowerLosses
    /\ \E d \in DiskImages("data"), h \in DiskImages("history") :
         LET img == [k \in LogKinds |-> IF k = "data" THEN d ELSE h]
         IN /\ ConfigInit(img)
            /\ ondisk' = [k \in LogKinds |-> Len(img[k])]

Next ==
    \/ \E t \in Threads :
         \/ WriteData(t)
         \/ WriteHistory(t)
         \/ HistLookupMiss(t)
         \/ HistReadMark(t)
         \/ HistAppend(t)
         \/ BlobRead(t)
    \/ Shutdown
    \/ Crash
    \/ PowerLoss

Spec == Init /\ [][Next]_vars

(***************************************************************************)
(* Properties                                                              *)
(***************************************************************************)

TypeOK ==
    /\ file \in [LogKinds -> Seq(Cell)]
    /\ tail \in [LogKinds -> Nat]
    /\ \A k \in LogKinds : tail[k] <= Len(file[k])
    /\ index \in [IndexKeys -> RamControl \cup {None}]
    /\ \A t \in Threads :
         /\ th[t].pc \in {"idle", "hist_mark", "hist_append"}
         /\ th[t].id \in Ids \cup {None}
         /\ th[t].buf \in Seq(Cell)
    /\ nextVer \in 0..MaxWrites
    /\ dataVers \in [Ids -> SUBSET (1..MaxWrites)]
    /\ ackedHist \in [Ids -> SUBSET (1..MaxWrites)]
    /\ failures \in 0..MaxFailures
    /\ restarts \in 0..MaxRestarts
    /\ \A k \in LogKinds : ondisk[k] <= Len(file[k])

(* The live record of key <<id, k>> at offset off: its header and payload, *)
(* when the cells there form one.                                          *)
LiveRecordAt(k, id, off) ==
    /\ off + HdrSize <= Len(file[k])
    /\ file[k][off + 1].kind = "hdr"
    /\ file[k][off + 1].id = id
    /\ off + HdrSize + file[k][off + 1].size <= Len(file[k])

PayloadAt(k, off) ==
    SubSeq(file[k], off + HdrSize + 1, off + HdrSize + file[k][off + 1].size)

(* Spec P1/P4/P5 and durability across restarts: for every id with a     *)
(* successful data write, the index points at a record of that id whose    *)
(* payload is the last such write's (or a later failed write's whose bytes *)
(* all reached the file), in this run and after any restart.  Breaks if a  *)
(* record below the tail is overwritten or the scan at start-up misses or  *)
(* misplaces a record.                                                     *)
DataIndexCurrent ==
    \A id \in Ids : dataVers[id] # {} =>
        LET ctl == index[<<id, "data">>]
        IN /\ ctl # None
           /\ LiveRecordAt("data", id, ctl.offset)
           /\ ~file["data"][ctl.offset + 1].removed
           /\ \E v \in dataVers[id] :
                \A i \in DOMAIN PayloadAt("data", ctl.offset) :
                    PayloadAt("data", ctl.offset)[i] = PayCell(v)

(* Spec P2: with a block size B, every log tail is a multiple of B.  The   *)
(* padding in blob_write_raw is computed from the record's own length, so  *)
(* this rests on every record starting at an aligned tail.                 *)
TailAligned ==
    \A k \in LogKinds : BSize(k) > 0 => tail[k] % BSize(k) = 0

(* Every acknowledged history entry of id is in the history blob that the  *)
(* index points at: blob_write_history_meta reads the old blob, tombstones *)
(* it and appends old + new, without holding b->lock across the three,     *)
(* and acknowledges a failed step whose errno is 0.                        *)
HistoryComplete ==
    \A id \in Ids : ackedHist[id] # {} =>
        LET ctl == index[<<id, "history">>]
        IN /\ ctl # None
           /\ LiveRecordAt("history", id, ctl.offset)
           /\ ackedHist[id] \subseteq {PayloadAt("history", ctl.offset)[i].val :
                                        i \in DOMAIN PayloadAt("history", ctl.offset)}

(* Spec 4.3 READ bounds and P4: a READ that succeeds asked for bytes       *)
(* inside the record's payload and got exactly those bytes.                *)
ReadReturnsRequestedBytes ==
    \A t \in Threads : lastRead[t] # None =>
        lastRead[t].valid /\ lastRead[t].got = lastRead[t].want

(* Whatever a start-up indexes as data of an id is bytes a data WRITE     *)
(* put there: every payload cell of the record the index points at was    *)
(* written as payload, none is a zero-filled block.  Losing the newest    *)
(* writes is not excluded, serving a header whose payload never reached   *)
(* the disk is.  The scan at start-up (blob_iterate, dnet_blob_iter)      *)
(* trusts any header whose size fits in the file.                        *)
IndexedPayloadWritten ==
    \A id \in Ids :
        LET ctl == index[<<id, "data">>]
        IN ctl # None /\ LiveRecordAt("data", id, ctl.offset) =>
             \A i \in DOMAIN PayloadAt("data", ctl.offset) :
                 PayloadAt("data", ctl.offset)[i].kind = "pay"

(* Between two start-ups the logs are append-only where the index looks: *)
(* no step writes over a cell of a record the index points at, other than *)
(* the REMOVED flag of a history tombstone.  It rests on the tail that    *)
(* dnet_blob_set_data takes from the end of the file lying past every    *)
(* record the start-up scan indexed, whatever a crash or a power loss    *)
(* left at the end of the file.                                          *)
Unflagged(c) == [c EXCEPT !.removed = FALSE]

IndexedRecordsStay ==
    [][restarts' = restarts =>
        \A key \in IndexKeys : index[key] # None =>
            LET k == key[2]
                cells == index[key].offset + 1 .. index[key].offset + index[key].size
            IN \A i \in cells \cap DOMAIN file[k] :
                   i \in DOMAIN file'[k] /\ Unflagged(file'[k][i]) = Unflagged(file[k][i])
      ]_vars

(* Spec P3: a clean restart rebuilds exactly the index the backend had     *)
(* when it stopped.                                                        *)
RebuildPreservesIndex == [][Shutdown => index' = index]_vars

=============================================================================
