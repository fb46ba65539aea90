# TLA+ models of elliptics (blob backend, cache, recovery)

This directory holds TLA+ models of the code under `src/`, the TLC configurations that check them, and `PROJECT.json`. `PROJECT.json` lists the components, the runs, the mutants, the map from every definition to the source lines it models, the findings and the hazards.

## 1. Inventory

### Components

| Component | Source | State | Operations | Status |
|---|---|---|---|---|
| Blob backend | `src/example/blob/backend.c` | two log files (data, history), a tail offset per log (`data_offset`, `history_offset`), the hash index `(id, kind) -> (offset, on-disk size)`, one mutex `b->lock`, block sizes | WRITE data (`blob_write` → `blob_write_raw`, then `blob_write_history`), WRITE history, the history update (`blob_write_history_meta`), READ (`blob_read`), DEL/LIST/STAT (return codes only), start-up (`dnet_blob_set_data`, `dnet_blob_config_init`, `dnet_blob_iter`), shutdown (`dnet_blob_config_cleanup`) | modelled: `BlobBackend` |
| Cache | `src/cache/cache.cpp` | `unordered_map id -> shared_ptr<raw_data>` under one `boost::mutex` | `write`, `read` (returns a reference), `remove`; `dnet_cmd_cache_io` dispatches WRITE/READ/DEL | modelled: `Cache` |
| Recovery driver | `src/recovery/dnet_recovery` | the tmp dir, the lock fd, the context | parse the options, create the tmp dir and `chdir` into it, take `flock(LOCK_EX\|LOCK_NB)` on `<tmp>/<lock>`, validate, start the monitor, `cleanup` the scratch files, parse routes, run `merge` or `dc`, exit with `int(not result)` | modelled: `RecoveryDriver` |
| Recovery coordinators, worker pool, monitor | not under `src/` (spec §4.4–4.6); called from `src/recovery/dnet_recovery` lines 278–284 | the nodes' stores, per-unit state `PENDING → ITERATING → DIFFING → TRANSFERRING → DONE/FAILED`, streams, diff, batch cursor, counters | plan, iterate, diff, transfer, join | partly, from the spec: `RecoveryDiff`, `RecoveryWorkers`, abstract spec `RecoveryStore` (monitor and route planning not modelled) |
| Python bindings build | `src/bindings/CMakeLists.txt`, `src/unnamed/part_000` | none | none | not modelled (build only) |

### How the parts interact

- The transport runs one thread per inbound command and calls `blob_backend_command_handler`. Threads share the log files, the tails and the index. Only `blob_write_raw` takes `b->lock`. It covers the append to one log, the index update and the tail advance. Everything else runs unlocked, including the lookup, read and tombstone of the old history blob in `blob_write_history_meta`.
- A data WRITE makes two appends: the data record, then the history blob of the id with one more entry. The two appends are not atomic together.
- At start-up `dnet_blob_set_data` sets each tail to the file's end. `blob_iterate` (outside `src/`) then scans each log and calls `dnet_blob_iter`, which indexes every live record.
- The recovery driver talks to the ring through iterator and bulk RPCs (outside `src/`). Concurrent invocations coordinate only through the lock file and the scratch files in the tmp dir.

### What is hard

- Interleavings of transport threads. Appends are serialised, but the history read-modify-write is not.
- Crashes and restarts: torn records, tombstones written before their replacements, and the start-up scan.
- Partial failure of one of several writes: header, payload, padding, hash insert, and the data+history pair.
- Numeric edges: block padding, lengths derived from `ctl.size`, reads at or past the end of a record.
- For the cache: a reference used after the mutex is released.
- For recovery: lock and cleanup ordering across concurrent invocations, and per-unit failure without aborting siblings.

### Properties that make each part correct

- Blob backend:
  - every successful data write stays readable through the index, in this run and after restarts (spec P1, P4, P5);
  - tails stay block-aligned (spec P2);
  - a clean restart rebuilds the same index (spec P3);
  - acknowledged history entries are never lost (broken four ways: section 3);
  - a READ returns exactly the requested bytes, or INVALID (broken: section 3).
- Cache:
  - a READ never touches freed memory (broken: section 4);
  - the bytes sent lie inside the cached buffer (found broken by reading the code; see section 4).
- Recovery driver:
  - no invocation's cleanup removes the scratch files of a running one.
- Coordinators (from the spec):
  - a dry run transfers nothing (P8), and a real one copies only newest versions and deletes only what another node keeps;
  - a second run after one that ended ok finds nothing to transfer (spec 8).

## 2. Plan

1. **`BlobBackend` (done).** The core: threads, logs, index, history update, READ, crash and clean restart, I/O failures. MC module `MC_BlobBackend`.
2. **`Cache` (done).** `cache_t` and `dnet_cmd_cache_io` with several threads. READ is split at the unlock so that a concurrent `write`/`remove` can hit the copied reference (modelled as a nondeterministic outcome, since it is a data race).Also the offset check. The DEL return code `-ENOTSUP` turned out to be the fall-through to the backend, not an error.
3. **`RecoveryDriver` (done).** Several invocations of `dnet_recovery`, each `merge` or `dc`, with a tmp dir and a lock option. The steps run in the script's order: mkdir/chdir, flock, validation, monitor, cleanup, route parse, `main`, exit. Scratch files are created by `main`. Invocations can be killed, and `flock` is released on exit. Property: cleanup never removes a live invocation's files.
4. **Recovery from the spec (`spec_modelled`, done: section 6).**
   - `MergeDiff`: a RECURSIVE merge of two id-sorted streams.
   - `DcDiff`: a k-way winner selection by `(ts, size, -addr)`.
   - `RecoveryWorkers`: units distributed once to `nprocess` workers, the per-unit state machine, transient RPC failures, dry-run and safe mode. The abstract spec `RecoveryStore` ("copy only newest versions, delete only what another node keeps, change nothing when dry, close each unit once") is implemented by it through a refinement mapping.
5. **`BlobBackend` extensions.** A power-loss model for the missing `fsync` (done: `PowerLoss`, see section 3). Blob records as the source of a recovery iterator stream is not modelled. The iterator RPC that would read the blob's index lives outside `src/`, so the composition would join two models through code neither translates (see section 7).

## 3. `BlobBackend`: how the model maps to the code

- **Files.** A file is a sequence of cells. A record is one header cell (`blob_disk_control`: id, REMOVED flag, payload size), then its payload cells, then zero padding cells. The header is one cell (`HdrSize`). A payload cell carries a version: every WRITE gets a fresh one, and a history entry is the version it records. This data abstraction keeps every length, offset and alignment computation of the code, in cells instead of bytes.
- **Variables.** `file[k]`, `tail[k]` and `index` are the fields of `struct blob_backend`. `th[t]` holds the locals of the command a thread is running, and its `pc` marks the unlocked points of `blob_write_history_meta`.
- **Ghost variables.** `dataVers`, `ackedHist` and `lastRead` record what clients were told and what they read. `failures` and `restarts` are bounds counters.
- **Actions.** Each action is one command or one unlocked step of a command:
  - `WriteData` is `blob_write` with the whole locked `blob_write_raw`. It either succeeds, or fails after any prefix of the record reached the file (`BlobWriteRawFails`: a pwrite error, or a `dnet_hash_replace` failure after the full record).
  - `WriteHistory` is a WRITE with `DNET_IO_FLAGS_HISTORY`.
  - `HistLookupMiss` and `HistReadMark` are the lookup, malloc, pread and tombstone pwrite, with their error exits.
  - `HistAppend` is `backend_process_meta` plus the locked append.
  - A failed step of the history update returns `err = -errno` (lines 207, 222, 243). errno is set only when a call returned -1; after a short pread or pwrite, a pwrite that wrote nothing (which `blob_write_low_level` turns into -EINVAL without setting errno) or a `dnet_hash_replace` failure, it holds whatever it held. `AckIfErrnoZero` lets it be 0, and the command is then acknowledged.
  - `BlobRead` covers both reply paths. There is no bounds check, and a 0-byte pread returns `-errno`, which may be 0.
  - `Init` is the backend after its first start on new, empty logs: tails 0 and a fresh `dnet_hash`.
  - `ConfigInit(f)`, on the file contents `f` the backend starts on, sets the tails from `lseek(SEEK_END)` and runs the scan (`ScanLog`, with `BlobIter` = `dnet_blob_iter`). The open and lseek failures of `dnet_blob_set_data` are left out: after either, `r->datafd` or `r->historyfd` stays unset and `dnet_blob_config_init` refuses to start (line 564), so no command runs on a wrong tail.
  - `Shutdown` is a clean stop and start. `Crash` kills the process between two steps of in-flight commands. Both start on the files as they are in the page cache.
  - `PowerLoss` starts on what reached the disk. `PowerLoss` and `DiskImages` model the kernel and the disk, not code of this repository, and are not in the map (as `Crash` is not). The `sync` option (`dnet_blob_set_sync`) is stored and never read, so no pwrite is followed by `fsync`. `ondisk[k]` is the length of the log known to be on disk: 0 at first, and the surviving length after each power loss. `DiskImages(k)` is every way the tail past `ondisk[k]` can survive. The file ends at any length in between, and each cell of that tail was either written back or reads as zeros (`PadCell`). Tombstones pwritten into the durable prefix are kept, which leaves out only the resurrection of an old history blob that the later one shadows in the scan anyway.
- **The scan.** `blob_iterate` is outside `src/`, so `ScanLog` follows spec §4.2. A payload cell read as a header is taken to decode to an oversize length, which stops the scan. A zero padding cell decodes, exactly as zero bytes do, to an empty live record of the all-zero id (`ZeroId`).
- **Left out.** DEL (returns -1), LIST (`-ENOTSUP`), STAT and unknown commands change no state and are left out. So are the log messages, `posix_fadvise`, and the hash table's size and flags.
- **A crash inside `blob_write_raw`** tears the record between its pwrites. On disk this is the same as the failure outcome followed by a restart, so torn records come from `BlobWriteRawFails` plus `Shutdown`/`Crash`.

### Runs

| Run | Expect | Bounds | What it shows |
|---|---|---|---|
| `blob_concurrent` | pass | 2 threads, 2 ids, payloads of 1–2 cells, data block 2, history block 3, 3 writes, 1 failure, no restart | Concurrent appends and failed appends never disturb an indexed record (`DataIndexCurrent`), and both tails stay aligned (`TailAligned`). About 277k states, 40 s. |
| `blob_restart` | pass | 2 threads, 2 ids, 3 writes, no I/O failure, 2 restarts, crashes with commands in flight, no alignment | Successful writes survive crashes and clean restarts (`DataIndexCurrent`). A clean restart rebuilds the index it stopped with (`RebuildPreservesIndex`). |
| `blob_history_failures` | violation | 1 thread, 1 id, 2 writes, 1 failure | Finding: a failed history append whose errno is 0 is acknowledged, and the id has an acknowledged entry and no history record (`HistoryComplete`). |
| `blob_read_bounds` | violation | 1 thread, 2 ids, payloads of 1–2 cells, data block 2, READ offsets and sizes 0–2 | Finding: a READ past the end of its record is not refused with INVALID (`ReadReturnsRequestedBytes`, spec 4.3). |
| `blob_torn_tail` | violation | 1 thread, 1 failure, 2 restarts | Finding: start-up takes the tail from the file's end, past a torn record, and a later acknowledged write is lost. |
| `blob_history_race` | violation | 2 threads, 1 id | Finding: the unlocked history read-modify-write loses entries. |
| `blob_history_crash` | violation | 1 thread, 1 crash | Finding: tombstone-before-append loses the id's whole history across a crash. |
| `blob_power_loss` | pass | 1 thread, 2 ids, 2 writes, 1 failure, 2 power losses, no alignment, READs at offsets 0 and 2 | Whatever a power loss leaves, no later write overwrites a record the rebuilt index points at (`IndexedRecordsStay`). About 148k states, 30 s. |
| `blob_power_payload` | violation | 1 thread, 1 id, 1 power loss | Finding: after a power loss the scan indexes a header whose payload never reached the disk, so READs return zeros (`IndexedPayloadWritten`). |

**Why the bounds are enough.**
- Two threads are enough for every race in the code. Only one lock exists and the history race needs exactly two writers.
- Two ids separate per-key state from shared tails.
- Three writes let one id be overwritten and still leave a write for the other id, or for a history update after a failure.
- Payload sizes 1 and 2 with block sizes 2, 3 and 4 produce records that need padding and records that need none.
- One failure plus two restarts is the shortest path to the torn-tail loss. Every violation trace is 3–8 steps long.
- `HistoryComplete` holds in no passing run: with two threads the race breaks it, with a crash the tombstone breaks it, and with one failure an errno of 0 breaks it. Without any of the three it would hold by the shape of the model, so it is checked only in the three violation runs.
- Two power losses let a second loss cut into what the first one left, after new appends. Three writes with power losses exceed five minutes, so `blob_power_loss` stops at two.

**Fairness.** No liveness property is checked on the backend, and none in the project (sections 5 and 6 say why). The mutex is never held across steps, so the model cannot deadlock, and deadlock checking stays on.

**Symmetry.** Threads and ids are interchangeable model values. Every property quantifies over all of them, so `MC_BlobBackend` declares their permutations as a symmetry set.

**What the passing runs do not reach.** `BlobWriteRaw` is one step, because `blob_write_raw` holds `b->lock` from reading the tail to advancing it; no property can catch a locking bug there, and `blob_concurrent` checks the unlocked parts around it. `blob_concurrent` has no restart, so a misaligned tail never arises in it: `TailAligned` checks that the padding keeps an aligned tail aligned. `blob_restart` and `blob_power_loss` run unaligned, so they say nothing about padding in `ctl.size` or about alignment after a power loss.

**Mutants.** Each property of a passing run is shown to fail under a plausible bug in the code it is about:
- the tail not advanced after an append;
- `ctl.size` taken as the end offset;
- padding computed from the payload alone;
- the tail set to 0 at open (for `DataIndexCurrent` after a restart, and for `IndexedRecordsStay` after a power loss);
- the rebuilt entry missing the header.

**Reproduced, and kept as hazards.** These disagreements were seen by TLC under bounds no run uses (see PROJECT.json):
- The index rebuilt at start-up sizes records without padding (line 540). `RebuildPreservesIndex` (spec P3) fails with data block 4 and one clean restart. On an aligned log a whole-record READ also returns the payload followed by its padding, because `ctl.size` includes it (line 151); `blob_read_bounds` runs on an aligned log, so `ReadReturnsRequestedBytes` is violated that way too.
- After a power loss the log may end mid-block, so the tail from `lseek` is unaligned. `TailAligned` (spec P2) fails with the `blob_power_loss` bounds and data block 2.

## 4. `Cache`: how the model maps to the code

- **State.** `hmap[k]` is the slot of the node for key `k` in `m_hmap`. It holds `None` when there is no node and `Null` for a node holding an empty `shared_ptr`. `nodeGen[k]` counts the insertions of a node for `k`, so that an erased and re-inserted node is told apart from the one a reader found. Objects `1..MaxObjs` are the `raw_data_t` allocations, with their size, their use count (`refs`) and whether they are `freed`. `objKey` is the id each was written for. `cacheOn` is the outcome of `dnet_cache_init`.
- **Actions.** Each method of `cache_t` runs whole under `m_lock`, so `CacheWrite` and `CacheRemove` are single actions. `CacheWrite` includes the `bad_alloc` path: -ENOENT, possibly after `operator[]` inserted a node, since the evaluation order is unspecified before C++17.
- **The READ path.** The lock is released when `cache_t::read` returns its reference, so a READ takes four steps:
  - `CacheReadFind`: the locked find, where a miss gives -ENOENT;
  - `CacheReadCopy`: the unlocked load of the slot's pointer;
  - `CacheReadIncref`: the increment of the loaded object's use count;
  - `CacheReadReply`: the bounds check in `IoWidth`-bit arithmetic, the send of `d->size()` bytes from `io->offset`, and the release of `d`.

  A load through an erased node, or an increment on a freed object, is undefined behaviour. The thread goes on with `Garbage`.
- **Early returns.** `CacheDisabled` is the -ENOTSUP return when `n->cache` is NULL. DEL keeps `err = -ENOTSUP` after erasing, which hands the command on to the backend.
- **Keys.** They are matched by `equal_to` (`KeyEq`), a `memcmp` of the whole id, so two model values are one key exactly when they are equal. The hash only picks the bucket and is left out.
- **Reply.** `reply[t]` keeps the code, object and size a command returned; where the send starts and how long it is are left out (see below).

### Runs

| Run | Expect | Bounds | What it shows |
|---|---|---|---|
| `cache_read_race` | violation | 2 threads, 1 id | Finding: WRITE, READ find, DEL. The READ then copies the `shared_ptr` out of an erased node. A WRITE between the load and the increment frees the object the same way. |

**The READ reply overruns the buffer (line 190).** After checking `io->offset + io->size <= d->size()`, the READ case sets `io->size = d->size()` and sends from `d->data() + io->offset`. For any offset > 0 the reply runs `io->offset` bytes past the buffer, where the check on line 180 and spec 4.3 intend the range `[offset, offset+size)`. The 64-bit wrap of `offset + size` in the check (`ReadOutOfRange`, in `IoWidth`-bit arithmetic) lets an out-of-range READ through. Both are arithmetic on a single request that a unit test with a non-zero offset reaches, so no run is spent on them; they are listed as hazards with that note.

The null slot left by a failed WRITE (one thread, `MaxFailures` 1) breaks `ReadTouchesLiveMemory` too. TLC reproduced it under a small variant of `cache_read_race`, and it is listed as a hazard.

**No passing run.** The cache has no property that holds and is worth a run. With two threads `ReadTouchesLiveMemory` fails because of the race; with one thread and no failure it holds by the shape of the model. That the locked operations implement a key-value map follows from `KeyEq` being equality and each method being one locked step, so it is not checked either.

## 5. `RecoveryDriver`: how the model maps to the code

- **State.** Each invocation of `dnet_recovery` has:
  - its command line `opts`: type, per-type or shared `-D`, `-k`, `-e`, and which option check fails;
  - `pc`, its place in the `__main__` block;
  - `result` and `rc`.

  The shared state is the file system:
  - `dirs`, the tmp dirs that exist;
  - `files`, the scratch files, each owned by the invocation whose `main` wrote it or by a dead earlier run;
  - `holder`, which invocation holds the flock on each dir's lock file.
- **Actions.** One action per step of the script, in its order:
  - `CheckDir` (line 133) and `MakeDirs`: two steps, so that two invocations can both see the dir missing;
  - `OpenLog`: chdir, log handler, log-level check;
  - `Lock`: `flock(LOCK_EX|LOCK_NB)`, which raises on contention;
  - `Validate`: the later option checks;
  - `Cleanup`: the monitor, then `cleanup()`, which removes every prefixed file in the dir (`CleanupSweep`);
  - `ParseRoutes`;
  - `MainWork` and `MainReturn`;
  - `Finish`;
  - `PressEnter` at the `-e` prompt;
  - `Kill`.

  Every failure is an uncaught exception: exit status 1, and the fds close, which drops the flock (`ExitWith`).
- **Spec-modelled parts.** `main` lives in the `elliptics_recovery` package, outside `src/`. Per spec 4.4–4.5, it writes scratch files and then returns or raises. `Kill` follows spec 5: scratch files are left for the next cleanup.
- **Lock names.** `opts.lock` says only whether `-k` is non-empty. Two invocations on one tmp dir with different non-empty `-k` names lock different files and would not exclude each other; that case is not represented.
- **No fairness, no liveness.** `Lock` fails at once on contention (`LOCK_NB`), so no invocation ever waits on another; a property that every invocation ends would only restate that flag. The real waits (the RPC timeouts inside `main`, the operator at the `-e` prompt) are outside the script.

### Run

`driver_lock` (pass). Bounds:
- two invocations, each with any command line that takes a lock, over types {merge, dc}, per-type or shared dir, with or without `-e`, and an option failure before the lock, after it, or none;
- dirs that may already exist, holding stale scratch files from a dead run;
- one kill;
- one scratch file per `main`.

About 741k states, 48 s. Deadlock checking is off: the model stops when both processes have ended, which is the real end of the system.

It checks `CleanupSparesLiveScratch`, an action property: no step removes a scratch file whose owner is alive.

Two invocations are enough: exclusion is pairwise, and a third can only fail on the lock as the second does. Every action fires.

**Mutant.** `LockDropped`: the flock is not kept, as if its fd were closed after `flock` returned. A second invocation then sweeps the first one's files.

**Observed, not turned into a run.**
- With a relative `-D`, the script chdirs into the dir and then joins the same relative path again for the log file (line 143) and the lock file (line 164). Those paths point into `<dir>/<dir>`. The log handler fails, and the script reports "Can't parse log_level". A test with a relative `-D` would show this, so it is not listed as a hazard.
- Two invocations that find the tmp dir missing at the same time both call `makedirs`. The second one aborts with "does not exist and could not be created". This is harmless, because the lock would have stopped it anyway.
- The default dir is per type, so a merge and a dc run hold different locks and run side by side on the same ring. They share no scratch files.

## 6. `RecoveryWorkers`: the coordinators, from the spec

`dnet_recovery` imports `elliptics_recovery.types.merge` or `.dc` and calls `main(ctx)` (lines 278–284). That package is not in this repository, so these modules follow spec 4.4–4.5, 7 and 8, and their map entries are marked `spec_modelled`. `RunDiff` (which diff the run type takes) and `Deletes` (a merge without `-S` deletes) are spec-modelled as well: `dnet_recovery` only dispatches to the package and sets `ctx.safe`.

- **`RecoveryDiff`: the diff algorithms as operators.**
  - `MergeDiff` walks the local and remote id-sorted streams pairwise, as step 3 describes.
  - `DcDiff` walks k streams at once, takes the lowest id at the heads, picks the `Winner` by `Beats` (ts, then size, then lower address), and sends to every `Stale` replica.
  - Both skip a key whose latest timestamp is below the cutoff.
  - They are not compared with a restatement of P6 and P7: both sides would come from the spec, with no code of this repository between them. They feed the run, whose properties judge the store they leave.
- **`RecoveryWorkers`: one run of a coordinator.**
  - **State.** `store[n][k]` is the `[ts, size]` version node `n` holds of key `k`, or `None`. `status[u]` is unit `u`'s state. `streams[u]` holds what each node's iterator returned (the `iterator_` files), `diff[u]` holds the instructions `[id, from, to]` (the `diff_` files), and `sent[u]` is the batch cursor. `failures` counts failed RPCs. `result` is the parent's verdict.
  - **Actions.** One per step of the unit state machine:
    - `Begin` runs when the owning worker is idle: units are handed out once and a worker runs them one at a time.
    - `Iterate` snapshots every node's records in the unit's range, or fails the unit on a timeout.
    - `Diff`.
    - `Transfer` handles one batch of `batch_size` instructions. A dry run only counts it. Otherwise the batch is bulk-read, bulk-written and, for a merge without `-S`, bulk-deleted on the source. Or a bulk RPC fails part way, which leaves some destinations written or some sources deleted, and fails the unit.
    - `Finish` runs when the cursor reaches the end.
    - `Join` is the parent's verdict once every unit is terminal.
  - **Interpretation choices.**
    - A dc replica is stale when it lacks the key or holds a version with another `(ts, size)` than the winner. That is what the idempotence statement of spec 8 needs.
    - The cutoff applies to the key's latest timestamp, as the time-window filter says.
- **`RecoveryStore`: the abstract spec.** `Sync` changes a node's copy of a key only in two ways:
  - to a version some node holds and no node holds a newer one of;
  - to nothing, while another node keeps that version.

  It may also close units. `Close(u)` closes a unit once, as done or failed. A dry run allows no `Sync`. The refinement mapping sends `DONE` and `FAILED` to done and failed, and everything else to open.
- **No fairness, no liveness.** In this spec-modelled state machine every unit step stays enabled until the unit is terminal, so that a run ends would follow from the model and not from the coordinator's code, which is not in this repository. No liveness property is checked.

### Run

`recovery_run` (pass). Bounds:
- two nodes;
- keys {1, 2, 3} in units {1, 2} and {3}, both on one worker;
- versions `[ts 1, size 1]`, `[ts 2, size 1]` and `[ts 2, size 2]`, with the cutoff at 2;
- batch size 1;
- one failed RPC;
- every store (4^6) under each of six command lines: merge or dc, dry or not, merge with or without `-S`.

About 1M states, 25 s. Deadlock checking is off, because the run stops after `Join`. Every action and every `Transfer` outcome fires.

Why these bounds are enough:
- A unit of two keys with batch size 1 crosses batch boundaries.
- Two units on one worker exercise the hand-out order. A second worker would add only interleavings of units on disjoint key ranges. Their transfers touch different keys and commute, and the parent's join waits for all units either way.
- The cutoff at 2 puts one version on each side of it.
- Each store holds every ts order between the two nodes, and two versions tied on timestamp, so the dc winner's size tie-break (spec scenario 6) happens.

It checks two properties:
- `RecoveryIdempotent` (spec 8): once a non-dry run ends ok, a new diff over the same nodes is empty. It needs the diff, the batching and the deletes to have left every key in sync.
- `RecoveryImplementsStore`: the run refines `RecoveryStore`. Even a batch that fails part way, with deletes, only copies newest versions and deletes keys another node keeps. A dry run changes nothing.

**Mutants.**
- `Finish` → `FinishEarly`: the unit is closed when its last batch is issued. This breaks `RecoveryIdempotent`.
- `TransferBatch` → `PurgeThenWrite`: the merge source is deleted before the bulk read. This breaks `RecoveryImplementsStore`.

**Hazards.** The coordinator code is not under `src/`, so no hazard of it is listed at a line of this repository; the one listed (`dnet_recovery:284`, the run waits for every worker) has no property, for the reason above.

## 7. Not modelled, and why

- **Power loss inside one cell.** A cell, and so a header, is written back whole. A header torn between sectors is the failure case of `BlobWriteRawFails`, followed by a restart.
- **The transport's zero-copy send.** It happens after the handler returns. The model reads the cells at the time of the handler. That is exact for records below the tail, which never change except for the REMOVED flag.
- **The hash table's internals.** `dnet_hash` is a map that is linearizable per key.
- **`dnet_cache_cleanup`.** It deletes the cache at node teardown. Its caller, and whether threads are still running then, are outside `src/`.
- **The cache's DEL key.** DEL erases `cmd->id.id` while WRITE and READ use `io->id`. The model gives one id per command, because the transport that fills both is outside `src/`.
- **The Python bindings build.** It has no runtime state.
- **The recovery Monitor.** Its counters and `stats.txt` change no recovery state; `RecoveryWorkers` keeps only the batch cursor they would be computed from.
- **Route-list planning.** The units and their owners are constants of the model (`KeyRange`, `Owner`); `RouteList.from_session` talks to the ring.
- **Client writes during a recovery run.** A merge without `-S` deletes the local copy after writing the version its iterator saw; a client write in between would be deleted with it. Whether the coordinator's bulk delete is conditional on the version is code outside this repository, and the spec says nothing of writes during a run.
- **The blob backend as a recovery iterator source.** The iterator RPC that streams a node's records to a coordinator, and `blob_iterate`, are outside `src/`. `RecoveryWorkers` takes each node's store as an arbitrary function of keys to versions, which covers every index the backend could hold.
