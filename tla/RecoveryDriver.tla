---------------------------- MODULE RecoveryDriver ----------------------------
(***************************************************************************)
(* Concurrent invocations of the recovery driver src/recovery/dnet_recovery *)
(* on one host.  Each invocation runs the script's __main__ block in order: *)
(* substitute %TYPE% into the tmp dir and create it if missing, chdir and  *)
(* open the log, take flock(LOCK_EX | LOCK_NB) on <tmp>/<lock>, validate   *)
(* the remaining options, start the monitor and clean the scratch files,   *)
(* parse the routing table, run main() of the chosen type, and exit with   *)
(* int(not result), after waiting for Enter when -e was given.             *)
(*                                                                          *)
(* The shared state is the file system: which tmp dirs exist, the scratch  *)
(* files in them (each owned by the invocation whose main() wrote it) and  *)
(* which invocation holds the flock of each dir's lock file.  The lock fd  *)
(* is never closed, so the lock is released only when the process exits,  *)
(* normally, by an uncaught exception, or killed.                          *)
(***************************************************************************)
EXTENDS Naturals, FiniteSets

CONSTANTS
    Invocations,  \* concurrent runs of dnet_recovery
    OptionSpace,  \* the command lines they may be given (records, see Options)
    MaxScratch,   \* scratch files one main() writes
    MaxKills,     \* bound on invocations killed (Ctrl-C, kill)
    StaleOwner,   \* owner of scratch files left by an earlier, dead run
    None

VARIABLES
    opts,     \* the parsed command line of each invocation
    pc,       \* where each invocation is in __main__
    dirs,     \* tmp dirs that exist
    files,    \* scratch files: [dir, owner, n]
    holder,   \* the invocation holding the flock of a dir's lock file
    result,   \* what main(ctx) returned
    rc,       \* exit code
    kills

vars == <<opts, pc, dirs, files, holder, result, rc, kills>>

Types == {"merge", "dc"}

(* -D: the default /var/tmp/dnet_recovery_%TYPE% gives one dir per type; *)
(* a dir given without %TYPE% is shared by both types.                  *)
TmpDir(i) == IF opts[i].perType THEN opts[i].type ELSE "shared"

Dirs == Types \cup {"shared"}

(* A command line: type, -D template, -k (lock file or none), -e, and     *)
(* which option check fails: the log level before the lock ("early"), one *)
(* of -r, -g, -t, -b, -n, -s, -m, -w after it ("late"), or none.          *)
Options == [type : Types, perType : BOOLEAN, lock : BOOLEAN, noExit : BOOLEAN,
            bad : {"none", "early", "late"}]

ASSUME OptionSpace \subseteq Options

Terminated == {"exited", "killed"}

Live(o) == o \in Invocations /\ pc[o] \notin Terminated

(* The process ends: exit(rc), or an uncaught exception (exit status 1); *)
(* closing its fds drops its flock.                                     *)
ExitWith(i, code) ==
    /\ pc' = [pc EXCEPT ![i] = "exited"]
    /\ rc' = [rc EXCEPT ![i] = code]
    /\ holder' = [d \in Dirs |-> IF holder[d] = i THEN None ELSE holder[d]]

Init ==
    /\ opts \in [Invocations -> OptionSpace]
    /\ pc = [i \in Invocations |-> "init"]
    /\ dirs \in SUBSET Dirs
    /\ files \in SUBSET [dir : dirs, owner : {StaleOwner}, n : {1}]
    /\ holder = [d \in Dirs |-> None]
    /\ result = [i \in Invocations |-> None]
    /\ rc = [i \in Invocations |-> None]
    /\ kills = 0

(* if not os.path.exists(ctx.tmp_dir) *)
CheckDir(i) ==
    /\ pc[i] = "init"
    /\ pc' = [pc EXCEPT ![i] = IF TmpDir(i) \in dirs THEN "log" ELSE "mkdir"]
    /\ UNCHANGED <<opts, dirs, files, holder, result, rc, kills>>

(* os.makedirs; it raises when the dir appeared since the check, and the *)
(* script turns that into ValueError.                                    *)
MakeDirs(i) ==
    /\ pc[i] = "mkdir"
    /\ IF TmpDir(i) \in dirs
       THEN /\ ExitWith(i, 1)
            /\ UNCHANGED dirs
       ELSE /\ dirs' = dirs \cup {TmpDir(i)}
            /\ pc' = [pc EXCEPT ![i] = "log"]
            /\ UNCHANGED <<holder, rc>>
    /\ UNCHANGED <<opts, files, result, kills>>

(* os.chdir, the log file handler and int(log_level). *)
OpenLog(i) ==
    /\ pc[i] = "log"
    /\ IF opts[i].bad = "early"
       THEN ExitWith(i, 1)
       ELSE /\ pc' = [pc EXCEPT ![i] = "lock"]
            /\ UNCHANGED <<holder, rc>>
    /\ UNCHANGED <<opts, dirs, files, result, kills>>

(* flock succeeds, but the lock is not kept (as if its fd were closed). *)
LockDropped(i) ==
    /\ pc[i] = "lock"
    /\ IF opts[i].lock /\ holder[TmpDir(i)] \notin {None, i}
       THEN ExitWith(i, 1)
       ELSE /\ pc' = [pc EXCEPT ![i] = "validate"]
            /\ UNCHANGED <<holder, rc>>
    /\ UNCHANGED <<opts, dirs, files, result, kills>>

(* With -k: os.open(<tmp>/<lock>) and flock(LOCK_EX | LOCK_NB); when     *)
(* another process holds it, flock raises and the script raises          *)
(* RuntimeError.  With an empty -k no lock is taken.                     *)
Lock(i) ==
    /\ pc[i] = "lock"
    /\ IF opts[i].lock /\ holder[TmpDir(i)] \notin {None, i}
       THEN ExitWith(i, 1)
       ELSE /\ holder' = IF opts[i].lock THEN [holder EXCEPT ![TmpDir(i)] = i]
                                         ELSE holder
            /\ pc' = [pc EXCEPT ![i] = "validate"]
            /\ UNCHANGED rc
    /\ UNCHANGED <<opts, dirs, files, result, kills>>

(* The checks of -r, -g, -t, -b, -n, -s, -m and -w: each raises. *)
Validate(i) ==
    /\ pc[i] = "validate"
    /\ IF opts[i].bad = "late"
       THEN ExitWith(i, 1)
       ELSE /\ pc' = [pc EXCEPT ![i] = "cleanup"]
            /\ UNCHANGED <<holder, rc>>
    /\ UNCHANGED <<opts, dirs, files, result, kills>>

(* cleanup(path): every regular file in the tmp dir whose name starts    *)
(* with iterator_, diff_ or merge_, whoever wrote it.                    *)
CleanupSweep(d) == {f \in files : f.dir = d}

(* Monitor(ctx, port), then cleanup(ctx.tmp_dir), its errors logged.    *)
Cleanup(i) ==
    /\ pc[i] = "cleanup"
    /\ files' = files \ CleanupSweep(TmpDir(i))
    /\ pc' = [pc EXCEPT ![i] = "routes"]
    /\ UNCHANGED <<opts, dirs, holder, result, rc, kills>>

(* elliptics_create_node, the session and RouteList.from_session; an    *)
(* empty routing table or a node that cannot be created raises.          *)
ParseRoutes(i) ==
    /\ pc[i] = "routes"
    /\ \/ /\ pc' = [pc EXCEPT ![i] = "main"]
          /\ UNCHANGED <<holder, rc>>
       \/ ExitWith(i, 1)
    /\ UNCHANGED <<opts, dirs, files, result, kills>>

(* main(ctx) of types.merge or types.dc writes its iterator_, diff_ and *)
(* merge_ files into the tmp dir (spec 4.4, 4.5).                        *)
MainWork(i) ==
    /\ pc[i] = "main"
    /\ LET n == Cardinality({f \in files : f.owner = i}) + 1 IN
       /\ n <= MaxScratch
       /\ files' = files \cup {[dir |-> TmpDir(i), owner |-> i, n |-> n]}
    /\ UNCHANGED <<opts, pc, dirs, holder, result, rc, kills>>

(* main(ctx) returns its result, or raises. *)
MainReturn(i) ==
    /\ pc[i] = "main"
    /\ \/ \E r \in BOOLEAN :
            /\ result' = [result EXCEPT ![i] = r]
            /\ pc' = [pc EXCEPT ![i] = "finish"]
            /\ UNCHANGED <<holder, rc>>
       \/ /\ ExitWith(i, 1)
          /\ UNCHANGED result
    /\ UNCHANGED <<opts, dirs, files, kills>>

(* Monitor shutdown and the stats printout; with -e the script waits in *)
(* raw_input, else exits with int(not result).                          *)
Finish(i) ==
    /\ pc[i] = "finish"
    /\ IF opts[i].noExit
       THEN /\ pc' = [pc EXCEPT ![i] = "paused"]
            /\ UNCHANGED <<holder, rc>>
       ELSE ExitWith(i, IF result[i] THEN 0 ELSE 1)
    /\ UNCHANGED <<opts, dirs, files, result, kills>>

(* The operator presses Enter at the -e prompt. *)
PressEnter(i) ==
    /\ pc[i] = "paused"
    /\ ExitWith(i, IF result[i] THEN 0 ELSE 1)
    /\ UNCHANGED <<opts, dirs, files, result, kills>>

(* Ctrl-C or kill at any point: the process dies, its flock is dropped *)
(* and its scratch files stay for the next run's cleanup (spec 5).      *)
Kill(i) ==
    /\ Live(i)
    /\ kills < MaxKills
    /\ pc' = [pc EXCEPT ![i] = "killed"]
    /\ holder' = [d \in Dirs |-> IF holder[d] = i THEN None ELSE holder[d]]
    /\ kills' = kills + 1
    /\ UNCHANGED <<opts, dirs, files, result, rc>>

(* The steps the script takes by itself. *)
Step(i) ==
    \/ CheckDir(i) \/ MakeDirs(i) \/ OpenLog(i) \/ Lock(i) \/ Validate(i)
    \/ Cleanup(i) \/ ParseRoutes(i) \/ MainWork(i) \/ MainReturn(i)
    \/ Finish(i)

Next == \E i \in Invocations : Step(i) \/ PressEnter(i) \/ Kill(i)

Spec == Init /\ [][Next]_vars

-----------------------------------------------------------------------------
(* No cleanup() removes a scratch file while the invocation that wrote  *)
(* it is still running: the flock on <tmp>/<lock>, taken before cleanup *)
(* and held until exit, keeps a second invocation on the same tmp dir   *)
(* from sweeping the first one's iterator_/diff_/merge_ files.          *)
CleanupSparesLiveScratch ==
    [][\A f \in files \ files' : ~Live(f.owner)]_vars

=============================================================================
