--------------------------- MODULE EngineSnapshots ---------------------------
(***************************************************************************)
(* The data the InstallEngine saves and restores: the persistent tree of   *)
(* the Data Object Cache (DOC), its pickled copies in cache files, the ZFS *)
(* dataset the checkpoints build in, and the dataset's snapshots.          *)
(*                                                                         *)
(* One process executes one run at a time (module InstallEngine has the    *)
(* threads).  It may be killed between any two steps and started again     *)
(* with another list of checkpoints; only the dataset and its snapshots    *)
(* survive.  The application is either distro_const (DistroConst = TRUE),  *)
(* which exits after a failed run, empties the dataset unless it resumes   *)
(* and otherwise calls resume_execute_checkpoints() once, or any program   *)
(* that uses the engine's in-process interface.                            *)
(*                                                                         *)
(* A name stands for a CheckpointRegistrationData: two registrations are   *)
(* equal (__eq__) exactly when their names are.  What a checkpoint does is *)
(* an entry of `work', in the DOC and, once a dataset is set, in the       *)
(* dataset too.  An operation that raises before it changes anything is    *)
(* not a step.                                                             *)
(***************************************************************************)
EXTENDS Checkpoints

CONSTANTS
    Names,          \* checkpoint registrations
    Lists,          \* lists of checkpoints a process may register
    StopModes,      \* values of InstallEngine.stop_on_error
    SnapshotsFail,  \* may taking a snapshot raise (disk full, zfs error)?
    Killed,         \* may the process be killed in the middle of a run?
    DistroConst,    \* is the application distro_const?
    UnsavedCounts,  \* how many checkpoints run before the dataset is set
    MaxRuns,        \* bound on execute calls over all processes
    MaxRestarts,    \* bound on restarts of the process
    None            \* Python's None

ASSUME ListsAssumption ==
    /\ Lists \subseteq Seq(Names)
    /\ \A l \in Lists : /\ \A u \in UnsavedCounts : Len(l) > u
                       /\ \A i, j \in DOMAIN l : l[i] = l[j] => i = j

ASSUME BoundsAssumption ==
    /\ UnsavedCounts \subseteq Nat /\ MaxRuns \in Nat /\ MaxRestarts \in Nat
    /\ StopModes \subseteq BOOLEAN
    /\ {SnapshotsFail, Killed, DistroConst} \subseteq BOOLEAN

ASSUME NoneAssumption ==
    LET names == Names \X {"pre", "completed"}
    IN  None \notin names /\ None \notin {"dataset", "tmp"} \X names

VARIABLES
    checkpoints,      \* self._checkpoints
    completed,        \* CheckpointData.completed
    data_cache_path,  \* CheckpointData.data_cache_path
    zfs_snap,         \* CheckpointData.zfs_snap
    doc,              \* doc.persistent: engine root's children and the rest
    dataset,          \* is self.dataset set (and existing)?
    tmp,              \* cache files in _tmp_cache_path
    resume_ok,        \* self.__resume_exec_cp_ok
    zfs_modified,     \* self.zfs_snapshots_modifed
    client,           \* the application: "api", or a mode of distro_const
    fs,               \* the dataset: checkpoints' work and cache files
    zsnaps,           \* snapshots of the dataset, oldest first
    pc,               \* where _execute_checkpoints is
    todo,             \* rest of checkpoint_data_list
    ok,               \* status is EXEC_SUCCESS
    succeeded,        \* local variable completed
    snapshot_name,    \* the snapshot being taken
    stop_on_error,    \* self.stop_on_error
    unsaved,          \* checkpoints completed before the dataset is set
    before,           \* history: what each checkpoint found when its turn came
    runs, restarts    \* counters for the bounds

processVars == <<checkpoints, completed, data_cache_path, zfs_snap, doc,
                 dataset, tmp, resume_ok, zfs_modified, client>>
runVars == <<pc, todo, ok, succeeded, snapshot_name>>
choiceVars == <<stop_on_error, unsaved>>     \* made once, by the application
vars == <<processVars, fs, zsnaps, runVars, choiceVars, before, runs, restarts>>

-----------------------------------------------------------------------------
(* Values.                                                                 *)

Pre(n)       == <<n, "pre">>          \* snapshot named after the checkpoint
Completed(n) == <<n, "completed">>    \* _get_completed_name

EmptyDoc     == [done |-> <<>>, work |-> <<>>]
EmptyDataset == [work |-> <<>>, files |-> <<>>]

Effect(n, good) == [cp |-> n, good |-> good, ds |-> dataset]

\* The elements of a sequence that are in S, in their order.
Kept(seq, S) ==
    LET kept[k \in 0..Len(seq)] ==
            IF k = 0 THEN <<>>
            ELSE IF seq[k] \in S THEN Append(kept[k - 1], seq[k]) ELSE kept[k - 1]
    IN  kept[Len(seq)]

\* Files and ZFS snapshots are kept in the order of their mtime (creation).
Has(seq, name)        == \E i \in DOMAIN seq : seq[i].name = name
Get(seq, name)        == seq[CHOOSE i \in DOMAIN seq : seq[i].name = name]
Position(seq, name)   == IF Has(seq, name)
                         THEN CHOOSE i \in DOMAIN seq : seq[i].name = name
                         ELSE 0
Without(seq, names)   == Kept(seq, {e \in {seq[i] : i \in DOMAIN seq} : e.name \notin names})

\* A cache file is whole once the DOC has been dumped to it.
WriteFile(files, f, d, whole) ==
    Append(Without(files, {f}), [name |-> f, doc |-> d, whole |-> whole])

\* take_snapshot(get_cache_filename(f)): the file is in the dataset if one is
\* set, else in the temporary directory.
CacheFile(f) == <<IF dataset THEN "dataset" ELSE "tmp", f>>
SaveDoc(f, d, whole) ==
    IF dataset
    THEN fs' = [fs EXCEPT !.files = WriteFile(@, f, d, whole)] /\ UNCHANGED tmp
    ELSE tmp' = WriteFile(tmp, f, d, whole) /\ UNCHANGED fs

-----------------------------------------------------------------------------
(* _rollback.                                                              *)

\* Mutant of RollbackSource: the DOC is read from the "-completed" file.
RollbackSource_CompletedFile(p, resumable) ==
    LET n == checkpoints[p] IN
    IF completed[n]
    THEN [snap |-> zfs_snap[n], file |-> data_cache_path[n]]
    ELSE [snap |-> IF Has(zsnaps, Pre(n)) THEN Pre(n) ELSE None,
          file |-> CacheFile(Completed(n))]

\* What _rollback(checkpoints[p]) restores: a ZFS snapshot (or None) and a
\* cache file.  `resumable' is resumable_cp_list as a set of positions.
\* "raise" stands for a RollbackError.
RollbackSource(p, resumable) ==
    LET n    == checkpoints[p]
        last == resumable # {} /\ \A q \in resumable : q <= p
        prev == Completed(checkpoints[p - 1])
    IN  CASE completed[n] ->
                [snap |-> zfs_snap[n], file |-> data_cache_path[n]]
          [] ~completed[n] /\ Has(zsnaps, Pre(n)) ->
                [snap |-> Pre(n), file |-> CacheFile(Pre(n))]
          [] ~completed[n] /\ ~Has(zsnaps, Pre(n)) /\ last
                           /\ resumable # {p} /\ Has(zsnaps, prev) ->
                [snap |-> prev, file |-> CacheFile(prev)]
          [] OTHER -> [snap |-> None, file |-> None]

\* The dataset after `zfs rollback -r'.
RolledBackDataset(src) ==
    IF src.snap = None THEN fs ELSE Get(zsnaps, src.snap).fs

FilesAfter(src) ==
    IF src.file[1] = "dataset" THEN RolledBackDataset(src).files ELSE tmp

\* _rollback does not raise.
CanRollback(p, resumable) ==
    LET src == RollbackSource(p, resumable) IN
    /\ completed[checkpoints[p]] \/ dataset
    /\ src.file # None
    /\ src.snap # None => Has(zsnaps, src.snap)
    /\ Has(FilesAfter(src), src.file[2])
    /\ Get(FilesAfter(src), src.file[2]).whole

\* Mutant of Rollback: the cache file is not loaded into the DOC.
Rollback_KeepsDoc(p, resumable) ==
    LET src == RollbackSource(p, resumable) IN
    /\ CanRollback(p, resumable)
    /\ fs' = RolledBackDataset(src)
    /\ zsnaps' = IF src.snap = None THEN zsnaps
                 ELSE SubSeq(zsnaps, 1, Position(zsnaps, src.snap))
    /\ doc' = doc
    /\ completed' = RolledBack(checkpoints, completed, p)

\* The dataset first (the snapshots taken later are destroyed), then the DOC,
\* then the completed flags.
Rollback(p, resumable) ==
    LET src == RollbackSource(p, resumable) IN
    /\ CanRollback(p, resumable)
    /\ fs' = RolledBackDataset(src)
    /\ zsnaps' = IF src.snap = None THEN zsnaps
                 ELSE SubSeq(zsnaps, 1, Position(zsnaps, src.snap))
    /\ doc' = Get(FilesAfter(src), src.file[2]).doc
    /\ completed' = RolledBack(checkpoints, completed, p)

-----------------------------------------------------------------------------
(* get_resumable_checkpoints.                                              *)

NewestFile == fs.files[Len(fs.files)]

\* How many of the registered checkpoints match the ones the newest cache file
\* says were executed, with ZFS snapshots in the order of the list.
Matching ==
    LET done == NewestFile.doc.done
        at(i) == Position(zsnaps, Pre(checkpoints[i]))
        matches(k) == \A i \in 1..k :
                        /\ checkpoints[i] = done[i]
                        /\ i > 1 => at(i) >= at(i - 1)
    IN  CHOOSE k \in 0..Len(checkpoints) :
            /\ k <= Len(done) /\ matches(k)
            /\ (k < Len(checkpoints) /\ k < Len(done)) => ~matches(k + 1)

\* The positions of the resumable checkpoints.
Resumable ==
    IF fs.files = <<>> THEN {1}
    ELSE LET found == {i \in 1..Matching : Has(zsnaps, Pre(checkpoints[i]))}
         IN  IF found = {} THEN {1}
             ELSE (found \cup {Matching + 1}) \cap DOMAIN checkpoints

\* get_resumable_checkpoints neither raises NoDatasetError nor fails to load
\* the newest cache file.
ResumableKnown == dataset /\ (fs.files # <<>> => NewestFile.whole)

-----------------------------------------------------------------------------
(* Starting a run.                                                         *)

\* CheckpointData.__init__: not completed, no cache file, no ZFS snapshot.
NotCompleted == [n \in Names |-> FALSE]
NoSnapshots  == [n \in Names |-> None]

Init ==
    /\ checkpoints \in Lists
    /\ completed = NotCompleted
    /\ data_cache_path = NoSnapshots
    /\ zfs_snap = NoSnapshots
    /\ doc = EmptyDoc
    /\ dataset = FALSE
    /\ tmp = <<>>
    /\ resume_ok = TRUE
    /\ zfs_modified = FALSE
    /\ client = IF DistroConst THEN "fresh" ELSE "api"
    /\ fs = EmptyDataset
    /\ zsnaps = <<>>
    /\ pc = "idle" /\ todo = <<>> /\ ok = TRUE /\ succeeded = FALSE
    /\ snapshot_name = None
    /\ stop_on_error \in StopModes
    /\ unsaved \in UnsavedCounts
    /\ before = [n \in Names |-> None]
    /\ runs = 0 /\ restarts = 0

\* The application sets the engine's dataset property: distro_const after the
\* manifest parser and target instantiation have run, an application that
\* passes the dataset to the constructor before the first checkpoint.
SetDataset ==
    /\ pc = "idle" /\ ~dataset
    /\ client # "exited"
    /\ \A i \in DOMAIN checkpoints : completed[checkpoints[i]] <=> i <= unsaved
    /\ dataset' = TRUE
    /\ UNCHANGED <<checkpoints, completed, data_cache_path, zfs_snap, doc, tmp,
                   resume_ok, zfs_modified, client, fs, zsnaps, runVars,
                   before, runs, restarts>>

\* Run the checkpoints from position p up to pause, or raise if get_exec_list
\* does (what was rolled back stays rolled back).
StartRun(p, pause, done) ==
    LET list == ExecList(checkpoints, p, pause)
        valid == ExecListIsValid(checkpoints, done, p, pause) /\ list # <<>>
    IN  /\ pc' = IF valid THEN "top" ELSE "idle"
        /\ todo' = IF valid THEN list ELSE <<>>
        /\ ok' = TRUE
        /\ succeeded' = FALSE
        /\ runs' = runs + 1

MayStart == pc = "idle" /\ runs < MaxRuns

\* When the application calls execute_checkpoints().  distro_const registers
\* only the first `unsaved' checkpoints before it sets the dataset, and from then
\* on calls resume_execute_checkpoints() instead if it was told to resume.
ClientExecutes(pause) ==
    \/ client = "api"
    \/ client = "fresh" /\ (dataset \/ pause <= unsaved + 1)
    \/ client = "resume" /\ ~dataset /\ pause <= unsaved + 1

\* execute_checkpoints(): from the first incomplete checkpoint.
ExecuteNext(pause) ==
    /\ MayStart
    /\ ClientExecutes(pause)
    /\ \E p \in DOMAIN checkpoints :
        /\ IsFirstIncomplete(checkpoints, completed, p)
        /\ StartRun(p, pause, completed)
    /\ UNCHANGED <<processVars, fs, zsnaps, snapshot_name, before, restarts>>

\* execute_checkpoints(start_from = checkpoints[p]): roll back unless it is the
\* first incomplete one, which ExecuteNext covers.
ExecuteFrom(p, pause) ==
    /\ MayStart
    /\ client = "api"
    /\ ~IsFirstIncomplete(checkpoints, completed, p)
    /\ Rollback(p, {})
    /\ StartRun(p, pause, completed')
    /\ UNCHANGED <<checkpoints, data_cache_path, zfs_snap, dataset, tmp,
                   resume_ok, zfs_modified, client, snapshot_name, before,
                   restarts>>

\* Mutant of NoRollbackNecessary: the snapshot is not looked for.
NoRollbackNecessary_Always(p) == Resumable = {p}

\* _rollback returns at once when the first checkpoint is the only resumable
\* one and has no snapshot.
NoRollbackNecessary(p) ==
    /\ Resumable = {p}
    /\ ~completed[checkpoints[p]]
    /\ ~Has(zsnaps, Pre(checkpoints[p]))

\* resume_execute_checkpoints(start_from = checkpoints[p]).
Resume(p, pause) ==
    /\ MayStart
    /\ client \in {"api", "resume"}
    /\ resume_ok /\ ~zfs_modified
    /\ ResumableKnown /\ p \in Resumable
    /\ IF NoRollbackNecessary(p)
       THEN UNCHANGED <<fs, zsnaps, doc, completed>>
       ELSE Rollback(p, Resumable)
    /\ resume_ok' = FALSE
    /\ StartRun(p, pause, completed')
    /\ UNCHANGED <<checkpoints, data_cache_path, zfs_snap, dataset, tmp,
                   zfs_modified, client, snapshot_name, before, restarts>>

-----------------------------------------------------------------------------
(* _execute_checkpoints and snapshot.                                      *)

\* The run ends; distro_const raises and exits if it was not a success.
EndRun(success) ==
    /\ pc' = "idle" /\ todo' = <<>>
    /\ client' = IF client = "api" \/ success THEN client ELSE "exited"
    /\ UNCHANGED <<checkpoints, data_cache_path, zfs_snap, dataset, resume_ok,
                   zfs_modified, zsnaps, ok, snapshot_name, before, runs,
                   restarts>>

TakeTurn ==
    /\ pc = "top" /\ todo # <<>>
    /\ before' = [before EXCEPT ![Head(todo)] =
                    [doc |-> doc, work |-> fs.work]]
    /\ IF ok
       THEN pc' = "open" /\ snapshot_name' = Pre(Head(todo))
       ELSE pc' = "exec" /\ UNCHANGED snapshot_name
    /\ UNCHANGED <<processVars, fs, zsnaps, todo, ok, succeeded, runs, restarts>>

\* take_snapshot opens the cache file for writing, which empties it.
OpenCacheFile ==
    /\ pc = "open"
    /\ SaveDoc(snapshot_name, EmptyDoc, FALSE)
    /\ pc' = "dump"
    /\ UNCHANGED <<checkpoints, completed, data_cache_path, zfs_snap, doc,
                   dataset, resume_ok, zfs_modified, client, zsnaps, todo, ok,
                   succeeded, snapshot_name, before, runs, restarts>>

IsPre == snapshot_name[2] = "pre"

\* Mutant of DumpCache: the file is not closed before the ZFS snapshot.
DumpCache_NotClosed ==
    /\ pc = "dump"
    /\ data_cache_path' =
        IF IsPre
        THEN [data_cache_path EXCEPT ![snapshot_name[1]] = CacheFile(snapshot_name)]
        ELSE data_cache_path
    /\ pc' = "zfs"
    /\ UNCHANGED <<checkpoints, completed, zfs_snap, doc, dataset, tmp, fs,
                   resume_ok, zfs_modified, client, zsnaps, todo, ok, succeeded,
                   snapshot_name, before, runs, restarts>>

\* Mutant of DumpCache: the DOC as it was when the checkpoint's turn came.
DumpCache_Stale ==
    /\ pc = "dump"
    /\ SaveDoc(snapshot_name, before[Head(todo)].doc, TRUE)
    /\ data_cache_path' =
        IF IsPre
        THEN [data_cache_path EXCEPT ![snapshot_name[1]] = CacheFile(snapshot_name)]
        ELSE data_cache_path
    /\ pc' = "zfs"
    /\ UNCHANGED <<checkpoints, completed, zfs_snap, doc, dataset, resume_ok,
                   zfs_modified, client, zsnaps, todo, ok, succeeded,
                   snapshot_name, before, runs, restarts>>

\* The pickled persistent tree replaces what the file held.
DumpCache ==
    /\ pc = "dump"
    /\ SaveDoc(snapshot_name, doc, TRUE)
    /\ data_cache_path' =
        IF IsPre
        THEN [data_cache_path EXCEPT ![snapshot_name[1]] = CacheFile(snapshot_name)]
        ELSE data_cache_path
    /\ pc' = "zfs"
    /\ UNCHANGED <<checkpoints, completed, zfs_snap, doc, dataset, resume_ok,
                   zfs_modified, client, zsnaps, todo, ok, succeeded,
                   snapshot_name, before, runs, restarts>>

\* After the snapshot: execute the checkpoint, or go on to the next one.
AfterSnapshot ==
    IF IsPre THEN pc' = "exec" /\ UNCHANGED todo
             ELSE pc' = "top" /\ todo' = Tail(todo)

\* Mutant of RecordZfsSnap: the cache file's name is recorded.
RecordZfsSnap_File(snap) ==
    zfs_snap' = IF IsPre
                THEN [zfs_snap EXCEPT ![snapshot_name[1]] = CacheFile(snapshot_name)]
                ELSE zfs_snap

RecordZfsSnap(snap) ==
    zfs_snap' = IF IsPre THEN [zfs_snap EXCEPT ![snapshot_name[1]] = snap]
                ELSE zfs_snap

\* Filesystem.snapshot(overwrite = True) first destroys a snapshot of that name.
DestroyOldSnapshot ==
    /\ pc = "zfs" /\ dataset /\ Has(zsnaps, snapshot_name)
    /\ zsnaps' = Without(zsnaps, {snapshot_name})
    /\ UNCHANGED <<processVars, fs, runVars, before, runs, restarts>>

CreateSnapshot ==
    /\ pc = "zfs" /\ dataset /\ ~Has(zsnaps, snapshot_name)
    /\ zsnaps' = Append(zsnaps, [name |-> snapshot_name, fs |-> fs])
    /\ RecordZfsSnap(snapshot_name)
    /\ zfs_modified' = TRUE
    /\ AfterSnapshot
    /\ UNCHANGED <<checkpoints, completed, data_cache_path, doc, dataset, tmp,
                   resume_ok, client, fs, ok, succeeded, snapshot_name, before,
                   runs, restarts>>

NoZfsSnapshot ==
    /\ pc = "zfs" /\ ~dataset
    /\ RecordZfsSnap(None)
    /\ AfterSnapshot
    /\ UNCHANGED <<checkpoints, completed, data_cache_path, doc, dataset, tmp,
                   resume_ok, zfs_modified, client, fs, zsnaps, ok, succeeded,
                   snapshot_name, before, runs, restarts>>

\* An exception from take_snapshot or zfs ends the run with FATAL_INTERNAL.
SnapshotRaises ==
    /\ pc \in {"open", "dump", "zfs"} /\ SnapshotsFail
    /\ EndRun(FALSE)
    /\ UNCHANGED <<completed, doc, tmp, fs, succeeded>>

\* What a checkpoint did, all of it or the part before it failed.
DoWork(n, good) ==
    /\ doc' = [doc EXCEPT !.work = Append(@, Effect(n, good))]
    /\ fs' = IF dataset
             THEN [fs EXCEPT !.work = Append(@, Effect(n, good))]
             ELSE fs

ExecuteSucceeds ==
    /\ pc = "exec"
    /\ DoWork(Head(todo), TRUE)
    /\ succeeded' = TRUE
    /\ pc' = "record"
    /\ UNCHANGED <<checkpoints, completed, data_cache_path, zfs_snap, dataset,
                   tmp, resume_ok, zfs_modified, client, zsnaps, todo, ok,
                   snapshot_name, before, runs, restarts>>

ExecuteFailsAndStops ==
    /\ pc = "exec" /\ stop_on_error
    /\ DoWork(Head(todo), FALSE)
    /\ succeeded' = FALSE
    /\ EndRun(FALSE)
    /\ UNCHANGED <<completed, tmp>>

ExecuteFailsAndContinues ==
    /\ pc = "exec" /\ ~stop_on_error
    /\ DoWork(Head(todo), FALSE)
    /\ succeeded' = FALSE
    /\ ok' = FALSE
    /\ pc' = "record"
    /\ UNCHANGED <<checkpoints, completed, data_cache_path, zfs_snap, dataset,
                   tmp, resume_ok, zfs_modified, client, zsnaps, todo,
                   snapshot_name, before, runs, restarts>>

\* The checkpoint becomes a child of the engine's DOC root, its completed flag
\* is set, and a "-completed" snapshot is taken unless something has failed.
RecordCompletion ==
    /\ pc = "record"
    /\ doc' = [doc EXCEPT !.done = Append(@, Head(todo))]
    /\ completed' = [completed EXCEPT ![Head(todo)] = succeeded]
    /\ IF ok
       THEN pc' = "open" /\ snapshot_name' = Completed(Head(todo)) /\ UNCHANGED todo
       ELSE pc' = "top" /\ todo' = Tail(todo) /\ UNCHANGED snapshot_name
    /\ UNCHANGED <<checkpoints, data_cache_path, zfs_snap, dataset, tmp,
                   resume_ok, zfs_modified, client, fs, zsnaps, ok, succeeded,
                   before, runs, restarts>>

FinishRun ==
    /\ pc = "top" /\ todo = <<>>
    /\ EndRun(ok)
    /\ UNCHANGED <<completed, doc, tmp, fs, succeeded>>

\* The run finds the cancel event set.
CancelRun ==
    /\ pc = "top" /\ todo # <<>>
    /\ EndRun(FALSE)
    /\ UNCHANGED <<completed, doc, tmp, fs, succeeded>>

-----------------------------------------------------------------------------
RegisteredSnapshots ==
    {checkpoints[i] : i \in DOMAIN checkpoints} \X {"pre", "completed"}

\* Mutant of CleanupCheckpoints: the completed flags are not reset.
CleanupCheckpoints_KeepsCompleted ==
    /\ pc = "idle" /\ client = "api"
    /\ zsnaps' = IF dataset
                 THEN Without(zsnaps, RegisteredSnapshots)
                 ELSE zsnaps
    /\ tmp' = <<>>
    /\ UNCHANGED <<checkpoints, completed, data_cache_path, zfs_snap, doc,
                   dataset, resume_ok, zfs_modified, client, fs, runVars,
                   before, runs, restarts>>

\* cleanup_checkpoints: the cache files in the dataset are left where they are.
CleanupCheckpoints ==
    /\ pc = "idle" /\ client = "api"
    /\ zsnaps' = IF dataset
                 THEN Without(zsnaps, RegisteredSnapshots)
                 ELSE zsnaps
    /\ tmp' = <<>>
    /\ completed' = [n \in Names |-> completed[n] /\ ~IsRegistered(checkpoints, n)]
    /\ UNCHANGED <<checkpoints, data_cache_path, zfs_snap, doc, dataset,
                   resume_ok, zfs_modified, client, fs, runVars, before, runs,
                   restarts>>

\* The process ends (in the middle of a run if it is killed) and is started
\* again.  distro_const rolls the dataset back to @empty unless it resumes.
Restart(list, mode) ==
    /\ restarts < MaxRestarts
    /\ pc = "idle" \/ Killed
    /\ mode \in (IF DistroConst THEN {"fresh", "resume"} ELSE {"api"})
    /\ checkpoints' = list
    /\ completed' = NotCompleted
    /\ data_cache_path' = NoSnapshots
    /\ zfs_snap' = NoSnapshots
    /\ doc' = EmptyDoc
    /\ dataset' = FALSE
    /\ tmp' = <<>>
    /\ resume_ok' = TRUE
    /\ zfs_modified' = FALSE
    /\ client' = mode
    /\ IF mode = "fresh" THEN fs' = EmptyDataset /\ zsnaps' = <<>>
                         ELSE UNCHANGED <<fs, zsnaps>>
    /\ pc' = "idle" /\ todo' = <<>> /\ ok' = TRUE /\ succeeded' = FALSE
    /\ snapshot_name' = None
    /\ before' = [n \in Names |-> None]
    /\ restarts' = restarts + 1
    /\ UNCHANGED runs

Next ==
    \/ SetDataset
    \/ \E pause \in 1..(Len(checkpoints) + 1) :
        \/ ExecuteNext(pause)
        \/ \E p \in DOMAIN checkpoints : ExecuteFrom(p, pause) \/ Resume(p, pause)
    \/ TakeTurn \/ OpenCacheFile \/ DumpCache
    \/ DestroyOldSnapshot \/ CreateSnapshot \/ NoZfsSnapshot \/ SnapshotRaises
    \/ ExecuteSucceeds \/ ExecuteFailsAndStops \/ ExecuteFailsAndContinues
    \/ RecordCompletion \/ FinishRun \/ CancelRun
    \/ CleanupCheckpoints
    \/ \E list \in Lists, mode \in {"api", "fresh", "resume"} : Restart(list, mode)

Spec == Init /\ [][Next /\ UNCHANGED choiceVars]_vars

-----------------------------------------------------------------------------
(* Properties.                                                             *)

SnapNames == Names \X {"pre", "completed"}
Effects   == [cp : Names, good : BOOLEAN, ds : BOOLEAN]
Docs      == [done : Seq(Names), work : Seq(Effects)]
Files     == Seq([name : SnapNames, doc : Docs, whole : BOOLEAN])
Datasets  == [work : Seq(Effects), files : Files]

TypeOK ==
    /\ checkpoints \in Lists
    /\ completed \in [Names -> BOOLEAN]
    /\ data_cache_path \in [Names -> ({"dataset", "tmp"} \X SnapNames) \cup {None}]
    /\ zfs_snap \in [Names -> SnapNames \cup {None}]
    /\ doc \in Docs
    /\ dataset \in BOOLEAN
    /\ tmp \in Files
    /\ resume_ok \in BOOLEAN
    /\ zfs_modified \in BOOLEAN
    /\ client \in {"api", "fresh", "resume", "exited"}
    /\ fs \in Datasets
    /\ zsnaps \in Seq([name : SnapNames, fs : Datasets])
    /\ pc \in {"idle", "top", "open", "dump", "zfs", "exec", "record"}
    /\ todo \in Seq(Names)
    /\ ok \in BOOLEAN
    /\ succeeded \in BOOLEAN
    /\ snapshot_name \in SnapNames \cup {None}
    /\ stop_on_error \in StopModes
    /\ unsaved \in UnsavedCounts
    /\ before \in [Names -> [doc : Docs, work : Seq(Effects)] \cup {None}]
    /\ runs \in 0..MaxRuns
    /\ restarts \in 0..MaxRestarts

OnDataset(work) == Kept(work, [cp : Names, good : BOOLEAN, ds : {TRUE}])

\* A ZFS snapshot contains its own cache file, complete: _rollback never raises
\* NoCacheError, nor fails to load the DOC, after `zfs rollback' has already
\* changed the dataset.
SnapshotHoldsItsDoc ==
    \A i \in DOMAIN zsnaps :
        /\ Has(zsnaps[i].fs.files, zsnaps[i].name)
        /\ Get(zsnaps[i].fs.files, zsnaps[i].name).whole

\* The DOC saved in a ZFS snapshot and the dataset in it have seen the same
\* work, so that rolling both back cannot leave one ahead of the other.
SnapshotConsistent ==
    \A i \in DOMAIN zsnaps :
        OnDataset(Get(zsnaps[i].fs.files, zsnaps[i].name).doc.work)
            = zsnaps[i].fs.work

\* execute_checkpoints(start_from) of a checkpoint completed in this process
\* gives it back the DOC it found when its turn came, and the dataset it found
\* when a ZFS snapshot of it was taken, if runs stop at the first failure.
RollbackRestores ==
    [][\A p \in DOMAIN checkpoints :
        LET n == checkpoints[p] IN
        (stop_on_error /\ completed[n] /\ \E pause \in 1..(Len(checkpoints) + 1) : ExecuteFrom(p, pause))
        => /\ doc' = before[n].doc
           /\ zfs_snap[n] # None => fs'.work = before[n].work]_vars

\* Every checkpoint completed in this process can be rolled back to, if runs
\* stop at the first failure.
CompletedCanBeRolledBack ==
    \A p \in DOMAIN checkpoints :
        (stop_on_error /\ pc = "idle" /\ completed[checkpoints[p]] /\ before[checkpoints[p]] # None)
        => CanRollback(p, {})

\* The DOC lists, and the dataset holds, exactly one successful execution of
\* each checkpoint before p.
CleanBefore(p) ==
    /\ doc.done = SubSeq(checkpoints, 1, p - 1)
    /\ Len(doc.work) = p - 1
    /\ \A i \in 1..(p - 1) : doc.work[i].cp = checkpoints[i] /\ doc.work[i].good
    /\ fs.work = OnDataset(doc.work)

\* A step of resume_execute_checkpoints() that restarts the engine at p.
ResumesAt(p) ==
    /\ resume_ok /\ ~resume_ok'
    /\ IsFirstIncomplete(checkpoints, completed', p)

\* The application resumes at a checkpoint that runs with the dataset: resuming
\* at an earlier one leaves the dataset as it is, and what follows is not clean.
ResumesOnDataset ==
    \A p \in DOMAIN checkpoints : ResumesAt(p) => p > unsaved

\* The lists start alike, and a checkpoint that two of them share has the same
\* checkpoints before it: between processes, a list changes only after the
\* checkpoints that have been snapshotted.
SamePredecessors ==
    \A l, m \in Lists :
        /\ l[1] = m[1]
        /\ \A i \in DOMAIN l, j \in DOMAIN m :
              l[i] = m[j] => i = j /\ \A k \in 1..i : l[k] = m[k]

\* Resuming at a checkpoint that runs with the dataset gives it the DOC and the
\* dataset it would find had every earlier checkpoint just run once, whatever
\* was killed, failed or cut short before.
ResumeIsClean ==
    [][\A p \in DOMAIN checkpoints :
        (ResumesAt(p) /\ p > unsaved) => CleanBefore(p)']_vars

\* resume_execute_checkpoints() gets as far as choosing a checkpoint.
CanResume ==
    /\ pc = "idle" /\ client \in {"api", "resume"}
    /\ resume_ok /\ ~zfs_modified
    /\ ResumableKnown

\* As documented of get_resumable_checkpoints(): the checkpoints it returns are
\* resumable, that is, _rollback does not raise for them.
ResumableCanBeResumed ==
    CanResume => \A p \in Resumable : NoRollbackNecessary(p) \/ CanRollback(p, Resumable)

\* Whatever was killed before, every checkpoint that get_resumable_checkpoints()
\* returns except the last can be rolled back to.
EarlierCanBeResumed ==
    CanResume => \A p \in Resumable :
        (p + 1 \in Resumable) => CanRollback(p, Resumable)

\* Between runs, the children of the engine's DOC root are the completed
\* checkpoints: rollbacks, resumes and failed runs keep the record in the DOC,
\* which the next process relies on, in step with the completed flags.
DoneIsCompleted ==
    pc = "idle" =>
        \E k \in 0..Len(checkpoints) :
            /\ doc.done = SubSeq(checkpoints, 1, k)
            /\ \A i \in DOMAIN checkpoints : completed[checkpoints[i]] <=> i <= k

=============================================================================
