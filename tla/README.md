# TLA+ verification of in-gate software of pluribus_userland

The repository is the Pluribus/OpenIndiana *userland* gate: a few hundred
recipes that build third-party software (Makefiles, `.p5m` manifests, patches),
and a smaller amount of software that is developed in the gate itself.  This
project verifies the parts of that own software with the hardest control:

* the **Caiman install engine**, which drives every installer the distribution
  ships (Python, `components/openindiana/caiman/caiman_src/caiman/usr/src`,
  `$CAIMAN` below);
* the **PKCS#11 engine of OpenSSL**, its session pool and its cache of key objects
  (C, `components/openssl/openssl-1.0.2/engines/pkcs11`, `$PK11`);
* the **Entity MIB** of the SNMP agent: five tables that refer to each other, and
  the trap that announces a change (C,
  `components/net-snmp/sun/agent/modules/entityMib`, `$ENT`).

## 1. Inventory

| component | source | state it keeps | operations | what is hard about it |
|---|---|---|---|---|
| Install engine, control | `$CAIMAN/lib/install_engine/__init__.py` | checkpoint list and `completed` flags, `__currently_executing`, `checkpoint_thread`, `_checkpoint_lock`, `_cancel_event` | `register_checkpoint`, `execute_checkpoints`, `_execute_checkpoints` (own thread or `_PseudoThread`), `cancel_checkpoints`, `cleanup_checkpoints` | two or more threads, cancel racing start/finish, callbacks, failing checkpoints |
| Install engine, snapshots | same file, `snapshot`, `_rollback`, `resume_execute_checkpoints`, `get_resumable_checkpoints`; `Filesystem` in `lib/install_target/logical.py` | DOC cache files, ZFS snapshots, per-checkpoint `data_cache_path`/`zfs_snap`, the engine node of the DOC | snapshot before and after each checkpoint, in-process rollback, out-of-process resume, cleanup | two stores updated one after the other, crash between them, stale snapshots of an abandoned timeline |
| PKCS#11 engine, sessions | `$PK11/e_pk11.c` | free lists of `PK11_SESSION` per operation type, the key and direction cached in each, the static `pid` | `pk11_get_session`, `pk11_return_session`, cipher, digest and random functions, `pk11_library_init`, `pk11_finish`, fork handlers | many error paths that return sessions, cached keys, fork while sessions are in use |
| PKCS#11 engine, RSA key objects | `$PK11/e_pk11_pub.c` | per-session cached objects, `active_list` of reference counts, the token's objects | check, drop, find, create, add, `pk11_load_privkey` | threads that share objects, the last reference destroys, `RSA` addresses used again |
| Entity MIB, tables | `$ENT/ent*Table.c` | physical and logical list, contains, LP mapping and alias mapping tables | 20 calls that allocate, delete, make stale or live, map | five tables kept consistent by hand, index reuse, tail pointer, cycles |
| Entity MIB, trap | `$ENT/entLastChangeTime.c` | time of the last change and of the last trap, alarms | `configChanged`, alarm callback | throttled traps must not lose a change |
| Data object cache (DOC) | `$CAIMAN/lib/install_doc/data_object` | tree of `DataObject`s | insert, delete, snapshot/restore | structural edits while iterating |
| Progress accounting | `normalize_progress`, `_load_checkpoints`, `lib/install_logging_pymod/logger.py` | `prog_est_ratio`, `__current_completed` | normalise a percentage | rounding, never above 100 |
| Error service | `lib/liberrsvc_pymod/errsvc.py` | list of errors by module id | add, look up, clear | stale errors of an earlier run |
| Text installer | `cmd/text-install/ti_install.py`, `progress.py` | `INSTALL_STATUS`, progress socket | start, poll F9, cancel | cancel from the thread that drains the progress socket |
| Automated installer, distribution constructor, sysconfig | `cmd/auto-install`, `cmd/distro_const`, `cmd/system-config` | command line, manifest | blocking runs, resume | resume after a crash |
| Transfer checkpoints | `lib/install_transfer` | files to copy, child processes | execute, cancel | cancel before/while a child runs |
| libusb for Solaris | `components/libusb/wrapper`, `ugen` | table of open handles, plug-ins | open, close, interrupt | handles used after close |

The rest is listed in PROJECT.json as not modelled: recipes and the build system
have no program logic of their own; installadm and ai-webserver are separate
systems; libparted's library code, IBM's TPM software stack and the X11 sources
are third-party code carried in the gate.

How the parts interact.

*Installer.*  An application creates the `InstallEngine` singleton, registers
checkpoints and calls `execute_checkpoints()`, which runs `_execute_checkpoints()`
in a thread (with a callback) or inline (without).  Another thread of the
application may call `cancel_checkpoints()` at any time; it sets an event, calls
`cancel()` of the current checkpoint under `_checkpoint_lock`, joins the thread
and clears the event.  Before and after every checkpoint the engine pickles the
persistent half of the DOC to a file and, if a dataset is set, takes a ZFS snapshot
of the dataset the file is in.  A later call, or a later process, rolls both back.

*PKCS#11.*  libcrypto calls the engine's functions on contexts and `RSA`
structures of any thread.  Each call or context works on one `PK11_SESSION`, taken
from the free list of its operation type.  Symmetric keys are cached with the
session; asymmetric key objects are looked up in the token and shared between
sessions, counted in `active_list`.  After a fork the child throws the inherited
list away at its first call.

*Entity MIB.*  Other modules of the agent, all on its one thread, fill the tables
through the calls of `entity_apidoc.txt`; each call that changes a table calls
`configChanged()`, which sends a trap or leaves it to an alarm.

What makes each part correct:

* control: a cancel request reaches exactly the checkpoint that is running and
  nothing starts after it; what a run reports agrees with the flags and with
  the error service; a run always reports, and a cancel returns;
* snapshots: the file and the ZFS snapshot of one name describe the same state;
  a rollback in the process, or a resume in another one, gives a checkpoint the
  state it would have found had the earlier checkpoints just run once;
* sessions: a session is in one pair of hands; an operation uses its context's
  key on its context's data; what is in the pool can be used; pools of two
  processes do not mix;
* key objects: what a thread uses exists and is the key it asked for; one object
  per key; counts exact, nothing destroyed in use, nothing left behind;
* Entity MIB: no row names an entity that is gone; lists ordered; an entity names the
  lowest of its parents in the contains table, or the lower one it was allocated in;
  containment has no cycle; a change that the throttle suppressed is announced later.

## 2. Plan

Done: `Checkpoints`, `InstallEngine`, `InstallEngineProofs`, `EngineOutcomeProofs`,
`EngineSnapshots`, `EngineSnapshotsProofs`, `Pk11Sessions`, `Pk11SessionsProofs`,
`KeyReferences`, `Pk11Keys`, `Pk11KeysProofs`, `Pk11ReferencesProofs`, `EntityTables`,
`EntityTablesProofs`, `EntityTraps`, `EntityTrapsProofs`.

Next, in this order:

1. `pk11_load_pubkey`, DSA and DH as instances of `Pk11Keys`.
2. The text installer as a client of `InstallEngine` (F9, the blocking preparation
   run, the callback run, what it takes for success).
3. The libusb wrapper's handle table.
4. Transfer checkpoints: `cancel()` against their child processes, as a refinement
   of the contract that `InstallEngine` assumes of `cancel()`.
5. Progress ratios and the DOC tree, as algorithms over bounded inputs.

## 3. The modules

### Checkpoints

The pure functions of the checkpoint list: lookup, first incomplete checkpoint,
insertion, `get_exec_list`, and the loop at the end of `_rollback` that resets
the flags.  Shared by the two state machines of the engine.

### InstallEngine (and MCInstallEngine)

| variable | code |
|---|---|
| `checkpoints`, `completed` | `self._checkpoints`, `CheckpointData.completed` |
| `currently_executing`, `checkpoint_thread`, `checkpoint_lock`, `cancel_event` | the attributes of the same name |
| `pc`, `mode`, `todo`, `idx`, `status`, `failed`, `succeeded` | program counter and locals of `_execute_checkpoints()`, one per run |
| `client`, `waits` | where each application thread is, and the run it joins or executes inline |
| `notified`, `cancelled`, `errors` | what the callback was given, the checkpoint objects whose `cancel()` was called, errors filed with errsvc |

A *run* is one call of `execute_checkpoints()`.  Its loop is split where another
thread can interfere: test of the event (lock taken), assignment of
`__currently_executing` (lock released), snapshot, `execute()`, recording the
completion, second snapshot, the `except`, `finally` and callback.  The same
steps are taken by a new thread in callback mode and by the caller in blocking
mode; `_PseudoThread.start` is `Thread.run`, so `is_alive()` is false and
`join()` raises for it, which the model follows.  `cancel_checkpoints()` is four
steps: set the event, call `cancel()`, join, clear.  A call that raises before it
has assigned anything is not a step.  A checkpoint is any code: it may succeed,
fail, or call `register_checkpoint()` and `cleanup_checkpoints()` itself.
`stop_on_error` is a property the application may set at any time: each failure
takes one of the values in `StopModes`.  `execute_checkpoints()` would start a thread
beside one that executes; no client of the engine does that, and `MayStart` leaves it
out: a run starts when every earlier one has reported.  With `Overlap` it may start from
the callback of the earlier one, whose thread then still has steps to take; without,
only when all threads have exited.  Section 4 says what another client would meet.

### EngineSnapshots (and MCEngineSnapshots)

| variable | code |
|---|---|
| `checkpoints`, `completed`, `data_cache_path`, `zfs_snap` | the list and the fields of `CheckpointData` |
| `doc` | persistent DOC: `done`, the children of the engine's root node, and `work`, one entry per execution of a checkpoint |
| `fs` | the dataset: `work` and the `.data_cache.*` files in order of mtime |
| `zsnaps` | ZFS snapshots in order of creation, each with the dataset it captured |
| `tmp` | cache files in the temporary directory, used while no dataset is set |
| `resume_ok`, `zfs_modified`, `dataset` | `__resume_exec_cp_ok`, `zfs_snapshots_modifed`, whether the dataset property is set |
| `pc`, `todo`, `ok`, `succeeded`, `snapshot_name` | the loop, one run at a time |
| `stop_on_error`, `unsaved` | chosen in Init and kept: the property, and the number of checkpoints the application runs before it sets the dataset |
| `before` | history variable: the DOC and the dataset each checkpoint found at its latest turn |

A snapshot is up to four steps (truncate the file, dump the DOC, destroy an old
ZFS snapshot of that name, create the new one) and the process may be killed
between any two of them; it then loses everything but `fs` and `zsnaps` and
starts again with any list of `Lists`.  `client` is distro_const (two phases
around setting the dataset, roll back to `@empty` unless resuming, one resume,
exit after a failed run) or any program using the in-process interface.
The checkpoint's own effect on DOC and dataset (`DoWork`) is external: it appends
one entry, marked as partial when `execute()` raises.  Filters of the two stores are
written with `Kept`, a recursive function, so that they can be proved about.

### Pk11Sessions (and MCPk11Sessions)

| variable | code |
|---|---|
| `freelist`, `alive`, `sess` | `session_cache[].head`, allocated structures, the fields of `PK11_SESSION` (`pid`, `opdata_cipher_key`, `opdata_key`, `opdata_encrypt`) and, external, the operation active in its PKCS#11 session |
| `pid`, `last_pid` | `getpid()`, the static `pid` of `pk11_get_session()` |
| `pk11_pid`, `pk11_library_initialized`, `restarts` | globals of the same name; times the engine was finished |
| `ctx`, `users` | EVP contexts with `state->sp` and, as history, the key, direction and amount of data the caller has given them; which contexts are used |
| `unhandled` | history, see below |

Contexts run concurrently, a context is used by one thread at a time.  Taking and
returning a session is one step (it happens under the pool's lock), also where
`pk11_setup_session()` finds that the library is not initialised in a child and does it
itself (`GetReinitialized`), which replaces the locks and resets the lists of all types;
two threads of a child that do this at once, for two types, are not in the model.  Cipher
initialisation is three (take, prepare the key, `C_EncryptInit`), digest copy two.
Data is counted modulo `Blocks` = 2, enough to see a block missed or processed
twice.  Copying a digest takes a session, loads the saved operation state of the source
into it, whole, and fails or not.  The PKCS#11 library is external: every call site may
fail (`Failing`).

### KeyReferences, Pk11Keys (and MCPk11Keys)

`KeyReferences` is the abstract specification: sessions hold keys, and the token
has an object for a key from the first hold to the last drop.  `Pk11Keys` is the
code: handles, `active_list`, `find_lock`, and the steps of a thread inside
`pk11_RSA_*`; it has `pk11_load_privkey` with its unlocked `pk11_active_add` (read and
write are two steps) and its error exits, each of which loses the session.  An RSA
structure is an address and a value, and an address may come back with another value.
`Pk11Keys` implements `KeyReferences` under the mapping `HeldKeys`, `StoredKeys` (`Refs == INSTANCE ...`): an object counts as stored
once it is referenced, so creating it and counting its first reference, two steps
under `find_lock`, are a stutter and a `Hold`.  The refinement
(`ImplementsReferences`) is stated for behaviours without unhandled failures.

### EntityTables (and MCEntityTables)

The two lists are sequences of entries with signed indexes (a negative index is a
stale entry), the other tables are functions from a row's key to the set in its
array.  One action per call of the API, whole: what a call drops from the other
tables, how it recomputes a parent.  An entry keeps, besides its parent, the one `given`
when it was allocated.  `configChanged()`, which the calls end with, is `EntityTraps`.
`isRecursiveChild` and the searches are operators; recursion is written as
functions over a bound (`Reached`: what is reached along a relation in as many rounds
as the list has entries).  `physTail`, `logTail` are the tail pointers,
`MAX_ENTITY_INDEX` and `LARGE_TABLE` keep their names.

### EntityTraps

`entLastChangeTime.c` alone, with time counted in ticks since the last trap: the
throttle, the alarms that were registered and the comparison of the two time
markers, which may come out equal within a tick.

### What the code does not cope with

The C code has error paths after which it is in a state no caller can repair, a
pointer to freed memory for instance.  The models of the C code have these steps.
They set the history variable `unhandled`; the constraint `NothingUnhandled` lets
TLC check the state after such a step but not go on from it, and the properties say
`~unhandled =>` where the step itself breaks them.  The steps are:

* `Pk11Sessions`: failed `C_DestroyObject` of a cached cipher key (result ignored);
  failed init with a cached key, failed update or final, failed re-open (the
  context keeps a pointer to a session it has given back); the error exits of the
  fork path that skip the assignment of the list head; a failed `C_CloseSession`
  in `pk11_finish`; locks that cannot be allocated when `pk11_library_init` has already
  set `pk11_library_initialized`, and a failed call of it by `pk11_setup_session`, which
  has cleared that flag under an engine in use;
* `Pk11Keys`: failed `C_DestroyObject`; `C_FindObjectsFinal` failing after a handle was
  found (the handle is kept, uncounted); an increment lost by the unlocked
  `pk11_active_add`; a key loaded into a session that caches a public key; a load that
  fails after the handle is in the session and before it is counted (the lost session
  keeps an uncounted reference);
* `EntityTables`: an entry linked to a freed tail; an index that overflows; an
  `isRecursiveChild` that runs into a cycle and does not come back; a row of the contains
  table that is lost, without `configChanged()`, because its array could not grow (the
  same failure in the two mapping tables dereferences NULL and ends the agent).

## 4. Runs

Passing:

| run | question | properties | instance |
|---|---|---|---|
| engine_callback | threaded runs, the second of which may start from the callback of the first, against cancel, failure, registration and cleanup at any moment | `TypeOK`, `NothingStartsAfterCancel`, `CanceledNamesTheCancelled`, `CompletedPrefix`, `NoLeftoverCancel` | 3 names, 2 runs, 1 executor, 1 canceller |
| engine_modes | blocking and threaded runs alternate, `debug`, both values of `stop_on_error`, with fairness | `CancelReachesCheckpoint`, `FailuresHaveErrors`, `SuccessMeansCompleted`, `ListFixedWhileExecuting`, `CancelReturns`, `RunReports` | 2 names, 2 runs that do not overlap |
| snap_distro_const | crash and resume; the list may change its suffix, and may begin with a checkpoint that runs before the dataset is set | `TypeOK`, `SnapshotConsistent`, `EarlierCanBeResumed`, `DoneIsCompleted`, `ResumeIsClean` | lists abc and ad, 6 executions, 3 restarts |
| snap_in_process | rollback, cleanup and failing snapshots in one process, both values of `stop_on_error` | `SnapshotHoldsItsDoc`, `CompletedCanBeRolledBack`, `RollbackRestores` | 2 names, 4 executions |
| pk11_sessions | the session pool with every PKCS#11 call failing at will, a fork, a finish and a re-initialisation | `TypeOK`, `ExclusiveSession`, `CipherUsesItsKey`, `DigestSeesItsData`, `PooledIsReusable`, `PoolOfOneProcess` | 2 contexts at a time (two ciphers, two digests, or one and a random user), 2 structures, 2 keys |
| pk11_keys | threads that find, create, share, drop and load RSA keys | `ActiveCounts`, `UsesTheRightKey`, `OneObjectPerKey`, `NoOrphans`, `ImplementsReferences` | 2 threads, 2 sessions, 2 values at 1 address, 1 key of the keystore |
| entity_tables | any sequence of the calls that change the tables | `TypeOK`, `ListsInOrder`, `RowsNameLiveEntities`, `ParentIsLowest`, `ContainsAcyclic` | 3 physical entities, 1 logical, 2 pairs |
| entity_traps | changes at any moment of the throttle period, late alarms | `SuppressedIsCovered`, `EveryChangeIsReported`, `TrapsStop` | period of 10 ticks, 3 alarms overdue |

Violations: each states a sentence of the code's own documentation, and TLC finds
a behaviour of the code that breaks it (PROJECT.json quotes the sentence).

| run | what happens |
|---|---|
| resumable_resumed | killed between cache file and ZFS snapshot: a checkpoint is offered that cannot be resumed |
| pk11_fork | after a fork, the first `pk11_get_session()` frees the inherited list of its own operation type and sets the static `pid`; a call for another type then takes a session of the parent |
| pk11_struct_reuse | `pk11_load_privkey` leaves the public key of another pair cached and overwrites the modulus it is compared with: a later cache hit uses the wrong public key |
| entity_cycle | a deleted entity's index is given out again while its former children still name it as their parent: an entity contains itself, and `isRecursiveChild` does not terminate |

Where the passing properties end.  Some hold only under the conditions their runs
state; outside them the code behaves as follows (see the notes of the hazards in
PROJECT.json):

* A cancel between the start of a thread and its first checkpoint reads the name of
  `None` (line 814): the callback gets `FATAL_INTERNAL`, which the docstring (lines
  493-496) does not list.  `CanceledNamesTheCancelled` is about runs that report
  `EXEC_CANCELED`.
* A cancel after a blocking run has raised joins a thread that never started:
  `join()` raises, the event stays set and the next run is cancelled, against the
  comment at lines 1205-1206.  `NoLeftoverCancel` is checked with threaded runs.
* `ListFixedWhileExecuting` is about threaded runs: `is_alive()` is false of a
  `_PseudoThread`, so a checkpoint of a blocking run can register and clean up
  checkpoints while it executes.  For the same reason `SuccessMeansCompleted` is
  about threaded runs: a checkpoint that cleans up resets the flags of the run
  it belongs to.
* `RunReports` is about runs that were started: with nothing to execute,
  `execute_checkpoints(callback=...)` returns and never calls the callback.
* `CancelReachesCheckpoint` and `ListFixedWhileExecuting` need a client that waits for
  the thread of the earlier run: a run that fails to load resets
  `__currently_executing` (line 801) after its callback, and a checkpoint of a run started
  from that callback is then forgotten while it executes.
* A client that started a run beside one that has not reported (`MayStart`; the installers
  do not) would lose more: the two threads share `__currently_executing`, the event and
  the flags, so `NothingStartsAfterCancel`, `CanceledNamesTheCancelled`, `CompletedPrefix`
  and `SuccessMeansCompleted` fail.  `NoLeftoverCancel` and `FailuresHaveErrors` do not
  depend on it.
* `RollbackRestores` and `CompletedCanBeRolledBack` need `stop_on_error`: without it
  a checkpoint executed after a failure has no snapshot, and rolling back to it
  loads the DOC of an earlier run.  `RollbackRestores` asks for the dataset back only
  where a ZFS snapshot was taken.  Both also need one process whose dataset is set
  before anything completes (`OneProcess` in the proofs): otherwise a later snapshot can
  outlive the rollback of an earlier checkpoint, or come from an earlier process, and a
  start at the later one declares the earlier one completed with nothing to roll it
  back to.
* `ResumeIsClean` needs lists that differ only in their suffix (`SamePredecessors`: with
  lists abc and then ac, c is resumed from the snapshot of its old position, with b's
  work in it; with ab and then cd, c starts on a's work), and an
  application that resumes at a checkpoint that ran with the dataset (the action
  constraint `ResumesOnDataset`, defined in `EngineSnapshots`): resuming at an earlier
  one leaves the dataset as it is.
* `ResumableCanBeResumed` fails once a process may be killed (run resumable_resumed);
  `EarlierCanBeResumed` is what remains true: only the last checkpoint offered may
  be one that cannot be resumed.
* The properties of the C models end at the steps listed in section 3 under "What
  the code does not cope with".  `PoolOfOneProcess` says that one list never mixes
  sessions of two processes; that a list is the child's own is what pk11_fork refutes.
* `NoOrphans` excludes sessions a key of the keystore was once loaded into:
  `sp->persistent` is never reset and such a session destroys no object any more.
* `ContainsAcyclic` is about the rows of the contains table; with
  `entPhysicalContainedIn` a cycle is reachable (run entity_cycle).
* `ParentIsLowest` allows for the parent given at the allocation: only the children in a
  row of the contains table are given another parent when that row goes
  (`entPhysicalContainsTable.c:543-548`), so an entity allocated in one that is deleted
  names the deleted one until a call changes it, also if it has parents in the table.

Further hazards, seen in the code and without a property: opening a cache file
truncates it before the DOC is pickled (`cache.py:198`; the model has the step);
executing a failed checkpoint again without a rollback overwrites its clean snapshot
(`__init__.py:824`); the text installer takes `FATAL_INTERNAL` for success
(`ti_install.py:266`); a process killed in the first checkpoint that runs with the
dataset can only be resumed from the very beginning (`__init__.py:694`); progress
rounding (`__init__.py:727`); sessions leaked by initialising a context twice
(`e_pk11.c:2314`) and by every failed `pk11_load_privkey` (`e_pk11_pub.c:1394`; the
model has both leaks); the order of locks in the fork handlers (`e_pk11.c:1033`);
a call of the Entity MIB that changes a table and forgets `configChanged()`, as the failing
`realloc` in `entPhysicalContainsTable.c:382` does (a call is one step of the model, so no
property can see its ways out).

Why the bounds are enough.

* Engine: two runs are what it takes for something left over (event, current
  checkpoint, flags, files) to be met by a later run; three names give a completed,
  a current and a later checkpoint, and a middle of the list to insert at.  One
  canceller is what the applications have; the proofs cover any number.
* Snapshots: four executions in a process (`MaxRuns`) allow: complete, roll back,
  fail, roll back again; three restarts (`MaxRestarts`) allow a resume of a resume
  that was killed.
* Sessions: with two structures and two contexts a structure can be used, returned
  with a key and taken by the other context, or be wanted by both; one fork
  (`MaxForks`) and one re-initialisation (`MaxRestarts`) meet every state of the pool.
* Keys: two threads race for one object; two sessions share one; two values at one
  address are the reuse of an address.  `MaxLost` = 1 leaves a session to go on with.
* Entity MIB: three entities make a chain with a middle, and the calls that drop
  rows of three different tables; `MAX_ENTITY_INDEX` = 3 and `LARGE_TABLE` = 1 put
  the overflow and the tail path within reach.  `MaxPhys`, `MaxLog` and `MaxPairs`
  bound the lists and the rows.  Two pairs make cycles of two rows at most, and with this
  `LARGE_TABLE` a gap is looked for in lists of one entry only; `ContainsStaysAcyclic` and
  `ListsStayInOrder` are about cycles and gaps of any size.
* Traps: only the order of alarm, end of the period and change matters, and every
  order occurs in a period of 10 ticks.  `MaxOverdue` bounds how many alarms the agent
  leaves undone while changes go on.

Checkpoint names and runs, session structures, contexts, keys, threads and handles are
used as symmetry sets where a run checks invariants or a step property; the runs
with fairness use no symmetry.  `CHECK_DEADLOCK FALSE` is set in the snapshot runs
only: a process that has finished, with no restart left, stops.

## 5. Fairness

* `InstallEngine`, `FairSpec` (engine_modes): weak fairness of the engine's own steps,
  of the steps of `cancel_checkpoints()`, and of `execute()` *only for a checkpoint
  whose `cancel()` was called*; that is what `AbstractCheckpoint.cancel()` asks of a
  checkpoint, and the scheduler runs every runnable thread.  Nothing is assumed of a
  checkpoint that was not cancelled, so `RunReports` says that a threaded run reports
  or stays in `execute()` for ever.
* `EntityTraps`: weak fairness of `Tick` (time passes) and of `Alarm` (the agent's main
  loop runs the alarms that are due).  Nothing is assumed of `ConfigChanged`.

## 6. Proofs

Checked by TLAPS for every value of the constants, under the named assumptions of
the modules.  None of the invariants below is inductive as it stands; each theorem
rests on a stronger invariant of its proof module, and TLC has checked that one on the
instance of a run before it was proved.

| module | theorems | property of the runs |
|---|---|---|
| `InstallEngineProofs` | `TypeCorrect`, `CancelReaches` | `TypeOK`, `CancelReachesCheckpoint` |
| `EngineOutcomeProofs` | `ReportsHaveErrors`, `CanceledIsNamed`, `SuccessIsCompletion`, `ListIsFixed`, `CancelStopsTheRun`, `EventIsCleared`, `CompletedIsPrefix` | `FailuresHaveErrors`, `CanceledNamesTheCancelled`, `SuccessMeansCompleted`, `ListFixedWhileExecuting`, `NothingStartsAfterCancel`, `NoLeftoverCancel`, `CompletedPrefix` |
| `EngineSnapshotsProofs` | `SnapshotTypes`, `SnapshotsHoldTheirDocs`; of distro_const `SnapshotsAreConsistent`, `DoneAreCompleted`, `EarlierResumable`, `ResumesAreClean`; of one process `CompletedRollBack`, `RollbacksRestore` | all eight of `snap_distro_const` and `snap_in_process` |
| `Pk11SessionsProofs` | `SessionTypes`, `SessionsAreExclusive`, `CiphersUseTheirKeys`, `DigestsSeeTheirData`, `PooledCanBeReused`, `PoolsAreOfOneProcess` | all six of `pk11_sessions` |
| `Pk11KeysProofs` | `KeyTypesCorrect`, `KeyCreatedOnce` | `TypeOK`, `OneObjectPerKey` |
| `Pk11ReferencesProofs` | `CountsAreExact`, `RightKeyUsed`, `NothingLeftBehind`, `CacheImplementsReferences` | `ActiveCounts`, `UsesTheRightKey`, `NoOrphans`, `ImplementsReferences` |
| `EntityTablesProofs` | `IndexesStayInLimit`, `ListsStayInOrder`, `RowsStayLive`, `ParentStaysLowest`, `ContainsStaysAcyclic` | all five of `entity_tables` |
| `EntityTrapsProofs` | `TrapTypeCorrect`, `SuppressedHasAlarm` | `TypeOK`, `SuppressedIsCovered` |

### Install engine

For arbitrary sets of names, runs and clients, of an application that starts a run when
the earlier ones have reported (`MayStart`).  Assumptions: `NoneAssumption` (None is
told apart from names, runs, clients and what a run reports) and `FlagAssumption` (the
flags are Booleans).

* `TypeCorrect`: the names put on `failed_checkpoint_list` come from
  `__currently_executing` and from the loop index; `IndexInRange` says that both always
  denote an element of a list.
* `CancelReaches`: `CancelInv` adds `LockDiscipline` (who holds `_checkpoint_lock`, and
  that the event is clear between the loop's test and its assignment), `OneActiveRun`
  and `CurrentIsExecuting` (`__currently_executing` is the checkpoint between its
  assignment and the `finally`).  The event can only be set by a client that holds
  the lock, so a run between its test and its assignment excludes it; once the
  checkpoint is assigned, a client that sets the event calls `cancel()` of what is
  assigned before it releases the lock.  It assumes `~Overlap`, an application that
  starts a run only when no other is active.
* `ReportsHaveErrors`, `CanceledIsNamed` hold of every instance.  `OutcomeInv` relates
  what a run has reported to its local status, its failed list and the errors it has
  filed, and `__currently_executing` to the run it belongs to.  The point of the second:
  of two active runs one has reported (`OneUnreported`), and a
  current checkpoint that an event finds has been told (`CurrentIsTold`).
* `SuccessIsCompletion`, `ListIsFixed`: `SequenceInv` adds how far a run has got in its
  list and that `checkpoint_thread` is the thread that executes.  The latter needs
  `OneThread` (runs do not overlap, or all are threaded): a blocking call that returns
  late sets `checkpoint_thread` to None under a run that has started since.
* `CancelStopsTheRun`: `CancelOrderInv` says that while a told checkpoint's run is in its
  loop, the event is still set or its run has not come back to the test, which a second
  canceller breaks by clearing the event for both (`OneCanceller`).
* `EventIsCleared` assumes threaded runs: the `join()` of a `_PseudoThread` raises and
  leaves the event set.  `CompletedIsPrefix` assumes in addition that runs stop at the
  first error; `PrefixInv` says that a run executes the list from its first incomplete
  checkpoint on, and that registration inserts behind what is completed.

Section 4 says what the code does where a hypothesis fails.

### Snapshots

*Every application*, every set of lists and every number of runs and kills,
under `ListsAssumption` and `BoundsAssumption` only (`SnapshotTypes`,
`SnapshotsHoldTheirDocs`).  `SnapInv` is `Control` (the loop and
its locals), `Stores`, `RunState` and `Saved`.  `Stores` says of each store that no name
is in it twice, without which "the file of that name" would mean nothing, and of each
ZFS snapshot that the dataset it captured has a whole file of the snapshot's own name.
A snapshot is made two steps after its file was truncated and one after it was dumped, so
this needs `Saved`: at pc = "zfs" the file of `snapshot_name` is on the dataset, whole,
also when an old snapshot of the name has just been destroyed.  A rollback removes files
and later snapshots but puts back a dataset that was captured, for which the same held.
`Kept`, the filter behind `Without` and `OnDataset`, is a recursive function: that it exists
(`KeepingExists`) and that it selects (`KeptSelects`) are shown by a least counterexample.

*distro_const*, over all its processes (`SnapshotsAreConsistent`, `DoneAreCompleted`,
`EarlierResumable`, `ResumesAreClean`).  Hypotheses: `ResumingClient`, which is
distro_const, `stop_on_error` (set from the manifest, `cmd/distro_const/__init__.py:219`,
so the theorems are about a manifest that asks for it) and `SamePredecessors`; and
`[][ResumesOnDataset]_vars`.  Section 4 says what goes wrong without the last two.
Besides the assumptions above they use `NoneAssumption`: a snapshot's name is not None.
Lists, kills, failing snapshots, the checkpoints that run before the dataset is set
and all bounds are arbitrary.  `DcInv` relates four things that the code keeps apart:

* `Flags`, `Loop`, `Works`: the DOC's record, the completed flags and the loop agree on
  how many checkpoints of the list are executed, and the DOC holds their work once;
* `Timeline`: whatever process took them, the ZFS snapshots are the first ones of the
  canonical sequence (first and second snapshot of each checkpoint in turn) of *some*
  list, and each holds, in the dataset and in the DOC of its file, the work of
  exactly the checkpoints before it (`Point`);
* `InStep`: for a process that has built the dataset up or rolled it back (`Live`) that list
  is its own, the number of snapshots is tied to the number of executed checkpoints
  (`Ahead`), and dataset and DOC have seen the same work.  A process told to resume has
  neither until it resumes;
* `SavedDoc`, `EmptyStart`: the DOC does not change between its dump and the ZFS snapshot;
  without a snapshot the dataset is empty.

The old snapshot that `Filesystem.snapshot` destroys before it makes a new one is
therefore always the newest (`OldSnapshotIsNewest`), so the sequence never gets a hole.  A
resume rolls back to a snapshot of another list at most; `SamePredecessors` makes what is
left of the sequence one of the registered list (`RollbackToPoint`).

*One process* (`CompletedRollBack`, `RollbacksRestore`), any application, also one that
goes on after failures (for which the two properties claim nothing).  Hypothesis:
`OneProcess`, that is `UnsavedCounts = {0}` and `MaxRestarts = 0`.  `ProcInv`, for runs that
stop at the first failure, says of the number k of completed checkpoints: each of
them, and the one in hand once its first snapshot is made, has in its data the name of
a ZFS snapshot or cache file that holds what it found (`CanReturnTo`); no checkpoint
after the next one has a first snapshot (`SnapsUpTo`); and the first snapshots are in
the order of the list (`Ordered`).  The order is what `zfs rollback -r` needs: it destroys all
newer snapshots, and none of those is the first snapshot of an earlier checkpoint
(`BackToFirst`).  `SnapsUpTo` is what keeps `start_from` of an incomplete checkpoint from
jumping ahead (`StartsFromCompleted`).

### PKCS#11 engine

* Sessions, for every set of contexts, structures and keys, every number of forks and
  restarts, and whichever calls fail.  `TypeInv` says what a context holds at each point
  of its control and holds in every state; `SessionInHand`, the part of `TypeOK` about the
  structures a call dereferences, follows from it.  `SessionInv` adds, as long as nothing
  unhandled has happened, that a structure is in one pair of hands (`HeldOnce`), the key
  and the operation in the session of each context (`CtxState`) and, for an
  initialised library, that the lists are apart, hold reusable sessions and are of one
  process (`Pooled`).  `PoolOfOneProcess` needs the link between the two: when a list
  holds sessions of a parent, no context that will return to it has a session of this
  process (`ListsOfOne`).  Assumption: `NoneIsNoOperation`, that None is told apart from
  an operation's state, besides the ones on the kinds of context.
* Key objects.  `KeyCreatedOnce` (unhandled failures included): `Create` relies on a
  search of an earlier step; `Critical` adds that only the owner of `find_lock` is between
  search and reference, and that what its search missed is still missing.
* `Pk11ReferencesProofs`, for finitely many threads and sessions (`FiniteAssumption`, as
  references are counted).  A count goes down with a reference and the object is
  destroyed at zero; that is right only if the count is exact, and the count stays exact
  only because a session belongs to one call (`Owned`), a slot is empty when a handle is
  put into it (`CallState`), and what is cached has the value that the cache check
  compares (`Cached`).  `RefInv` is all of these and `Balance`: count plus references not
  yet counted equals references.  From it follow the three invariants and, step by
  step, that every step of the cache is a step of `KeyReferences` or a stutter, for
  behaviours without unhandled failures.

### Entity MIB

* Tables, for every limit on the indexes, every bound on the tables and whatever
  indexes callers ask for.  `TableInv` states of the *entry at a position* what the
  properties state of an index, because calls change entries by position, and an index
  determines its position only in an ordered list: `Types` always holds, `Lists` and
  `Rows` as long as nothing unhandled has happened.  The insertion point (`EntriesBefore`,
  `FirstGap`) exists by a least-element argument, `LeastElement`, which comes from the
  library's theorem that < is well-founded on the naturals.
* `ContainsStaysAcyclic` is about recursive functions, and goes in three steps.  The
  rounds that `Reached` counts exist for every number of rounds (again by a least
  counterexample).  A set grows in every round or is closed, so that after as many
  rounds as the list has entries it is closed (`LastRoundIsClosed`).  Hence, with c, all
  that `isRecursiveChild` visits is closed under the contains table, and a pair whose
  parent is outside of it makes no cycle (`PairNoCycle`).  `NoCycle`, the inductive form,
  gives for every index a set that it is not in and that no row leads out of.
* Traps, for every throttle period and however late the alarms run.  `CoverInv` extends
  `SuppressedIsCovered` to the time before the change: within the period after a trap,
  the alarm set with that trap has not run usefully yet.  A tick brings the alarm nearer
  by exactly as much as the end of the period, and an alarm that runs within the
  period is another one.

### Only model-checked

The liveness properties (`CancelReturns`, `RunReports`, `EveryChangeIsReported`,
`TrapsStop`): fairness is out of the prover's reach.  The other properties of the runs are all
stated by a theorem, under the hypotheses named above.  The four violations are
counterexamples by TLC.

## 7. What is not modelled

*Installer.*  Progress percentages and logging; validation of names, paths and
constructor arguments in `register_checkpoint()` (a registration that raises is not a
step); the DOC as a tree, its XML side and its volatile half; a dataset that is named
but does not exist; `TEMP_DOC_DIR`; a checkpoint whose own name ends in `-completed`,
whose snapshots would collide with another's; loss of data that ZFS had not yet
committed in a crash of the machine (a killed process loses nothing).  Two
clients cancelling at the same time are in the model but not in the runs: the first to
return clears the event for both, and a run may then go on to the next checkpoint, which
is why `CancelStopsTheRun` assumes one canceller; the other theorems do not.

*PKCS#11.*  Slot selection, the mechanism tables and control commands; PIN entry and
login (`e_pk11_uri.c`); padding; DSA and DH, which repeat the RSA structure;
`pk11_load_pubkey`; the order of the locks in the fork handlers (locks are atomic
steps or, for `find_lock`, an owner); the parent after a fork (the model goes on with
the child).

*Entity MIB.*  Rendering of rows for SNMP, the strings of an entry and failing memory
allocation, but for the row of the contains table that it loses.  The tables are
registered read-only (`entPhysicalTable.c:55-61`), so the write handling in their
handlers is not reached and is left out.

*Why the map covers a small share of the repository's C.*  Of some 235,000 lines of C,
most are third-party code carried in the gate: the library of parted (61,000), IBM's
TPM 2.0 software stack (50,000), X11 (tables of character sets and Xlib).  The gate
holds four nearly identical copies of the PKCS#11 engine, for four releases of
OpenSSL; the models are of the one for 1.0.2.  Modelling vendored code, or mapping the
copies to the same definitions, would say nothing about this repository's own
logic, most of which is in Python and not in that count.
