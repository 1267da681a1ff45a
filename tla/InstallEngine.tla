---------------------------- MODULE InstallEngine ----------------------------
(***************************************************************************)
(* The control of Caiman's InstallEngine: client threads that register,    *)
(* execute, cancel and clean up checkpoints, and the threads that run the  *)
(* checkpoints of one execute_checkpoints() call.                          *)
(*                                                                         *)
(* A run r is one call of execute_checkpoints().  In "callback" mode its   *)
(* steps are those of a new thread; in "blocking" mode they are performed  *)
(* by the calling client through _PseudoThread, whose start() is run(), so *)
(* that Thread.is_alive() never holds for it and Thread.join() raises.     *)
(*                                                                         *)
(* The checkpoint object of element i of run r's list is the pair <<r, i>>.*)
(* The DOC and the ZFS dataset are the subject of module EngineSnapshots:  *)
(* here a snapshot either succeeds or raises, and a rollback either raises *)
(* or resets the completed flags.                                          *)
(***************************************************************************)
EXTENDS Checkpoints, FiniteSets

CONSTANTS
    Names,          \* names a checkpoint can be registered under
    Runs,           \* executions: the bound on execute_checkpoints() calls
    Executors,      \* client threads that register, execute and clean up
    Cancellers,     \* client threads that call cancel_checkpoints()
    Modes,          \* subset of {"blocking", "callback"}
    StopModes,      \* values the application gives stop_on_error
    Debug,          \* InstallEngine.debug
    SnapshotsFail,  \* may taking a snapshot raise (disk full, zfs error)?
    Overlap,        \* may the application start a run from a callback, or
                    \* after it, before the thread of that callback has exited?
    None            \* Python's None

FATAL_INTERNAL == "InstallEngineInternal"
EXEC_SUCCESS   == "Execution Successful"
EXEC_FAILED    == "Execution Failed"
EXEC_CANCELED  == "Execution Canceled"
CP_INIT_FAILED == "Checkpoint Initialization Failed"
RAISED         == "raised"    \* a blocking call that left by an exception

Status  == {FATAL_INTERNAL, EXEC_SUCCESS, EXEC_FAILED, EXEC_CANCELED,
            CP_INIT_FAILED}
Clients == Executors \cup Cancellers

ASSUME NoneAssumption ==
    /\ None \notin Names \cup Runs \cup Clients \cup Status \cup {RAISED}
    /\ Runs \cap Clients = {}

ASSUME FlagAssumption ==
    /\ Modes \subseteq {"blocking", "callback"}
    /\ StopModes \subseteq BOOLEAN
    /\ Debug \in BOOLEAN
    /\ SnapshotsFail \in BOOLEAN
    /\ Overlap \in BOOLEAN

VARIABLES
    checkpoints,          \* self._checkpoints: the registered names in order
    completed,            \* CheckpointData.completed
    currently_executing,  \* self.__currently_executing
    checkpoint_thread,    \* self.checkpoint_thread
    checkpoint_lock,      \* owner of self._checkpoint_lock
    cancel_event,         \* self._cancel_event
    pc,                   \* where the thread of each run is
    mode,                 \* blocking or callback, for each run
    todo,                 \* checkpoint_data_list of each run
    idx,                  \* element of todo the run's loop is at
    status,               \* local variable status
    failed,               \* local variable failed_checkpoint_list
    succeeded,            \* local variable completed
    notified,             \* what the callback was given, or None
    client,               \* where each client thread is
    waits,                \* run a client joins or is executing inline
    cancelled,            \* checkpoint objects whose cancel() was called
    errors                \* errsvc: <<mod_id, run that reported it>>

engineVars == <<checkpoints, completed>>
sharedVars == <<currently_executing, checkpoint_thread, checkpoint_lock,
                cancel_event>>
localVars  == <<mode, todo, idx, status, failed, succeeded>>
clientVars == <<client, waits>>
ghostVars  == <<notified, cancelled, errors>>
vars == <<engineVars, sharedVars, pc, localVars, clientVars, ghostVars>>

-----------------------------------------------------------------------------
NoInstance == <<None, 0>>       \* __currently_executing is None

Instance(r) == <<r, idx[r]>>
CpName(inst) == todo[inst[1]][inst[2]]

PCs == {"none", "load", "initcallback", "initreset", "top", "assign", "snap",
        "exec", "record", "snapdone", "fatal", "finally", "raise", "callback",
        "exit", "done"}

\* Places of a client inside cancel_checkpoints(), and in a blocking run.
ClientPCs == {"idle", "blocked", "cancel", "join", "joining", "clear"}

TypeOK ==
    /\ checkpoints \in Seq(Names)
    /\ completed \in [Names -> BOOLEAN]
    /\ currently_executing \in (Runs \X Nat) \cup {NoInstance}
    /\ checkpoint_thread \in Runs \cup {None}
    /\ checkpoint_lock \in Runs \cup Clients \cup {None}
    /\ cancel_event \in BOOLEAN
    /\ pc \in [Runs -> PCs]
    /\ mode \in [Runs -> {"blocking", "callback"}]
    /\ todo \in [Runs -> Seq(Names)]
    /\ idx \in [Runs -> Nat]
    /\ status \in [Runs -> Status]
    /\ failed \in [Runs -> Seq(Names \cup {FATAL_INTERNAL})]
    /\ succeeded \in [Runs -> BOOLEAN]
    /\ notified \in [Runs -> Status \cup {None, RAISED}]
    /\ client \in [Clients -> ClientPCs]
    /\ waits \in [Clients -> Runs \cup {None}]
    /\ cancelled \subseteq Runs \X Nat
    /\ errors \subseteq (Names \cup {FATAL_INTERNAL}) \X Runs

Init ==
    /\ checkpoints = <<>>
    /\ completed = [n \in Names |-> FALSE]
    /\ currently_executing = NoInstance
    /\ checkpoint_thread = None
    /\ checkpoint_lock = None
    /\ cancel_event = FALSE
    /\ pc = [r \in Runs |-> "none"]
    /\ mode = [r \in Runs |-> "callback"]
    /\ todo = [r \in Runs |-> <<>>]
    /\ idx = [r \in Runs |-> 0]
    /\ status = [r \in Runs |-> EXEC_SUCCESS]
    /\ failed = [r \in Runs |-> <<>>]
    /\ succeeded = [r \in Runs |-> FALSE]
    /\ notified = [r \in Runs |-> None]
    /\ client = [t \in Clients |-> "idle"]
    /\ waits = [t \in Clients |-> None]
    /\ cancelled = {}
    /\ errors = {}

\* The thread of run r between its creation and the end of its target.
IsActive(r) == pc[r] \notin {"none", "done"}

\* Mutant of IsExecutingCheckpoints: only while a checkpoint is current.
IsExecuting_OnlyTheLoop == currently_executing # NoInstance

\* _is_executing_checkpoints(): is_alive() is false for a _PseudoThread.
IsExecutingCheckpoints ==
    /\ checkpoint_thread # None
    /\ mode[checkpoint_thread] = "callback"
    /\ IsActive(checkpoint_thread)

\* isinstance(self.checkpoint_thread, InstallEngine._PseudoThread)
ThreadIsPseudo ==
    checkpoint_thread # None /\ mode[checkpoint_thread] = "blocking"

\* Code that can call into the engine: an idle executor, or execute() of a
\* checkpoint that is running.
CallerReady ==
    \/ \E t \in Executors : client[t] = "idle"
    \/ \E r \in Runs : pc[r] = "exec"

-----------------------------------------------------------------------------
(* register_checkpoint, execute_checkpoints and cleanup_checkpoints.       *)
(* A call that raises before it assigns anything is not a step.            *)

\* Mutant of MayInsertBefore: the completed flag is not looked at.
MayInsertBefore_AnyRegistered(before) ==
    before = None \/ IsRegistered(checkpoints, before)

\* insert_before is None or a registered checkpoint that is not completed.
MayInsertBefore(before) ==
    before = None \/ (IsRegistered(checkpoints, before) /\ ~completed[before])

\* register_checkpoint(): refused while is_alive() holds of the thread.
RegisterCheckpoint(name, before) ==
    /\ CallerReady
    /\ ~IsExecutingCheckpoints
    /\ ~IsRegistered(checkpoints, name)
    /\ MayInsertBefore(before)
    /\ LET pos == IF before = None THEN Len(checkpoints) + 1
                  ELSE CpIndex(checkpoints, before)
       IN  checkpoints' = InsertCheckpoint(checkpoints, pos, name)
    /\ UNCHANGED <<completed, sharedVars, pc, localVars, clientVars, ghostVars>>

CleanupCheckpoints ==
    /\ CallerReady
    /\ ~IsExecutingCheckpoints
    /\ completed' = [n \in Names |->
                        IF IsRegistered(checkpoints, n) THEN FALSE
                        ELSE completed[n]]
    /\ UNCHANGED <<checkpoints, sharedVars, pc, localVars, clientVars, ghostVars>>

\* When the application starts a run.  execute_checkpoints() itself has no such
\* guard, it would start a thread beside one that executes; this is what the
\* engine's clients do: the next run starts once the earlier ones have reported,
\* with Overlap while the thread of the callback may not have exited (the reset
\* of LoadFails is still to come), without it when every thread has.
MayStart ==
    \A r \in Runs : IsActive(r) => Overlap /\ notified[r] # None

\* The end of execute_checkpoints: the thread object is created, stored in
\* checkpoint_thread and started.
StartRun(t, r, m, list) ==
    /\ pc' = [pc EXCEPT ![r] = "load"]
    /\ mode' = [mode EXCEPT ![r] = m]
    /\ todo' = [todo EXCEPT ![r] = list]
    /\ checkpoint_thread' = r
    /\ client' = [client EXCEPT ![t] = IF m = "blocking" THEN "blocked" ELSE @]
    /\ waits' = [waits EXCEPT ![t] = IF m = "blocking" THEN r ELSE @]
    /\ UNCHANGED <<checkpoints, currently_executing, checkpoint_lock,
                   cancel_event, idx, status, failed, succeeded, ghostVars>>

\* No checkpoint to execute: (EXEC_SUCCESS, []) is returned, and the callback
\* is not called.
NothingToRun(r, m) ==
    /\ pc' = [pc EXCEPT ![r] = "done"]
    /\ mode' = [mode EXCEPT ![r] = m]
    /\ UNCHANGED <<checkpoints, sharedVars, todo, idx, status, failed,
                   succeeded, clientVars, ghostVars>>

PausePosition(pause) ==
    IF pause = None THEN Len(checkpoints) + 1
    ELSE IF IsRegistered(checkpoints, pause) THEN CpIndex(checkpoints, pause)
    ELSE 0

\* execute_checkpoints once the flags are flags: get_exec_list, then the run.
ExecuteFrom(t, r, m, flags, start, pause) ==
    /\ completed' = flags
    /\ IF ~ExecListIsValid(checkpoints, flags, start, pause)
       THEN UNCHANGED <<checkpoints, sharedVars, pc, localVars, clientVars,
                        ghostVars>>
       ELSE IF start = pause
       THEN NothingToRun(r, m)
       ELSE StartRun(t, r, m, ExecList(checkpoints, start, pause))

\* execute_checkpoints(start_from=None, pause_before=pause)
ExecuteCheckpoints(t, r, m, pause) ==
    /\ client[t] = "idle" /\ pc[r] = "none" /\ MayStart
    /\ \/ /\ AllCompleted(checkpoints, completed)
          /\ completed' = completed
          /\ NothingToRun(r, m)
       \/ \E first \in DOMAIN checkpoints :
             /\ IsFirstIncomplete(checkpoints, completed, first)
             /\ ExecuteFrom(t, r, m, completed, first, PausePosition(pause))

\* execute_checkpoints(start_from=start, pause_before=pause): a rollback that
\* raises is not a step; one that succeeds is kept even if get_exec_list then
\* raises.
ExecuteCheckpointsFrom(t, r, m, start, pause) ==
    /\ client[t] = "idle" /\ pc[r] = "none" /\ MayStart
    /\ IsRegistered(checkpoints, start)
    /\ LET pos == CpIndex(checkpoints, start)
           flags == IF IsFirstIncomplete(checkpoints, completed, pos)
                    THEN completed
                    ELSE RolledBack(checkpoints, completed, pos)
       IN  ExecuteFrom(t, r, m, flags, pos, PausePosition(pause))

-----------------------------------------------------------------------------
(* _execute_checkpoints, the target of the run's thread.                   *)

\* Mutant of LoadFails: the callback is given no name.
LoadFails_NoName(r, k) ==
    /\ pc' = [pc EXCEPT ![r] = "initcallback"]
    /\ errors' = errors \cup {<<todo[r][k], r>>}
    /\ status' = [status EXCEPT ![r] = CP_INIT_FAILED]
    /\ failed' = [failed EXCEPT ![r] = <<None>>]

\* Mutant of LoadFails: nothing is filed with errsvc.
LoadFails_NoError(r, k) ==
    /\ pc' = [pc EXCEPT ![r] = "initcallback"]
    /\ errors' = errors
    /\ status' = [status EXCEPT ![r] = CP_INIT_FAILED]
    /\ failed' = [failed EXCEPT ![r] = <<todo[r][k]>>]

\* Checkpoint number k raises while it is instantiated.
LoadFails(r, k) ==
    /\ pc' = [pc EXCEPT ![r] = "initcallback"]
    /\ errors' = errors \cup {<<todo[r][k], r>>}
    /\ status' = [status EXCEPT ![r] = CP_INIT_FAILED]
    /\ failed' = [failed EXCEPT ![r] = <<todo[r][k]>>]

\* _load_checkpoints: every checkpoint is instantiated, or one of them fails.
LoadCheckpoints(r) ==
    /\ pc[r] = "load"
    /\ \/ /\ pc' = [pc EXCEPT ![r] = "top"]
          /\ idx' = [idx EXCEPT ![r] = 1]
          /\ UNCHANGED <<status, failed, errors>>
       \/ /\ \E k \in DOMAIN todo[r] : LoadFails(r, k)
          /\ UNCHANGED idx
    /\ UNCHANGED <<engineVars, sharedVars, mode, todo, succeeded, clientVars,
                   notified, cancelled>>

\* callback(CP_INIT_FAILED, ...) before __currently_executing is reset
InitCallback(r) ==
    /\ pc[r] = "initcallback"
    /\ pc' = [pc EXCEPT ![r] = "initreset"]
    /\ notified' = [notified EXCEPT ![r] = status[r]]
    /\ UNCHANGED <<engineVars, sharedVars, localVars, clientVars, cancelled,
                   errors>>

InitReset(r) ==
    /\ pc[r] = "initreset"
    /\ checkpoint_lock = None
    /\ currently_executing' = NoInstance
    /\ pc' = [pc EXCEPT ![r] = "exit"]
    /\ UNCHANGED <<engineVars, checkpoint_thread, checkpoint_lock,
                   cancel_event, localVars, clientVars, ghostVars>>

\* Mutant of EnterCheckpoint: the event is tested without the lock.
EnterCheckpoint_Unlocked(r) ==
    /\ pc' = [pc EXCEPT ![r] = "assign"]
    /\ UNCHANGED <<checkpoint_lock, status, failed>>

\* _cancel_event is not set: go on to the assignment, still holding the lock.
EnterCheckpoint(r) ==
    /\ pc' = [pc EXCEPT ![r] = "assign"]
    /\ checkpoint_lock' = r
    /\ UNCHANGED <<status, failed>>

\* Mutant of LeaveCanceled: the name of the checkpoint not started.
LeaveCanceled_NextName(r) ==
    /\ status' = [status EXCEPT ![r] = EXEC_CANCELED]
    /\ pc' = [pc EXCEPT ![r] = "finally"]
    /\ failed' = [failed EXCEPT ![r] = Append(@, todo[r][idx[r]])]
    /\ UNCHANGED checkpoint_lock

\* _cancel_event is set: the name of __currently_executing joins the failed
\* list; None has no name, so then the run dies of an AttributeError.
LeaveCanceled(r) ==
    /\ status' = [status EXCEPT ![r] = EXEC_CANCELED]
    /\ IF currently_executing = NoInstance
       THEN /\ pc' = [pc EXCEPT ![r] = "fatal"]
            /\ UNCHANGED failed
       ELSE /\ pc' = [pc EXCEPT ![r] = "finally"]
            /\ failed' = [failed EXCEPT ![r] =
                            Append(@, CpName(currently_executing))]
    /\ UNCHANGED checkpoint_lock

\* The head of the loop takes the lock and tests _cancel_event.
TestCancel(r) ==
    /\ pc[r] = "top"
    /\ checkpoint_lock = None
    /\ IF cancel_event THEN LeaveCanceled(r) ELSE EnterCheckpoint(r)
    /\ UNCHANGED <<engineVars, currently_executing, checkpoint_thread,
                   cancel_event, mode, todo, idx, succeeded, clientVars,
                   ghostVars>>

\* self.__currently_executing = checkpoint, and the lock is released
AssignCurrent(r) ==
    /\ pc[r] = "assign"
    /\ currently_executing' = Instance(r)
    /\ checkpoint_lock' = None
    /\ pc' = [pc EXCEPT ![r] = "snap"]
    /\ UNCHANGED <<engineVars, checkpoint_thread, cancel_event, localVars,
                   clientVars, ghostVars>>

\* The snapshot before the checkpoint, taken while nothing has failed.
SnapshotBefore(r) ==
    /\ pc[r] = "snap"
    /\ \/ pc' = [pc EXCEPT ![r] = "exec"]
       \/ /\ SnapshotsFail /\ status[r] = EXEC_SUCCESS
          /\ pc' = [pc EXCEPT ![r] = "fatal"]
    /\ UNCHANGED <<engineVars, sharedVars, localVars, clientVars, ghostVars>>

ExecuteSucceeds(r) ==
    /\ pc[r] = "exec"
    /\ succeeded' = [succeeded EXCEPT ![r] = TRUE]
    /\ pc' = [pc EXCEPT ![r] = "record"]
    /\ UNCHANGED <<engineVars, sharedVars, mode, todo, idx, status, failed,
                   clientVars, ghostVars>>

\* execute() raises: the error is filed under the checkpoint's name; with
\* stop_on_error, which the application may assign at any time, the loop ends,
\* in debug mode by re-raising the exception when the engine runs in the
\* caller's thread.
ExecuteFails(r) ==
    /\ pc[r] = "exec"
    /\ succeeded' = [succeeded EXCEPT ![r] = FALSE]
    /\ errors' = errors \cup {<<todo[r][idx[r]], r>>}
    /\ failed' = [failed EXCEPT ![r] = Append(@, todo[r][idx[r]])]
    /\ status' = [status EXCEPT ![r] = EXEC_FAILED]
    /\ \E stop_on_error \in StopModes :
          pc' = [pc EXCEPT ![r] = IF ~stop_on_error THEN "record"
                                  ELSE IF Debug /\ ThreadIsPseudo THEN "fatal"
                                  ELSE "finally"]
    /\ UNCHANGED <<engineVars, sharedVars, mode, todo, idx, clientVars,
                   notified, cancelled>>

\* cp_data.completed = completed; then "... completed." is reported unless the
\* checkpoint reported 100% itself.  The report goes through
\* normalize_progress, which needs __currently_executing.
RecordCompletion(r) ==
    /\ pc[r] = "record"
    /\ completed' = [completed EXCEPT ![todo[r][idx[r]]] = succeeded[r]]
    /\ \/ pc' = [pc EXCEPT ![r] = "snapdone"]
       \/ /\ currently_executing = NoInstance
          /\ pc' = [pc EXCEPT ![r] = "fatal"]
    /\ UNCHANGED <<checkpoints, sharedVars, localVars, clientVars, ghostVars>>

\* Mutant of NextTurn: the loop ends one checkpoint early.
NextTurn_SkipsLast(r) == idx[r] + 1 < Len(todo[r])

\* The for loop has another checkpoint to execute.
NextTurn(r) == idx[r] < Len(todo[r])

\* The "-completed" snapshot, and the next turn of the loop.
SnapshotAfter(r) ==
    /\ pc[r] = "snapdone"
    /\ \/ /\ pc' = [pc EXCEPT ![r] = IF NextTurn(r) THEN "top" ELSE "finally"]
          /\ idx' = [idx EXCEPT ![r] = IF NextTurn(r) THEN @ + 1 ELSE @]
       \/ /\ SnapshotsFail /\ status[r] = EXEC_SUCCESS
          /\ pc' = [pc EXCEPT ![r] = "fatal"]
          /\ UNCHANGED idx
    /\ UNCHANGED <<engineVars, sharedVars, mode, todo, status, failed,
                   succeeded, clientVars, ghostVars>>

\* Mutant of AfterFatal: raise in a thread as well.
AfterFatal_AlwaysRaises(r) == "raise"

\* The outer except clause re-raises in the caller's thread only.
AfterFatal(r) == IF ThreadIsPseudo THEN "raise" ELSE "finally"

\* The outer except clause.
FatalError(r) ==
    /\ pc[r] = "fatal"
    /\ status' = [status EXCEPT ![r] = FATAL_INTERNAL]
    /\ errors' = errors \cup {<<FATAL_INTERNAL, r>>}
    /\ failed' = [failed EXCEPT ![r] = <<FATAL_INTERNAL>> \o @]
    /\ pc' = [pc EXCEPT ![r] = AfterFatal(r)]
    /\ UNCHANGED <<engineVars, sharedVars, mode, todo, idx, succeeded,
                   clientVars, notified, cancelled>>

\* execute_checkpoints() in blocking mode leaves, by a return or an exception.
ReturnToClient(r) ==
    LET Back(t) == client[t] = "blocked" /\ waits[t] = r
    IN  /\ client' = [t \in Clients |-> IF Back(t) THEN "idle" ELSE client[t]]
        /\ waits' = [t \in Clients |-> IF Back(t) THEN None ELSE waits[t]]

\* The finally clause.  A client whose blocking run raises gets the exception;
\* checkpoint_thread keeps the _PseudoThread.
FinallyReset(r) ==
    /\ pc[r] \in {"finally", "raise"}
    /\ checkpoint_lock = None
    /\ currently_executing' = NoInstance
    /\ IF pc[r] = "finally"
       THEN /\ pc' = [pc EXCEPT ![r] = "callback"]
            /\ UNCHANGED <<clientVars, notified>>
       ELSE /\ pc' = [pc EXCEPT ![r] = "done"]
            /\ notified' = [notified EXCEPT ![r] = RAISED]
            /\ ReturnToClient(r)
    /\ UNCHANGED <<engineVars, checkpoint_thread, checkpoint_lock,
                   cancel_event, localVars, cancelled, errors>>

\* callback(status, failed_checkpoint_list)
Callback(r) ==
    /\ pc[r] = "callback"
    /\ notified' = [notified EXCEPT ![r] = status[r]]
    /\ pc' = [pc EXCEPT ![r] = "exit"]
    /\ UNCHANGED <<engineVars, sharedVars, localVars, clientVars, cancelled,
                   errors>>

\* The thread exits, or the blocking call resets checkpoint_thread and returns.
ExitRun(r) ==
    /\ pc[r] = "exit"
    /\ pc' = [pc EXCEPT ![r] = "done"]
    /\ IF mode[r] = "callback"
       THEN UNCHANGED <<checkpoint_thread, clientVars>>
       ELSE /\ checkpoint_thread' = None
            /\ ReturnToClient(r)
    /\ UNCHANGED <<engineVars, currently_executing, checkpoint_lock,
                   cancel_event, localVars, ghostVars>>

-----------------------------------------------------------------------------
(* cancel_checkpoints                                                      *)

\* with self._checkpoint_lock: self._cancel_event.set() ...
SetCancelEvent(t) ==
    /\ client[t] = "idle"
    /\ checkpoint_lock = None
    /\ checkpoint_lock' = t
    /\ cancel_event' = TRUE
    /\ client' = [client EXCEPT ![t] = "cancel"]
    /\ UNCHANGED <<engineVars, currently_executing, checkpoint_thread, pc,
                   localVars, waits, ghostVars>>

\* Mutant of CancelCurrent: the event is cleared before the join.
CancelCurrent_ClearsEarly(t) ==
    /\ client[t] = "cancel"
    /\ cancelled' = IF currently_executing = NoInstance THEN cancelled
                    ELSE cancelled \cup {currently_executing}
    /\ checkpoint_lock' = None
    /\ cancel_event' = FALSE
    /\ client' = [client EXCEPT ![t] = "join"]
    /\ UNCHANGED <<engineVars, currently_executing, checkpoint_thread, pc,
                   localVars, waits, notified, errors>>

\* Mutant of CancelCurrent: cancel() is not called.
CancelCurrent_OnlySetsEvent(t) ==
    /\ client[t] = "cancel"
    /\ checkpoint_lock' = None
    /\ client' = [client EXCEPT ![t] = "join"]
    /\ UNCHANGED <<engineVars, currently_executing, checkpoint_thread,
                   cancel_event, pc, localVars, waits, ghostVars>>

\* ... self.__currently_executing.cancel(), and the lock is released
CancelCurrent(t) ==
    /\ client[t] = "cancel"
    /\ cancelled' = IF currently_executing = NoInstance THEN cancelled
                    ELSE cancelled \cup {currently_executing}
    /\ checkpoint_lock' = None
    /\ client' = [client EXCEPT ![t] = "join"]
    /\ UNCHANGED <<engineVars, currently_executing, checkpoint_thread,
                   cancel_event, pc, localVars, waits, notified, errors>>

\* Mutant of AfterNoThread: the event is not cleared.
AfterNoThread_Returns == "idle"

\* checkpoint_thread is None: nothing to join, the event is cleared next.
AfterNoThread == "clear"

\* if self.checkpoint_thread is not None: self.checkpoint_thread.join().
\* join() of a _PseudoThread raises: the event stays set.
JoinThread(t) ==
    /\ client[t] = "join"
    /\ IF checkpoint_thread = None
       THEN client' = [client EXCEPT ![t] = AfterNoThread] /\ UNCHANGED waits
       ELSE IF ThreadIsPseudo
       THEN client' = [client EXCEPT ![t] = "idle"] /\ UNCHANGED waits
       ELSE /\ client' = [client EXCEPT ![t] = "joining"]
            /\ waits' = [waits EXCEPT ![t] = checkpoint_thread]
    /\ UNCHANGED <<engineVars, sharedVars, pc, localVars, ghostVars>>

Joined(t) ==
    /\ client[t] = "joining"
    /\ pc[waits[t]] = "done"
    /\ client' = [client EXCEPT ![t] = "clear"]
    /\ waits' = [waits EXCEPT ![t] = None]
    /\ UNCHANGED <<engineVars, sharedVars, pc, localVars, ghostVars>>

\* self._cancel_event.clear(), outside the lock
ClearCancelEvent(t) ==
    /\ client[t] = "clear"
    /\ cancel_event' = FALSE
    /\ client' = [client EXCEPT ![t] = "idle"]
    /\ UNCHANGED <<engineVars, currently_executing, checkpoint_thread,
                   checkpoint_lock, pc, localVars, waits, ghostVars>>

-----------------------------------------------------------------------------
ExecuteStep(r) == ExecuteSucceeds(r) \/ ExecuteFails(r)

\* The steps of a run that depend on the engine only.
EngineStep(r) ==
    \/ LoadCheckpoints(r) \/ InitCallback(r) \/ InitReset(r)
    \/ TestCancel(r) \/ AssignCurrent(r) \/ SnapshotBefore(r)
    \/ RecordCompletion(r) \/ SnapshotAfter(r) \/ FatalError(r)
    \/ FinallyReset(r) \/ Callback(r) \/ ExitRun(r)

\* The steps of cancel_checkpoints after it has set the event.
CancelStep(t) ==
    \/ CancelCurrent(t) \/ JoinThread(t) \/ Joined(t) \/ ClearCancelEvent(t)

Next ==
    \/ \E name \in Names, before \in Names \cup {None} :
          RegisterCheckpoint(name, before)
    \/ CleanupCheckpoints
    \/ \E t \in Executors, r \in Runs, m \in Modes,
          pause \in Names \cup {None} :
          \/ ExecuteCheckpoints(t, r, m, pause)
          \/ \E start \in Names : ExecuteCheckpointsFrom(t, r, m, start, pause)
    \/ \E r \in Runs : EngineStep(r) \/ ExecuteStep(r)
    \/ \E t \in Cancellers : SetCancelEvent(t) \/ CancelStep(t)

Spec == Init /\ [][Next]_vars

(***************************************************************************)
(* Fairness.  The engine's own steps and those of cancel_checkpoints() are *)
(* straight-line Python between lock operations, so they happen unless     *)
(* they stay disabled.  AbstractCheckpoint asks execute() only to "end     *)
(* execution as appropriate" once cancel() was called, and Fairness        *)
(* assumes no more: a checkpoint that is not cancelled may run forever.    *)
(***************************************************************************)
Fairness ==
    /\ \A r \in Runs : WF_vars(EngineStep(r))
    /\ \A r \in Runs : WF_vars(Instance(r) \in cancelled /\ ExecuteStep(r))
    /\ \A t \in Cancellers : WF_vars(CancelStep(t))

FairSpec == Spec /\ Fairness

-----------------------------------------------------------------------------
Executing(r) == pc[r] \in {"snap", "exec", "record", "snapdone"}

InCancel(t) == client[t] \in {"cancel", "join", "joining", "clear"}

\* The loop index and __currently_executing always denote a checkpoint of a
\* list, so that the names appended to failed_checkpoint_list are names.
IndexInRange ==
    /\ \A r \in Runs : pc[r] = "load" => Len(todo[r]) > 0
    /\ \A r \in Runs : pc[r] \in {"top", "assign"} \/ Executing(r)
            => idx[r] \in 1..Len(todo[r])
    /\ currently_executing # NoInstance =>
            /\ pc[currently_executing[1]] # "none"
            /\ currently_executing[2] \in 1..Len(todo[currently_executing[1]])

\* _checkpoint_lock is held by the run between its test of the event and its
\* assignment, and by the client between the event's set() and cancel().
LockDiscipline ==
    /\ \A r \in Runs : pc[r] = "assign" <=> checkpoint_lock = r
    /\ \A t \in Clients : client[t] = "cancel" <=> checkpoint_lock = t
    /\ \A r \in Runs : pc[r] = "assign" => ~cancel_event

\* Without Overlap one run at a time has a live thread.
OneActiveRun ==
    \A r, s \in Runs : IsActive(r) /\ IsActive(s) => r = s

\* From the assignment under the lock to the finally clause,
\* __currently_executing is the checkpoint the run's thread is executing.
CurrentIsExecuting ==
    \A r \in Runs : Executing(r) => currently_executing = Instance(r)

\* cancel_checkpoints() and the loop exclude each other through
\* _checkpoint_lock: once a cancel request has left its critical section, a
\* checkpoint that is about to run or running has had its cancel() called.
CancelReachesCheckpoint ==
    \A r \in Runs :
        (/\ Executing(r)
         /\ cancel_event
         /\ \A t \in Clients : client[t] # "cancel")
            => Instance(r) \in cancelled

\* The inductive invariant behind CancelReachesCheckpoint: whom cancel() reaches
\* is told by the lock and by what __currently_executing denotes.
CancelInv ==
    /\ TypeOK
    /\ IndexInRange
    /\ LockDiscipline
    /\ OneActiveRun
    /\ CurrentIsExecuting
    /\ CancelReachesCheckpoint

\* A run whose checkpoint was cancelled starts no later checkpoint, however
\* long cancel_checkpoints() takes to clear the event.
NothingStartsAfterCancel ==
    \A inst \in cancelled :
        Executing(inst[1]) => idx[inst[1]] = inst[2]

\* EXEC_CANCELED is reported only for a run one of whose checkpoints had its
\* cancel() called, and that checkpoint is the last one of the failed list.
CanceledNamesTheCancelled ==
    \A r \in Runs : notified[r] = EXEC_CANCELED =>
        \E inst \in cancelled :
            /\ inst[1] = r
            /\ failed[r] # <<>>
            /\ failed[r][Len(failed[r])] = CpName(inst)

\* When the callback is about to be given EXEC_SUCCESS by a thread, every
\* checkpoint of the run is completed and none is listed as failed.  (A
\* checkpoint of a blocking run may clean up the flags while it executes.)
SuccessMeansCompleted ==
    \A r \in Runs :
      (pc[r] = "callback" /\ mode[r] = "callback" /\ status[r] = EXEC_SUCCESS) =>
        /\ \A k \in DOMAIN todo[r] : completed[todo[r][k]]
        /\ failed[r] = <<>>

\* "The application should look up exception associated with the failed
\* checkpoints using the checkpoint name": this very run filed one for each.
FailuresHaveErrors ==
    \A r \in Runs : notified[r] \in {EXEC_FAILED, CP_INIT_FAILED} =>
        /\ failed[r] # <<>>
        /\ \A k \in DOMAIN failed[r] : <<failed[r][k], r>> \in errors

\* With stop_on_error the completed checkpoints are a prefix of the list:
\* registration, rollback, cleanup and execution all preserve it.
CompletedPrefix ==
    \A i, j \in DOMAIN checkpoints :
        i < j /\ completed[checkpoints[j]] => completed[checkpoints[i]]

\* Outside cancel_checkpoints() the event is clear, so a cancel request is
\* never left over for a run that starts later.
NoLeftoverCancel ==
    cancel_event => \E t \in Clients : InCancel(t)

\* The checkpoint list does not change, and no flag is taken back, while a
\* thread is executing checkpoints.
ListFixedWhileExecuting ==
    [][(\E r \in Runs : IsActive(r) /\ IsActive(r)' /\ mode[r] = "callback")
         => /\ checkpoints' = checkpoints
            /\ \A n \in Names : completed[n] /\ ~completed'[n] =>
                  \E r \in Runs : pc[r] = "record" /\ pc'[r] # "record"]_vars

\* A cancel request that has to wait for a thread returns, even if no
\* checkpoint that was not cancelled ever finishes.
CancelReturns ==
    \A t \in Cancellers : client[t] = "joining" ~> client[t] = "idle"

\* Every thread that was started reports an outcome to its callback, whatever
\* fails and whenever it is cancelled, unless one checkpoint executes forever.
RunReports ==
    \A r \in Runs : (pc[r] = "load" /\ mode[r] = "callback")
                        ~> (notified[r] \in Status \/ [](pc[r] = "exec"))

=============================================================================
