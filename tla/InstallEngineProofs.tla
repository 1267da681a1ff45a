------------------------- MODULE InstallEngineProofs -------------------------
(***************************************************************************)
(* Proofs about InstallEngine, for any sets of names, runs and clients.    *)
(***************************************************************************)
EXTENDS InstallEngine, SequenceTheorems, TLAPS

\* The position get_cp_data finds is one of the list.
LEMMA CpIndexInDomain ==
    ASSUME NEW cps, NEW name, IsRegistered(cps, name)
    PROVE  CpIndex(cps, name) \in DOMAIN cps /\ cps[CpIndex(cps, name)] = name
BY DEF IsRegistered, CpIndex

\* list.insert: a list of names stays one.
LEMMA InsertCheckpointType ==
    ASSUME NEW S, NEW cps \in Seq(S), NEW pos \in Nat, pos <= Len(cps) + 1,
           pos >= 1, NEW name \in S
    PROVE  InsertCheckpoint(cps, pos, name) \in Seq(S)
<1> DEFINE f == [i \in 1..(Len(cps) + 1) |->
                    IF i < pos THEN cps[i] ELSE IF i = pos THEN name ELSE cps[i - 1]]
<1>1. Len(cps) \in Nat  OBVIOUS
<1>2. \A i \in 1..(Len(cps) + 1) : f[i] \in S
  BY <1>1, ElementOfSeq
<1>3. f \in Seq(S)
  BY <1>1, <1>2, IsASeq
<1> QED BY <1>3 DEF InsertCheckpoint

\* get_exec_list returns a non-empty list of names.
LEMMA ExecListType ==
    ASSUME NEW S, NEW cps \in Seq(S), NEW start \in DOMAIN cps,
           NEW pause \in 0..(Len(cps) + 1), start <= pause, start # pause
    PROVE  /\ ExecList(cps, start, pause) \in Seq(S)
           /\ Len(ExecList(cps, start, pause)) = pause - start
<1>1. /\ start \in Int /\ pause - 1 \in Int /\ start >= 1
      /\ pause - 1 <= Len(cps) /\ start <= pause - 1
      /\ DOMAIN cps = 1..Len(cps)
  OBVIOUS
<1>2. \A i \in start..(pause - 1) : cps[i] \in S
  BY <1>1, ElementOfSeq
<1> QED BY <1>1, <1>2, SubSeqProperties DEF ExecList

\* pause_before is resolved to a position of the list, to the end or to 0.
LEMMA PausePositionRange ==
    ASSUME checkpoints \in Seq(Names), NEW pause
    PROVE  PausePosition(pause) \in 0..(Len(checkpoints) + 1)
BY CpIndexInDomain DEF PausePosition

-----------------------------------------------------------------------------
(* Type correctness.                                                       *)

\* The types and what makes them inductive.
TypeInv == TypeOK /\ IndexInRange

\* The initial state has the types.
LEMMA InitTypeInv == Init => TypeInv
<1> SUFFICES ASSUME Init PROVE TypeInv
  OBVIOUS
<1> USE NoneAssumption DEF Init, NoInstance
<1>1. TypeOK
  <2>1. /\ <<>> \in Seq(Names)
        /\ <<>> \in Seq(Names \cup {FATAL_INTERNAL})
    OBVIOUS
  <2> QED BY <2>1 DEF TypeOK, PCs, ClientPCs, Status
<1>2. IndexInRange
  BY DEF IndexInRange, Executing
<1> QED BY <1>1, <1>2 DEF TypeInv

\* LoadCheckpoints preserves the types.
LEMMA TypeLoadCheckpoints ==
    ASSUME TypeInv, NEW r \in Runs, LoadCheckpoints(r)
    PROVE  TypeInv'
<1> USE NoneAssumption DEF TypeInv, TypeOK, IndexInRange, Executing, PCs, ClientPCs, Status,
      NoInstance, engineVars, sharedVars, localVars, clientVars, ghostVars
<1>1. CASE /\ pc' = [pc EXCEPT ![r] = "top"]
           /\ idx' = [idx EXCEPT ![r] = 1]
           /\ UNCHANGED <<status, failed, errors>>
  <2>1. TypeOK'  BY <1>1 DEF LoadCheckpoints
  <2>2. IndexInRange'  BY <1>1 DEF LoadCheckpoints
  <2> QED BY <2>1, <2>2
<1>2. ASSUME NEW k \in DOMAIN todo[r], LoadFails(r, k), UNCHANGED idx
      PROVE  TypeInv'
  <2>1. todo[r][k] \in Names  BY ElementOfSeq
  <2>2. <<todo[r][k]>> \in Seq(Names \cup {FATAL_INTERNAL})  BY <2>1
  <2>3. errors' \subseteq (Names \cup {FATAL_INTERNAL}) \X Runs
    BY <1>2, <2>1 DEF LoadFails
  <2>4. /\ pc' \in [Runs -> PCs]
        /\ status' \in [Runs -> Status]
        /\ failed' \in [Runs -> Seq(Names \cup {FATAL_INTERNAL})]
    BY <1>2, <2>2 DEF LoadFails
  <2>5. TypeOK'  BY <1>2, <2>3, <2>4 DEF LoadCheckpoints
  <2>6. IndexInRange'  BY <1>2 DEF LoadCheckpoints, LoadFails
  <2> QED BY <2>5, <2>6
<1> QED BY <1>1, <1>2 DEF LoadCheckpoints

\* InitCallback preserves the types.
LEMMA TypeInitCallback ==
    ASSUME TypeInv, NEW r \in Runs, InitCallback(r)
    PROVE  TypeInv'
<1> USE NoneAssumption DEF TypeInv, TypeOK, IndexInRange, Executing, PCs, ClientPCs, Status,
      NoInstance, engineVars, sharedVars, localVars, clientVars, ghostVars
<1> QED BY DEF InitCallback

\* InitReset preserves the types.
LEMMA TypeInitReset ==
    ASSUME TypeInv, NEW r \in Runs, InitReset(r)
    PROVE  TypeInv'
<1> USE NoneAssumption DEF TypeInv, TypeOK, IndexInRange, Executing, PCs, ClientPCs, Status,
      NoInstance, engineVars, sharedVars, localVars, clientVars, ghostVars
<1> QED BY DEF InitReset

\* TestCancel preserves the types.
LEMMA TypeTestCancel ==
    ASSUME TypeInv, NEW r \in Runs, TestCancel(r)
    PROVE  TypeInv'
<1> USE NoneAssumption DEF TypeInv, TypeOK, IndexInRange, Executing, PCs, ClientPCs, Status,
      NoInstance, engineVars, sharedVars, localVars, clientVars, ghostVars
<1>1. CASE ~cancel_event
  <2>1. TypeOK'  BY ZenonT(60), <1>1 DEF TestCancel, EnterCheckpoint
  <2>2. IndexInRange'  BY <1>1 DEF TestCancel, EnterCheckpoint
  <2> QED BY <2>1, <2>2
<1>2. CASE cancel_event /\ currently_executing = NoInstance
  <2>1. TypeOK'  BY ZenonT(60), <1>2 DEF TestCancel, LeaveCanceled, EXEC_CANCELED
  <2>2. IndexInRange'  BY <1>2 DEF TestCancel, LeaveCanceled
  <2> QED BY <2>1, <2>2
<1>3. CASE cancel_event /\ currently_executing # NoInstance
  <2>1. CpName(currently_executing) \in Names
    BY <1>3, ElementOfSeq DEF CpName
  <2>2. Append(failed[r], CpName(currently_executing))
            \in Seq(Names \cup {FATAL_INTERNAL})
    BY <2>1, AppendProperties
  <2>3. /\ pc' = [pc EXCEPT ![r] = "finally"]
        /\ status' = [status EXCEPT ![r] = EXEC_CANCELED]
        /\ failed' = [failed EXCEPT ![r] =
                        Append(failed[r], CpName(currently_executing))]
        /\ UNCHANGED <<checkpoint_lock, engineVars, currently_executing,
                       checkpoint_thread, cancel_event, mode, todo, idx,
                       succeeded, clientVars, ghostVars>>
    BY <1>3 DEF TestCancel, LeaveCanceled
  <2>4. TypeOK'  BY <2>2, <2>3
  <2>5. IndexInRange'  BY <2>3
  <2> QED BY <2>4, <2>5
<1> QED BY <1>1, <1>2, <1>3

\* AssignCurrent preserves the types.
LEMMA TypeAssignCurrent ==
    ASSUME TypeInv, NEW r \in Runs, AssignCurrent(r)
    PROVE  TypeInv'
<1> USE NoneAssumption DEF TypeInv, TypeOK, IndexInRange, Executing, PCs, ClientPCs, Status,
      NoInstance, engineVars, sharedVars, localVars, clientVars, ghostVars
<1> QED BY DEF AssignCurrent, Instance

\* SnapshotBefore preserves the types.
LEMMA TypeSnapshotBefore ==
    ASSUME TypeInv, NEW r \in Runs, SnapshotBefore(r)
    PROVE  TypeInv'
<1> USE NoneAssumption DEF TypeInv, TypeOK, IndexInRange, Executing, PCs, ClientPCs, Status,
      NoInstance, engineVars, sharedVars, localVars, clientVars, ghostVars
<1> QED BY ZenonT(60) DEF SnapshotBefore

\* ExecuteSucceeds preserves the types.
LEMMA TypeExecuteSucceeds ==
    ASSUME TypeInv, NEW r \in Runs, ExecuteSucceeds(r)
    PROVE  TypeInv'
<1> USE NoneAssumption DEF TypeInv, TypeOK, IndexInRange, Executing, PCs, ClientPCs, Status,
      NoInstance, engineVars, sharedVars, localVars, clientVars, ghostVars
<1> QED BY DEF ExecuteSucceeds

\* ExecuteFails preserves the types.
LEMMA TypeExecuteFails ==
    ASSUME TypeInv, NEW r \in Runs, ExecuteFails(r)
    PROVE  TypeInv'
<1> USE NoneAssumption DEF TypeInv, TypeOK, IndexInRange, Executing, PCs, ClientPCs, Status,
      NoInstance, engineVars, sharedVars, localVars, clientVars, ghostVars
<1>1. todo[r][idx[r]] \in Names
  BY ElementOfSeq DEF ExecuteFails
<1>2. Append(failed[r], todo[r][idx[r]]) \in Seq(Names \cup {FATAL_INTERNAL})
  BY <1>1, AppendProperties
<1>3. /\ failed' \in [Runs -> Seq(Names \cup {FATAL_INTERNAL})]
      /\ status' \in [Runs -> Status]
      /\ succeeded' \in [Runs -> BOOLEAN]
  BY <1>2 DEF ExecuteFails
<1>4. errors' \subseteq (Names \cup {FATAL_INTERNAL}) \X Runs
  BY <1>1 DEF ExecuteFails
<1>5. pc' \in [Runs -> PCs]
  BY DEF ExecuteFails
<1>6. TypeOK'
  BY <1>3, <1>4, <1>5 DEF ExecuteFails
<1>7. IndexInRange'
  BY DEF ExecuteFails
<1> QED BY <1>6, <1>7

\* RecordCompletion preserves the types.
LEMMA TypeRecordCompletion ==
    ASSUME TypeInv, NEW r \in Runs, RecordCompletion(r)
    PROVE  TypeInv'
<1> USE NoneAssumption DEF TypeInv, TypeOK, IndexInRange, Executing, PCs, ClientPCs, Status,
      NoInstance, engineVars, sharedVars, localVars, clientVars, ghostVars
<1>1. TypeOK'
  BY DEF RecordCompletion
<1>2. IndexInRange'
  BY SMTT(30) DEF RecordCompletion
<1> QED BY <1>1, <1>2

\* SnapshotAfter preserves the types.
LEMMA TypeSnapshotAfter ==
    ASSUME TypeInv, NEW r \in Runs, SnapshotAfter(r)
    PROVE  TypeInv'
<1> USE NoneAssumption DEF TypeInv, TypeOK, IndexInRange, Executing, PCs, ClientPCs, Status,
      NoInstance, engineVars, sharedVars, localVars, clientVars, ghostVars
<1>1. CASE /\ pc' = [pc EXCEPT ![r] = IF NextTurn(r) THEN "top" ELSE "finally"]
           /\ idx' = [idx EXCEPT ![r] = IF NextTurn(r) THEN @ + 1 ELSE @]
  <2>1. CASE NextTurn(r)
    <3>1. TypeOK'  BY <1>1, <2>1 DEF SnapshotAfter
    <3>2. IndexInRange'  BY <1>1, <2>1 DEF SnapshotAfter, NextTurn
    <3> QED BY <3>1, <3>2
  <2>2. CASE ~NextTurn(r)
    <3>1. TypeOK'  BY <1>1, <2>2 DEF SnapshotAfter
    <3>2. IndexInRange'  BY <1>1, <2>2 DEF SnapshotAfter, NextTurn
    <3> QED BY <3>1, <3>2
  <2> QED BY <2>1, <2>2
<1>2. CASE pc' = [pc EXCEPT ![r] = "fatal"] /\ UNCHANGED idx
  <2>1. TypeOK'  BY <1>2 DEF SnapshotAfter
  <2>2. IndexInRange'  BY <1>2 DEF SnapshotAfter
  <2> QED BY <2>1, <2>2
<1> QED BY <1>1, <1>2 DEF SnapshotAfter

\* FatalError preserves the types.
LEMMA TypeFatalError ==
    ASSUME TypeInv, NEW r \in Runs, FatalError(r)
    PROVE  TypeInv'
<1> USE NoneAssumption DEF TypeInv, TypeOK, IndexInRange, Executing, PCs, ClientPCs, Status,
      NoInstance, engineVars, sharedVars, localVars, clientVars, ghostVars
<1>1. <<FATAL_INTERNAL>> \o failed[r] \in Seq(Names \cup {FATAL_INTERNAL})
  BY ConcatProperties
<1>2. TypeOK'
  BY <1>1 DEF FatalError, AfterFatal
<1>3. IndexInRange'
  BY DEF FatalError, AfterFatal
<1> QED BY <1>2, <1>3

\* FinallyReset preserves the types.
LEMMA TypeFinallyReset ==
    ASSUME TypeInv, NEW r \in Runs, FinallyReset(r)
    PROVE  TypeInv'
<1> USE NoneAssumption DEF TypeInv, TypeOK, IndexInRange, Executing, PCs, ClientPCs, Status,
      NoInstance, engineVars, sharedVars, localVars, clientVars, ghostVars
<1>1. CASE pc[r] = "finally"
  <2>1. TypeOK'  BY <1>1 DEF FinallyReset
  <2>2. IndexInRange'  BY <1>1 DEF FinallyReset
  <2> QED BY <2>1, <2>2
<1>2. CASE pc[r] = "raise"
  <2>1. /\ client' \in [Clients -> ClientPCs]
        /\ waits' \in [Clients -> Runs \cup {None}]
    BY <1>2 DEF FinallyReset, ReturnToClient
  <2>2. /\ pc' \in [Runs -> PCs]
        /\ notified' \in [Runs -> Status \cup {None, RAISED}]
        /\ currently_executing' = NoInstance
    BY ZenonT(60), <1>2 DEF FinallyReset
  <2>3. TypeOK'  BY <2>1, <2>2 DEF FinallyReset
  <2>4. IndexInRange'  BY <1>2 DEF FinallyReset
  <2> QED BY <2>3, <2>4
<1> QED BY <1>1, <1>2 DEF FinallyReset

\* Callback preserves the types.
LEMMA TypeCallback ==
    ASSUME TypeInv, NEW r \in Runs, Callback(r)
    PROVE  TypeInv'
<1> USE NoneAssumption DEF TypeInv, TypeOK, IndexInRange, Executing, PCs, ClientPCs, Status,
      NoInstance, engineVars, sharedVars, localVars, clientVars, ghostVars
<1>1. TypeOK'
  BY DEF Callback
<1>2. IndexInRange'
  BY DEF Callback
<1> QED BY <1>1, <1>2

\* ExitRun preserves the types.
LEMMA TypeExitRun ==
    ASSUME TypeInv, NEW r \in Runs, ExitRun(r)
    PROVE  TypeInv'
<1> USE NoneAssumption DEF TypeInv, TypeOK, IndexInRange, Executing, PCs, ClientPCs, Status,
      NoInstance, engineVars, sharedVars, localVars, clientVars, ghostVars
<1>1. TypeOK'
  BY DEF ExitRun, ReturnToClient
<1>2. IndexInRange'
  BY DEF ExitRun, ReturnToClient
<1> QED BY <1>1, <1>2

\* SetCancelEvent preserves the types.
LEMMA TypeSetCancelEvent ==
    ASSUME TypeInv, NEW t \in Clients, SetCancelEvent(t)
    PROVE  TypeInv'
<1> USE NoneAssumption DEF TypeInv, TypeOK, IndexInRange, Executing, PCs, ClientPCs, Status,
      NoInstance, engineVars, sharedVars, localVars, clientVars, ghostVars
<1> QED BY DEF SetCancelEvent

\* CancelCurrent preserves the types.
LEMMA TypeCancelCurrent ==
    ASSUME TypeInv, NEW t \in Clients, CancelCurrent(t)
    PROVE  TypeInv'
<1> USE NoneAssumption DEF TypeInv, TypeOK, IndexInRange, Executing, PCs, ClientPCs, Status,
      NoInstance, engineVars, sharedVars, localVars, clientVars, ghostVars
<1> QED BY DEF CancelCurrent

\* JoinThread preserves the types.
LEMMA TypeJoinThread ==
    ASSUME TypeInv, NEW t \in Clients, JoinThread(t)
    PROVE  TypeInv'
<1> USE NoneAssumption DEF TypeInv, TypeOK, IndexInRange, Executing, PCs, ClientPCs, Status,
      NoInstance, engineVars, sharedVars, localVars, clientVars, ghostVars
<1>1. CASE checkpoint_thread = None
  BY <1>1 DEF JoinThread, AfterNoThread
<1>2. CASE checkpoint_thread # None /\ ThreadIsPseudo
  BY <1>2 DEF JoinThread
<1>3. CASE checkpoint_thread # None /\ ~ThreadIsPseudo
  <2>1. checkpoint_thread \in Runs
    BY <1>3
  <2>2. /\ client' = [client EXCEPT ![t] = "joining"]
        /\ waits' = [waits EXCEPT ![t] = checkpoint_thread]
    BY <1>3 DEF JoinThread
  <2>3. TypeOK'  BY <2>1, <2>2 DEF JoinThread
  <2>4. IndexInRange'  BY DEF JoinThread
  <2> QED BY <2>3, <2>4
<1> QED BY <1>1, <1>2, <1>3

\* Joined preserves the types.
LEMMA TypeJoined ==
    ASSUME TypeInv, NEW t \in Clients, Joined(t)
    PROVE  TypeInv'
<1> USE NoneAssumption DEF TypeInv, TypeOK, IndexInRange, Executing, PCs, ClientPCs, Status,
      NoInstance, engineVars, sharedVars, localVars, clientVars, ghostVars
<1> QED BY DEF Joined

\* ClearCancelEvent preserves the types.
LEMMA TypeClearCancelEvent ==
    ASSUME TypeInv, NEW t \in Clients, ClearCancelEvent(t)
    PROVE  TypeInv'
<1> USE NoneAssumption DEF TypeInv, TypeOK, IndexInRange, Executing, PCs, ClientPCs, Status,
      NoInstance, engineVars, sharedVars, localVars, clientVars, ghostVars
<1> QED BY DEF ClearCancelEvent

\* register_checkpoint() preserves the types.
LEMMA TypeRegister ==
    ASSUME TypeInv, NEW name \in Names, NEW before \in Names \cup {None},
           RegisterCheckpoint(name, before)
    PROVE  TypeInv'
<1> DEFINE pos == IF before = None THEN Len(checkpoints) + 1
                  ELSE CpIndex(checkpoints, before)
<1>1. checkpoints \in Seq(Names)
  BY DEF TypeInv, TypeOK
<1>2. pos \in 1..(Len(checkpoints) + 1)
  BY <1>1, CpIndexInDomain DEF RegisterCheckpoint, MayInsertBefore
<1>3. checkpoints' = InsertCheckpoint(checkpoints, pos, name)
  BY DEF RegisterCheckpoint
<1>4. checkpoints' \in Seq(Names)
  <2> HIDE DEF pos
  <2> QED BY <1>1, <1>2, <1>3, InsertCheckpointType
<1>5. UNCHANGED <<completed, sharedVars, pc, localVars, clientVars, ghostVars>>
  BY DEF RegisterCheckpoint
<1> QED
  BY <1>4, <1>5 DEF TypeInv, TypeOK, IndexInRange, Executing, sharedVars,
    localVars, clientVars, ghostVars

\* cleanup_checkpoints() preserves the types.
LEMMA TypeCleanup ==
    ASSUME TypeInv, CleanupCheckpoints
    PROVE  TypeInv'
<1>1. completed' \in [Names -> BOOLEAN]
  BY DEF CleanupCheckpoints, IsRegistered, TypeInv, TypeOK
<1> QED
  BY <1>1 DEF CleanupCheckpoints, TypeInv, TypeOK, IndexInRange, Executing,
    sharedVars, localVars, clientVars, ghostVars

\* The part of execute_checkpoints() after the flags are settled.
LEMMA TypeExecuteFrom ==
    ASSUME TypeInv, NEW t \in Executors, NEW r \in Runs, NEW m \in Modes,
           pc[r] = "none", NEW flags \in [Names -> BOOLEAN],
           NEW start \in DOMAIN checkpoints,
           NEW pause \in 0..(Len(checkpoints) + 1),
           ExecuteFrom(t, r, m, flags, start, pause)
    PROVE  TypeInv'
<1> USE NoneAssumption DEF TypeInv, engineVars, sharedVars, localVars, clientVars, ghostVars
<1>0. m \in {"blocking", "callback"} /\ t \in Clients
  BY FlagAssumption DEF Clients
<1>1. CASE ~ExecListIsValid(checkpoints, flags, start, pause)
  <2>1. /\ completed' = flags
        /\ UNCHANGED <<checkpoints, sharedVars, pc, localVars, clientVars,
                       ghostVars>>
    BY <1>1 DEF ExecuteFrom
  <2> QED BY <2>1 DEF TypeOK, IndexInRange, Executing
<1>2. CASE NothingToRun(r, m) /\ completed' = flags
  <2>1. TypeOK'
    BY <1>0, <1>2 DEF NothingToRun, TypeOK, PCs
  <2>2. IndexInRange'
    BY <1>2 DEF NothingToRun, IndexInRange, Executing, TypeOK, NoInstance
  <2> QED BY <2>1, <2>2
<1>3. CASE /\ start <= pause /\ start # pause
           /\ StartRun(t, r, m, ExecList(checkpoints, start, pause))
           /\ completed' = flags
  <2> DEFINE list == ExecList(checkpoints, start, pause)
  <2>1. list \in Seq(Names) /\ Len(list) > 0
    <3>1. start \in Int /\ pause \in Int
      BY DEF TypeOK
    <3>2. Len(list) = pause - start /\ list \in Seq(Names)
      BY <1>3, ExecListType DEF TypeOK
    <3> QED BY <1>3, <3>1, <3>2
  <2> HIDE DEF list
  <2>2. TypeOK'
    <3>1. /\ client' \in [Clients -> ClientPCs]
          /\ waits' \in [Clients -> Runs \cup {None}]
      BY <1>0, <1>3 DEF StartRun, TypeOK, ClientPCs
    <3>2. /\ pc' \in [Runs -> PCs] /\ mode' \in [Runs -> {"blocking", "callback"}]
          /\ checkpoint_thread' \in Runs \cup {None}
      BY <1>0, <1>3 DEF StartRun, TypeOK, PCs
    <3>3. todo' \in [Runs -> Seq(Names)]
      BY <1>3, <2>1 DEF StartRun, TypeOK, list
    <3> QED BY <1>3, <3>1, <3>2, <3>3 DEF StartRun, TypeOK
  <2>3. IndexInRange'
    <3>1. todo' = [todo EXCEPT ![r] = list] /\ pc' = [pc EXCEPT ![r] = "load"]
      BY <1>3 DEF StartRun, list
    <3>2. currently_executing' = currently_executing /\ idx' = idx
      BY <1>3 DEF StartRun
    <3>3. \A q \in Runs : q # r => todo'[q] = todo[q] /\ pc'[q] = pc[q]
      BY <3>1 DEF TypeOK
    <3>4. todo'[r] = list /\ pc'[r] = "load"
      BY <3>1 DEF TypeOK
    <3>5. currently_executing # NoInstance =>
            currently_executing[1] \in Runs /\ currently_executing[1] # r
      BY DEF TypeOK, IndexInRange
    <3> QED BY <2>1, <3>2, <3>3, <3>4, <3>5 DEF IndexInRange, Executing, TypeOK
  <2> QED BY <2>2, <2>3
<1> QED BY <1>1, <1>2, <1>3 DEF ExecuteFrom, ExecListIsValid

\* execute_checkpoints() without start_from preserves the types.
LEMMA TypeExecute ==
    ASSUME TypeInv, NEW t \in Executors, NEW r \in Runs, NEW m \in Modes,
           NEW pause \in Names \cup {None},
           ExecuteCheckpoints(t, r, m, pause)
    PROVE  TypeInv'
<1>0. checkpoints \in Seq(Names) /\ completed \in [Names -> BOOLEAN]
  BY DEF TypeInv, TypeOK
<1>1. PausePosition(pause) \in 0..(Len(checkpoints) + 1)
  BY <1>0, PausePositionRange
<1>2. CASE completed' = completed /\ NothingToRun(r, m)
  <2> USE NoneAssumption DEF TypeInv, sharedVars, clientVars, ghostVars
  <2>0. m \in {"blocking", "callback"}
    BY FlagAssumption
  <2>1. TypeOK'
    BY <1>2, <2>0 DEF NothingToRun, TypeOK, PCs
  <2>2. IndexInRange'
    BY <1>2 DEF NothingToRun, IndexInRange, Executing, TypeOK, NoInstance
  <2> QED BY <2>1, <2>2
<1>3. ASSUME NEW first \in DOMAIN checkpoints,
             ExecuteFrom(t, r, m, completed, first, PausePosition(pause))
      PROVE  TypeInv'
  BY <1>0, <1>1, <1>3, TypeExecuteFrom DEF ExecuteCheckpoints
<1> QED BY <1>2, <1>3 DEF ExecuteCheckpoints

\* execute_checkpoints(start_from), rollback included, preserves the types.
LEMMA TypeExecuteFromCheckpoint ==
    ASSUME TypeInv, NEW t \in Executors, NEW r \in Runs, NEW m \in Modes,
           NEW start \in Names, NEW pause \in Names \cup {None},
           ExecuteCheckpointsFrom(t, r, m, start, pause)
    PROVE  TypeInv'
<1> DEFINE pos == CpIndex(checkpoints, start)
           flags == IF IsFirstIncomplete(checkpoints, completed, pos)
                    THEN completed
                    ELSE RolledBack(checkpoints, completed, pos)
<1>0. checkpoints \in Seq(Names) /\ completed \in [Names -> BOOLEAN]
  BY DEF TypeInv, TypeOK
<1>1. PausePosition(pause) \in 0..(Len(checkpoints) + 1)
  BY <1>0, PausePositionRange
<1>2. pos \in DOMAIN checkpoints
  BY CpIndexInDomain DEF ExecuteCheckpointsFrom
<1>3. RolledBack(checkpoints, completed, pos) \in [Names -> BOOLEAN]
  <2>1. \A n \in Names : IsRegistered(checkpoints, n) =>
            (CpIndex(checkpoints, n) < pos) \in BOOLEAN
    OBVIOUS
  <2> QED BY <1>0, <2>1 DEF RolledBack
<1>4. flags \in [Names -> BOOLEAN]
  BY <1>0, <1>3
<1>5. pc[r] = "none" /\ ExecuteFrom(t, r, m, flags, pos, PausePosition(pause))
  BY DEF ExecuteCheckpointsFrom
<1> HIDE DEF flags, pos
<1> QED BY <1>1, <1>2, <1>4, <1>5, TypeExecuteFrom

\* Every step of the engine preserves the types.
LEMMA TypeNext == TypeInv /\ [Next]_vars => TypeInv'
<1> SUFFICES ASSUME TypeInv, [Next]_vars PROVE TypeInv'
  OBVIOUS
<1>1. ASSUME NEW r \in Runs, EngineStep(r) \/ ExecuteStep(r)
      PROVE  TypeInv'
  BY <1>1, TypeLoadCheckpoints, TypeInitCallback, TypeInitReset, TypeTestCancel, TypeAssignCurrent,
     TypeSnapshotBefore, TypeExecuteSucceeds, TypeExecuteFails, TypeRecordCompletion, TypeSnapshotAfter,
     TypeFatalError, TypeFinallyReset, TypeCallback, TypeExitRun
  DEF EngineStep, ExecuteStep
<1>2. ASSUME NEW t \in Cancellers, SetCancelEvent(t) \/ CancelStep(t)
      PROVE  TypeInv'
  <2>1. t \in Clients  BY DEF Clients
  <2> QED BY <1>2, <2>1, TypeSetCancelEvent, TypeCancelCurrent, TypeJoinThread,
    TypeJoined, TypeClearCancelEvent
    DEF CancelStep
<1>3. CASE UNCHANGED vars
  BY <1>3 DEF vars, engineVars, sharedVars, localVars, clientVars, ghostVars,
    TypeInv, TypeOK, IndexInRange, Executing
<1> QED
  BY <1>1, <1>2, <1>3, TypeRegister, TypeCleanup, TypeExecute,
    TypeExecuteFromCheckpoint DEF Next

\* Every variable of the engine keeps its type; in particular the names put
\* on failed_checkpoint_list by a cancelled loop are checkpoint names.
THEOREM TypeCorrect == Spec => [](TypeOK /\ IndexInRange)
<1>1. Spec => []TypeInv
  BY InitTypeInv, TypeNext, PTL DEF Spec
<1>2. TypeInv => TypeOK /\ IndexInRange
  BY DEF TypeInv
<1> QED BY <1>1, <1>2, PTL

-----------------------------------------------------------------------------
(* Mutual exclusion of the loop and cancel_checkpoints().                  *)

\* The conjuncts of CancelInv that are not types.
CancelRest ==
    LockDiscipline /\ OneActiveRun /\ CurrentIsExecuting /\ CancelReachesCheckpoint

\* LoadCheckpoints preserves the other conjuncts of the invariant.
LEMMA CancelLoadCheckpoints ==
    ASSUME TypeOK, CancelRest, NEW r \in Runs, LoadCheckpoints(r)
    PROVE  CancelRest'
<1> USE NoneAssumption DEF CancelRest, TypeOK, PCs, ClientPCs, IsActive, Instance,
      Executing, engineVars, sharedVars, localVars, clientVars, ghostVars
<1>1. LockDiscipline'
  BY SMTT(30) DEF LockDiscipline, OneActiveRun, LoadCheckpoints, LoadFails
<1>2. OneActiveRun'
  BY ZenonT(60) DEF OneActiveRun, LoadCheckpoints, LoadFails
<1>3. CurrentIsExecuting'
  BY SMTT(30) DEF CurrentIsExecuting, OneActiveRun, LoadCheckpoints, LoadFails
<1>4. CancelReachesCheckpoint'
  BY DEF CancelReachesCheckpoint, CurrentIsExecuting, LockDiscipline, LoadCheckpoints, LoadFails
<1> QED BY <1>1, <1>2, <1>3, <1>4

\* InitCallback preserves the other conjuncts of the invariant.
LEMMA CancelInitCallback ==
    ASSUME TypeOK, CancelRest, NEW r \in Runs, InitCallback(r)
    PROVE  CancelRest'
<1> USE NoneAssumption DEF CancelRest, TypeOK, PCs, ClientPCs, IsActive, Instance,
      Executing, engineVars, sharedVars, localVars, clientVars, ghostVars
<1>1. LockDiscipline'
  BY DEF LockDiscipline, OneActiveRun, InitCallback
<1>2. OneActiveRun'
  BY DEF OneActiveRun, InitCallback
<1>3. CurrentIsExecuting'
  BY DEF CurrentIsExecuting, OneActiveRun, InitCallback
<1>4. CancelReachesCheckpoint'
  BY DEF CancelReachesCheckpoint, CurrentIsExecuting, LockDiscipline, InitCallback
<1> QED BY <1>1, <1>2, <1>3, <1>4

\* InitReset preserves the other conjuncts of the invariant.
LEMMA CancelInitReset ==
    ASSUME TypeOK, CancelRest, NEW r \in Runs, InitReset(r)
    PROVE  CancelRest'
<1> USE NoneAssumption DEF CancelRest, TypeOK, PCs, ClientPCs, IsActive, Instance,
      Executing, engineVars, sharedVars, localVars, clientVars, ghostVars
<1>1. LockDiscipline'
  BY DEF LockDiscipline, OneActiveRun, InitReset
<1>2. OneActiveRun'
  BY DEF OneActiveRun, InitReset
<1>3. CurrentIsExecuting'
  BY ZenonT(60) DEF CurrentIsExecuting, OneActiveRun, InitReset
<1>4. CancelReachesCheckpoint'
  BY DEF CancelReachesCheckpoint, CurrentIsExecuting, LockDiscipline, InitReset
<1> QED BY <1>1, <1>2, <1>3, <1>4

\* TestCancel preserves the other conjuncts of the invariant.
LEMMA CancelTestCancel ==
    ASSUME TypeOK, CancelRest, NEW r \in Runs, TestCancel(r)
    PROVE  CancelRest'
<1> USE NoneAssumption DEF CancelRest, TypeOK, PCs, ClientPCs, IsActive, Instance,
      Executing, engineVars, sharedVars, localVars, clientVars, ghostVars
<1>1. LockDiscipline'
  BY SMTT(30) DEF LockDiscipline, OneActiveRun, TestCancel, LeaveCanceled, EnterCheckpoint
<1>2. OneActiveRun'
  <2>1. /\ pc'[r] \in {"assign", "fatal", "finally"} /\ pc[r] = "top"
        /\ \A q \in Runs : q # r => pc'[q] = pc[q]
    BY DEF TestCancel, LeaveCanceled, EnterCheckpoint
  <2> QED BY <2>1 DEF OneActiveRun
<1>3. CurrentIsExecuting'
  BY SMTT(30) DEF CurrentIsExecuting, OneActiveRun, TestCancel, LeaveCanceled, EnterCheckpoint
<1>4. CancelReachesCheckpoint'
  BY SMTT(30) DEF CancelReachesCheckpoint, CurrentIsExecuting, LockDiscipline, TestCancel,
                  LeaveCanceled, EnterCheckpoint
<1> QED BY <1>1, <1>2, <1>3, <1>4

\* AssignCurrent preserves the other conjuncts of the invariant.
LEMMA CancelAssignCurrent ==
    ASSUME TypeOK, CancelRest, NEW r \in Runs, AssignCurrent(r)
    PROVE  CancelRest'
<1> USE NoneAssumption DEF CancelRest, TypeOK, PCs, ClientPCs, IsActive, Instance,
      Executing, engineVars, sharedVars, localVars, clientVars, ghostVars
<1>1. LockDiscipline'
  BY DEF LockDiscipline, OneActiveRun, AssignCurrent
<1>2. OneActiveRun'
  BY DEF OneActiveRun, AssignCurrent
<1>3. CurrentIsExecuting'
  BY DEF CurrentIsExecuting, OneActiveRun, AssignCurrent
<1>4. CancelReachesCheckpoint'
  BY DEF CancelReachesCheckpoint, CurrentIsExecuting, LockDiscipline, AssignCurrent
<1> QED BY <1>1, <1>2, <1>3, <1>4

\* SnapshotBefore preserves the other conjuncts of the invariant.
LEMMA CancelSnapshotBefore ==
    ASSUME TypeOK, CancelRest, NEW r \in Runs, SnapshotBefore(r)
    PROVE  CancelRest'
<1> USE NoneAssumption DEF CancelRest, TypeOK, PCs, ClientPCs, IsActive, Instance,
      Executing, engineVars, sharedVars, localVars, clientVars, ghostVars
<1>1. LockDiscipline'
  BY DEF LockDiscipline, OneActiveRun, SnapshotBefore
<1>2. OneActiveRun'
  BY ZenonT(60) DEF OneActiveRun, SnapshotBefore
<1>3. CurrentIsExecuting'
  BY DEF CurrentIsExecuting, OneActiveRun, SnapshotBefore
<1>4. CancelReachesCheckpoint'
  BY DEF CancelReachesCheckpoint, CurrentIsExecuting, LockDiscipline, SnapshotBefore
<1> QED BY <1>1, <1>2, <1>3, <1>4

\* ExecuteSucceeds preserves the other conjuncts of the invariant.
LEMMA CancelExecuteSucceeds ==
    ASSUME TypeOK, CancelRest, NEW r \in Runs, ExecuteSucceeds(r)
    PROVE  CancelRest'
<1> USE NoneAssumption DEF CancelRest, TypeOK, PCs, ClientPCs, IsActive, Instance,
      Executing, engineVars, sharedVars, localVars, clientVars, ghostVars
<1>1. LockDiscipline'
  BY DEF LockDiscipline, OneActiveRun, ExecuteSucceeds
<1>2. OneActiveRun'
  BY DEF OneActiveRun, ExecuteSucceeds
<1>3. CurrentIsExecuting'
  BY DEF CurrentIsExecuting, OneActiveRun, ExecuteSucceeds
<1>4. CancelReachesCheckpoint'
  BY DEF CancelReachesCheckpoint, CurrentIsExecuting, LockDiscipline, ExecuteSucceeds
<1> QED BY <1>1, <1>2, <1>3, <1>4

\* ExecuteFails preserves the other conjuncts of the invariant.
LEMMA CancelExecuteFails ==
    ASSUME TypeOK, CancelRest, NEW r \in Runs, ExecuteFails(r)
    PROVE  CancelRest'
<1> USE NoneAssumption DEF CancelRest, TypeOK, PCs, ClientPCs, IsActive, Instance,
      Executing, engineVars, sharedVars, localVars, clientVars, ghostVars
<1>1. LockDiscipline'
  BY DEF LockDiscipline, OneActiveRun, ExecuteFails
<1>2. OneActiveRun'
  BY DEF OneActiveRun, ExecuteFails
<1>3. CurrentIsExecuting'
  BY DEF CurrentIsExecuting, OneActiveRun, ExecuteFails
<1>4. CancelReachesCheckpoint'
  BY DEF CancelReachesCheckpoint, CurrentIsExecuting, LockDiscipline, ExecuteFails
<1> QED BY <1>1, <1>2, <1>3, <1>4

\* RecordCompletion preserves the other conjuncts of the invariant.
LEMMA CancelRecordCompletion ==
    ASSUME TypeOK, CancelRest, NEW r \in Runs, RecordCompletion(r)
    PROVE  CancelRest'
<1> USE NoneAssumption DEF CancelRest, TypeOK, PCs, ClientPCs, IsActive, Instance,
      Executing, engineVars, sharedVars, localVars, clientVars, ghostVars
<1>1. LockDiscipline'
  BY DEF LockDiscipline, OneActiveRun, RecordCompletion
<1>2. OneActiveRun'
  BY ZenonT(60) DEF OneActiveRun, RecordCompletion
<1>3. CurrentIsExecuting'
  BY DEF CurrentIsExecuting, OneActiveRun, RecordCompletion
<1>4. CancelReachesCheckpoint'
  BY DEF CancelReachesCheckpoint, CurrentIsExecuting, LockDiscipline, RecordCompletion
<1> QED BY <1>1, <1>2, <1>3, <1>4

\* SnapshotAfter preserves the other conjuncts of the invariant.
LEMMA CancelSnapshotAfter ==
    ASSUME TypeOK, CancelRest, NEW r \in Runs, SnapshotAfter(r)
    PROVE  CancelRest'
<1> USE NoneAssumption DEF CancelRest, TypeOK, PCs, ClientPCs, IsActive, Instance,
      Executing, engineVars, sharedVars, localVars, clientVars, ghostVars
<1>1. LockDiscipline'
  BY DEF LockDiscipline, OneActiveRun, SnapshotAfter, NextTurn
<1>2. OneActiveRun'
  BY ZenonT(60) DEF OneActiveRun, SnapshotAfter, NextTurn
<1>3. CurrentIsExecuting'
  BY DEF CurrentIsExecuting, OneActiveRun, SnapshotAfter, NextTurn
<1>4. CancelReachesCheckpoint'
  BY DEF CancelReachesCheckpoint, CurrentIsExecuting, LockDiscipline, SnapshotAfter, NextTurn
<1> QED BY <1>1, <1>2, <1>3, <1>4

\* FatalError preserves the other conjuncts of the invariant.
LEMMA CancelFatalError ==
    ASSUME TypeOK, CancelRest, NEW r \in Runs, FatalError(r)
    PROVE  CancelRest'
<1> USE NoneAssumption DEF CancelRest, TypeOK, PCs, ClientPCs, IsActive, Instance,
      Executing, engineVars, sharedVars, localVars, clientVars, ghostVars
<1>1. LockDiscipline'
  BY DEF LockDiscipline, OneActiveRun, FatalError, AfterFatal
<1>2. OneActiveRun'
  BY DEF OneActiveRun, FatalError, AfterFatal
<1>3. CurrentIsExecuting'
  BY DEF CurrentIsExecuting, OneActiveRun, FatalError, AfterFatal
<1>4. CancelReachesCheckpoint'
  BY DEF CancelReachesCheckpoint, CurrentIsExecuting, LockDiscipline, FatalError, AfterFatal
<1> QED BY <1>1, <1>2, <1>3, <1>4

\* FinallyReset preserves the other conjuncts of the invariant.
LEMMA CancelFinallyReset ==
    ASSUME TypeOK, CancelRest, NEW r \in Runs, FinallyReset(r)
    PROVE  CancelRest'
<1> USE NoneAssumption DEF CancelRest, TypeOK, PCs, ClientPCs, IsActive, Instance,
      Executing, engineVars, sharedVars, localVars, clientVars, ghostVars
<1>1. LockDiscipline'
  BY DEF LockDiscipline, OneActiveRun, FinallyReset, ReturnToClient
<1>2. OneActiveRun'
  BY ZenonT(60) DEF OneActiveRun, FinallyReset, ReturnToClient
<1>3. CurrentIsExecuting'
  <2>1. /\ IsActive(r) /\ pc'[r] \in {"callback", "done"}
        /\ \A q \in Runs : q # r => pc'[q] = pc[q]
    BY DEF FinallyReset
  <2>2. \A q \in Runs : ~Executing(q)'
    BY <2>1 DEF OneActiveRun
  <2> QED BY <2>2 DEF CurrentIsExecuting
<1>4. CancelReachesCheckpoint'
  BY DEF CancelReachesCheckpoint, CurrentIsExecuting, LockDiscipline, FinallyReset, ReturnToClient
<1> QED BY <1>1, <1>2, <1>3, <1>4

\* Callback preserves the other conjuncts of the invariant.
LEMMA CancelCallback ==
    ASSUME TypeOK, CancelRest, NEW r \in Runs, Callback(r)
    PROVE  CancelRest'
<1> USE NoneAssumption DEF CancelRest, TypeOK, PCs, ClientPCs, IsActive, Instance,
      Executing, engineVars, sharedVars, localVars, clientVars, ghostVars
<1>1. LockDiscipline'
  BY DEF LockDiscipline, OneActiveRun, Callback
<1>2. OneActiveRun'
  BY DEF OneActiveRun, Callback
<1>3. CurrentIsExecuting'
  BY DEF CurrentIsExecuting, OneActiveRun, Callback
<1>4. CancelReachesCheckpoint'
  BY DEF CancelReachesCheckpoint, CurrentIsExecuting, LockDiscipline, Callback
<1> QED BY <1>1, <1>2, <1>3, <1>4

\* ExitRun preserves the other conjuncts of the invariant.
LEMMA CancelExitRun ==
    ASSUME TypeOK, CancelRest, NEW r \in Runs, ExitRun(r)
    PROVE  CancelRest'
<1> USE NoneAssumption DEF CancelRest, TypeOK, PCs, ClientPCs, IsActive, Instance,
      Executing, engineVars, sharedVars, localVars, clientVars, ghostVars
<1>1. LockDiscipline'
  BY DEF LockDiscipline, OneActiveRun, ExitRun, ReturnToClient
<1>2. OneActiveRun'
  BY DEF OneActiveRun, ExitRun, ReturnToClient
<1>3. CurrentIsExecuting'
  BY DEF CurrentIsExecuting, OneActiveRun, ExitRun, ReturnToClient
<1>4. CancelReachesCheckpoint'
  BY DEF CancelReachesCheckpoint, CurrentIsExecuting, LockDiscipline, ExitRun, ReturnToClient
<1> QED BY <1>1, <1>2, <1>3, <1>4

\* SetCancelEvent preserves the other conjuncts of the invariant.
LEMMA CancelSetCancelEvent ==
    ASSUME TypeOK, CancelRest, NEW t \in Clients, SetCancelEvent(t)
    PROVE  CancelRest'
<1> USE NoneAssumption DEF CancelRest, TypeOK, PCs, ClientPCs, IsActive, Instance,
      Executing, engineVars, sharedVars, localVars, clientVars, ghostVars
<1>1. LockDiscipline'
  BY DEF LockDiscipline, OneActiveRun, SetCancelEvent
<1>2. OneActiveRun'
  BY DEF OneActiveRun, SetCancelEvent
<1>3. CurrentIsExecuting'
  BY DEF CurrentIsExecuting, OneActiveRun, SetCancelEvent
<1>4. CancelReachesCheckpoint'
  BY DEF CancelReachesCheckpoint, CurrentIsExecuting, LockDiscipline, SetCancelEvent
<1> QED BY <1>1, <1>2, <1>3, <1>4

\* CancelCurrent preserves the other conjuncts of the invariant.
LEMMA CancelCancelCurrent ==
    ASSUME TypeOK, CancelRest, NEW t \in Clients, CancelCurrent(t)
    PROVE  CancelRest'
<1> USE NoneAssumption DEF CancelRest, TypeOK, PCs, ClientPCs, IsActive, Instance,
      Executing, engineVars, sharedVars, localVars, clientVars, ghostVars
<1>1. LockDiscipline'
  BY DEF LockDiscipline, OneActiveRun, CancelCurrent
<1>2. OneActiveRun'
  BY DEF OneActiveRun, CancelCurrent
<1>3. CurrentIsExecuting'
  BY DEF CurrentIsExecuting, OneActiveRun, CancelCurrent
<1>4. CancelReachesCheckpoint'
  <2>1. \A q \in Runs : Executing(q) => Instance(q) \in cancelled'
    <3> SUFFICES ASSUME NEW q \in Runs, Executing(q)
                 PROVE  Instance(q) \in cancelled'
      OBVIOUS
    <3>1. currently_executing = <<q, idx[q]>>
      BY DEF CurrentIsExecuting
    <3>2. currently_executing # NoInstance
      BY <3>1 DEF NoInstance
    <3> QED BY <3>1, <3>2 DEF CancelCurrent
  <2> QED BY <2>1 DEF CancelReachesCheckpoint, CancelCurrent
<1> QED BY <1>1, <1>2, <1>3, <1>4

\* JoinThread preserves the other conjuncts of the invariant.
LEMMA CancelJoinThread ==
    ASSUME TypeOK, CancelRest, NEW t \in Clients, JoinThread(t)
    PROVE  CancelRest'
<1> USE NoneAssumption DEF CancelRest, TypeOK, PCs, ClientPCs, IsActive, Instance,
      Executing, engineVars, sharedVars, localVars, clientVars, ghostVars
<1>1. LockDiscipline'
  BY DEF LockDiscipline, OneActiveRun, JoinThread, AfterNoThread
<1>2. OneActiveRun'
  BY DEF OneActiveRun, JoinThread, AfterNoThread
<1>3. CurrentIsExecuting'
  BY DEF CurrentIsExecuting, OneActiveRun, JoinThread, AfterNoThread
<1>4. CancelReachesCheckpoint'
  BY DEF CancelReachesCheckpoint, CurrentIsExecuting, LockDiscipline, JoinThread, AfterNoThread
<1> QED BY <1>1, <1>2, <1>3, <1>4

\* Joined preserves the other conjuncts of the invariant.
LEMMA CancelJoined ==
    ASSUME TypeOK, CancelRest, NEW t \in Clients, Joined(t)
    PROVE  CancelRest'
<1> USE NoneAssumption DEF CancelRest, TypeOK, PCs, ClientPCs, IsActive, Instance,
      Executing, engineVars, sharedVars, localVars, clientVars, ghostVars
<1>1. LockDiscipline'
  BY DEF LockDiscipline, OneActiveRun, Joined
<1>2. OneActiveRun'
  BY DEF OneActiveRun, Joined
<1>3. CurrentIsExecuting'
  BY DEF CurrentIsExecuting, OneActiveRun, Joined
<1>4. CancelReachesCheckpoint'
  BY DEF CancelReachesCheckpoint, CurrentIsExecuting, LockDiscipline, Joined
<1> QED BY <1>1, <1>2, <1>3, <1>4

\* ClearCancelEvent preserves the other conjuncts of the invariant.
LEMMA CancelClearCancelEvent ==
    ASSUME TypeOK, CancelRest, NEW t \in Clients, ClearCancelEvent(t)
    PROVE  CancelRest'
<1> USE NoneAssumption DEF CancelRest, TypeOK, PCs, ClientPCs, IsActive, Instance,
      Executing, engineVars, sharedVars, localVars, clientVars, ghostVars
<1>1. LockDiscipline'
  BY DEF LockDiscipline, OneActiveRun, ClearCancelEvent
<1>2. OneActiveRun'
  BY DEF OneActiveRun, ClearCancelEvent
<1>3. CurrentIsExecuting'
  BY DEF CurrentIsExecuting, OneActiveRun, ClearCancelEvent
<1>4. CancelReachesCheckpoint'
  BY DEF CancelReachesCheckpoint, CurrentIsExecuting, LockDiscipline, ClearCancelEvent
<1> QED BY <1>1, <1>2, <1>3, <1>4

\* A new run starts only when no other one is active.
LEMMA CancelExecuteFrom ==
    ASSUME TypeOK, CancelRest, ~Overlap, MayStart, NEW t \in Executors,
           NEW r \in Runs, NEW m \in Modes, pc[r] = "none", client[t] = "idle",
           NEW flags, NEW start, NEW pause,
           ExecuteFrom(t, r, m, flags, start, pause)
    PROVE  CancelRest'
<1> USE NoneAssumption DEF CancelRest, TypeOK, PCs, ClientPCs, IsActive, Instance,
      Executing, engineVars, sharedVars, localVars, clientVars, ghostVars
<1>0. t \in Clients /\ \A q \in Runs : ~IsActive(q)
  BY DEF Clients, MayStart
<1>1. CASE UNCHANGED <<checkpoints, sharedVars, pc, localVars, clientVars,
                       ghostVars>>
  BY <1>1 DEF LockDiscipline, OneActiveRun, CurrentIsExecuting,
    CancelReachesCheckpoint
<1>2. CASE NothingToRun(r, m)
  BY <1>0, <1>2 DEF NothingToRun, LockDiscipline, OneActiveRun,
    CurrentIsExecuting, CancelReachesCheckpoint
<1>3. ASSUME NEW list, StartRun(t, r, m, list)
      PROVE  CancelRest'
  <2>1. LockDiscipline'
    BY <1>0, <1>3 DEF StartRun, LockDiscipline
  <2>2. OneActiveRun'
    BY <1>0, <1>3 DEF StartRun, OneActiveRun
  <2>3. \A q \in Runs : ~Executing(q)'
    BY <1>0, <1>3 DEF StartRun
  <2> QED BY <2>1, <2>2, <2>3 DEF CurrentIsExecuting, CancelReachesCheckpoint
<1> QED BY <1>1, <1>2, <1>3 DEF ExecuteFrom

\* Starting a run when no other is active preserves the other conjuncts.
LEMMA CancelExecute ==
    ASSUME TypeOK, CancelRest, ~Overlap, NEW t \in Executors, NEW r \in Runs,
           NEW m \in Modes, NEW pause \in Names \cup {None},
           \/ ExecuteCheckpoints(t, r, m, pause)
           \/ \E start \in Names : ExecuteCheckpointsFrom(t, r, m, start, pause)
    PROVE  CancelRest'
<1>0. MayStart /\ pc[r] = "none" /\ client[t] = "idle"
  BY DEF ExecuteCheckpoints, ExecuteCheckpointsFrom
<1>1. CASE NothingToRun(r, m)
  <2>0. \A q \in Runs : ~IsActive(q)
    BY <1>0 DEF MayStart
  <2> QED BY <1>0, <1>1, <2>0 DEF NothingToRun, CancelRest, TypeOK, PCs,
    IsActive, Instance, Executing, sharedVars, clientVars, ghostVars,
    LockDiscipline, OneActiveRun, CurrentIsExecuting, CancelReachesCheckpoint
<1>2. ASSUME NEW flags, NEW start,
             ExecuteFrom(t, r, m, flags, start, PausePosition(pause))
      PROVE  CancelRest'
  BY <1>0, <1>2, CancelExecuteFrom
<1> QED BY <1>1, <1>2 DEF ExecuteCheckpoints, ExecuteCheckpointsFrom

\* Without overlapping runs every step preserves the inductive invariant.
LEMMA CancelNext == ~Overlap /\ CancelInv /\ [Next]_vars => CancelInv'
<1> SUFFICES ASSUME ~Overlap, CancelInv, [Next]_vars PROVE CancelInv'
  OBVIOUS
<1>0. TypeInv /\ TypeOK /\ CancelRest
  BY DEF CancelInv, TypeInv, CancelRest
<1>1. TypeInv'
  BY <1>0, TypeNext
<1>2. ASSUME NEW r \in Runs, EngineStep(r) \/ ExecuteStep(r)
      PROVE  CancelRest'
  BY <1>0, <1>2, CancelLoadCheckpoints, CancelInitCallback, CancelInitReset, CancelTestCancel,
     CancelAssignCurrent, CancelSnapshotBefore, CancelExecuteSucceeds, CancelExecuteFails,
     CancelRecordCompletion, CancelSnapshotAfter, CancelFatalError, CancelFinallyReset,
     CancelCallback, CancelExitRun
  DEF EngineStep, ExecuteStep
<1>3. ASSUME NEW t \in Cancellers, SetCancelEvent(t) \/ CancelStep(t)
      PROVE  CancelRest'
  <2>1. t \in Clients  BY DEF Clients
  <2> QED BY <1>0, <1>3, <2>1, CancelSetCancelEvent, CancelCancelCurrent, CancelJoinThread,
    CancelJoined, CancelClearCancelEvent
    DEF CancelStep
<1>4. UNCHANGED <<sharedVars, pc, localVars, clientVars, ghostVars>>
      => CancelRest'
  BY <1>0 DEF CancelRest, LockDiscipline, OneActiveRun,
    CurrentIsExecuting, CancelReachesCheckpoint, IsActive, Instance,
    Executing, sharedVars, localVars, clientVars, ghostVars
<1>5. ASSUME NEW name \in Names, NEW before \in Names \cup {None},
             RegisterCheckpoint(name, before)
      PROVE  CancelRest'
  BY <1>4, <1>5 DEF RegisterCheckpoint, sharedVars,
    localVars, clientVars, ghostVars
<1>6. ASSUME CleanupCheckpoints
      PROVE  CancelRest'
  <2>1. UNCHANGED <<sharedVars, pc, localVars, clientVars, ghostVars>>
    BY <1>6 DEF CleanupCheckpoints
  <2> QED BY <1>4, <2>1
<1>7. ASSUME UNCHANGED vars
      PROVE  CancelRest'
  <2>1. UNCHANGED <<sharedVars, pc, localVars, clientVars, ghostVars>>
    BY <1>7 DEF vars
  <2> QED BY <1>4, <2>1
<1>8. ASSUME NEW t \in Executors, NEW r \in Runs, NEW m \in Modes,
             NEW pause \in Names \cup {None},
             \/ ExecuteCheckpoints(t, r, m, pause)
             \/ \E start \in Names : ExecuteCheckpointsFrom(t, r, m, start, pause)
      PROVE  CancelRest'
  BY <1>0, <1>8, CancelExecute
<1>9. CancelRest'
  BY <1>2, <1>3, <1>5, <1>6, <1>7, <1>8 DEF Next
<1> QED BY <1>1, <1>9 DEF CancelInv, TypeInv, CancelRest

\* The inductive invariant holds initially.
LEMMA InitCancelInv == Init => CancelInv
<1> SUFFICES ASSUME Init PROVE CancelInv
  OBVIOUS
<1>1. TypeInv
  BY InitTypeInv
<1>2. CancelRest
  BY NoneAssumption DEF Init, CancelRest, LockDiscipline, OneActiveRun,
    CurrentIsExecuting, CancelReachesCheckpoint, IsActive, Executing
<1> QED BY <1>1, <1>2 DEF CancelInv, TypeInv, CancelRest

\* When runs do not overlap, a cancel request that has released
\* _checkpoint_lock has reached every checkpoint that is running: none slips
\* in between the test of the event and the assignment of
\* __currently_executing, for any number of clients cancelling, in both modes
\* and for every way checkpoints and snapshots can fail.
THEOREM CancelReaches == ~Overlap => (Spec => []CancelReachesCheckpoint)
<1> SUFFICES ASSUME ~Overlap PROVE Spec => []CancelReachesCheckpoint
  OBVIOUS
<1>1. CancelInv /\ [Next]_vars => CancelInv'
  BY CancelNext
<1>2. CancelInv => CancelReachesCheckpoint
  BY DEF CancelInv
<1> QED BY <1>1, <1>2, InitCancelInv, PTL DEF Spec

=============================================================================
