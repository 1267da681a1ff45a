------------------------- MODULE EngineOutcomeProofs -------------------------
(***************************************************************************)
(* Proofs about what the runs of InstallEngine report, what a cancellation *)
(* stops and what the `completed' flags mean, for any sets of names, runs  *)
(* and clients.                                                            *)
(*                                                                         *)
(* OutcomeInv holds of every instance; SequenceInv adds what holds when    *)
(* checkpoint_thread is the thread that executes (OneThread),              *)
(* CancelOrderInv what holds when one client at a time cancels, PrefixInv  *)
(* what holds of threads that stop on errors.                              *)
(***************************************************************************)
EXTENDS InstallEngineProofs

\* The thread of run r is in the loop over its checkpoints.
InLoop(r) == pc[r] \in {"top", "assign"} \/ Executing(r)

\* A run whose outcome its application does not know yet.
Unreported(r) == IsActive(r) /\ notified[r] = None

-----------------------------------------------------------------------------
(* The invariant of every instance.                                        *)

\* What a run reports is its local status, and the failed list and the errors
\* filed with errsvc keep up with it.
Outcome(r) ==
    /\ notified[r] # None => pc[r] \in {"initreset", "exit", "done"}
    /\ notified[r] \in {EXEC_FAILED, CP_INIT_FAILED, EXEC_CANCELED}
          => status[r] = notified[r]
    /\ pc[r] \in {"none", "load"} \/ InLoop(r)
          => status[r] \in {EXEC_SUCCESS, EXEC_FAILED}
    /\ status[r] \notin {EXEC_CANCELED, FATAL_INTERNAL}
          => \A k \in DOMAIN failed[r] : <<failed[r][k], r>> \in errors
    /\ status[r] \in {EXEC_FAILED, CP_INIT_FAILED} => failed[r] # <<>>
    /\ pc[r] \in {"none", "load"} \/ status[r] = EXEC_SUCCESS
          => failed[r] = <<>>

\* A run starts only when the earlier ones have reported, so one at a time
\* has not.
OneUnreported == \A r, s \in Runs : Unreported(r) /\ Unreported(s) => r = s

\* __currently_executing is None or belongs to a run between its assignment
\* and its finally clause; while that run executes, it is what it executes.
CurrentBelongs ==
    currently_executing # NoInstance =>
        \E r \in Runs, k \in Nat :
            /\ currently_executing = <<r, k>>
            /\ InLoop(r) \/ pc[r] \in {"fatal", "finally", "raise"}
            /\ Executing(r) => k = idx[r]

\* While the event is set and no request is inside its critical section, the
\* current checkpoint has been told.
CurrentIsTold ==
    cancel_event /\ (\A t \in Clients : client[t] # "cancel")
        => currently_executing \in cancelled \cup {NoInstance}

\* A run that left the loop because of the event names a cancelled checkpoint
\* of its own last.
CanceledNamed(r) ==
    status[r] = EXEC_CANCELED /\ pc[r] # "fatal" =>
        \E k \in Nat :
            /\ <<r, k>> \in cancelled
            /\ failed[r] # <<>>
            /\ failed[r][Len(failed[r])] = todo[r][k]

OutcomeInv ==
    /\ TypeInv
    /\ LockDiscipline
    /\ \A r \in Runs : Outcome(r)
    /\ OneUnreported
    /\ CurrentBelongs
    /\ CurrentIsTold
    /\ \A r \in Runs : CanceledNamed(r)


\* The loop's index denotes a name.
LEMMA ElementAtIndex ==
    ASSUME TypeInv, NEW r \in Runs, InLoop(r)
    PROVE  todo[r][idx[r]] \in Names /\ idx[r] \in 1..Len(todo[r])
<1>1. idx[r] \in 1..Len(todo[r]) /\ todo[r] \in Seq(Names)
  BY DEF TypeInv, TypeOK, IndexInRange, InLoop
<1> QED BY <1>1, ElementOfSeq

\* __currently_executing denotes a name.
LEMMA ElementAtCurrent ==
    ASSUME TypeInv, NEW r \in Runs, NEW k \in Nat,
           currently_executing = <<r, k>>, currently_executing # NoInstance
    PROVE  todo[r][k] \in Names
<1>1. k \in 1..Len(todo[r]) /\ todo[r] \in Seq(Names)
  BY DEF TypeInv, TypeOK, IndexInRange
<1> QED BY <1>1, ElementOfSeq

\* A list of one element.
LEMMA OneElement ==
    ASSUME NEW x
    PROVE  DOMAIN <<x>> = {1} /\ <<x>>[1] = x /\ <<x>> # <<>>
OBVIOUS

\* list.append: the new element is the last one, the others stay.
LEMMA AppendedElement ==
    ASSUME NEW S, NEW s \in Seq(S), NEW x \in S
    PROVE  /\ Append(s, x) # <<>>
           /\ DOMAIN Append(s, x) = DOMAIN s \cup {Len(s) + 1}
           /\ \A k \in DOMAIN s : Append(s, x)[k] = s[k]
           /\ Append(s, x)[Len(s) + 1] = x
           /\ Append(s, x)[Len(Append(s, x))] = x
BY AppendProperties

\* A step of a run leaves the other runs alone, adds errors and nothing else
\* to the histories, and leaves the list of checkpoints and every todo list.
LEMMA OthersUntouched ==
    ASSUME TypeOK, NEW r \in Runs, EngineStep(r) \/ ExecuteStep(r)
    PROVE  /\ UNCHANGED <<checkpoints, todo, mode, cancelled>>
           /\ errors \subseteq errors'
           /\ IsActive(r)
           /\ notified'[r] = None => notified[r] = None
           /\ \A q \in Runs : q # r =>
                 /\ pc'[q] = pc[q] /\ idx'[q] = idx[q]
                 /\ status'[q] = status[q] /\ failed'[q] = failed[q]
                 /\ notified'[q] = notified[q]
                 /\ succeeded'[q] = succeeded[q]
<1> USE NoneAssumption DEF TypeOK, engineVars, sharedVars,
      localVars, clientVars, ghostVars, IsActive, Status, FATAL_INTERNAL, EXEC_SUCCESS, EXEC_FAILED,
      EXEC_CANCELED, CP_INIT_FAILED, RAISED
<1>1. CASE LoadCheckpoints(r)
  BY <1>1 DEF LoadCheckpoints, LoadFails
<1>2. CASE InitCallback(r)
  BY <1>2 DEF InitCallback
<1>3. CASE InitReset(r)
  BY <1>3 DEF InitReset
<1>4. CASE TestCancel(r)
  BY ZenonT(60), <1>4 DEF TestCancel, LeaveCanceled, EnterCheckpoint
<1>5. CASE AssignCurrent(r)
  BY <1>5 DEF AssignCurrent, Instance
<1>6. CASE SnapshotBefore(r)
  BY <1>6 DEF SnapshotBefore
<1>7. CASE ExecuteSucceeds(r)
  BY <1>7 DEF ExecuteSucceeds
<1>8. CASE ExecuteFails(r)
  BY <1>8 DEF ExecuteFails
<1>9. CASE RecordCompletion(r)
  BY <1>9 DEF RecordCompletion
<1>10. CASE SnapshotAfter(r)
  BY <1>10 DEF SnapshotAfter, NextTurn
<1>11. CASE FatalError(r)
  BY <1>11 DEF FatalError, AfterFatal
<1>12. CASE FinallyReset(r)
  BY ZenonT(60), <1>12 DEF FinallyReset, ReturnToClient
<1>13. CASE Callback(r)
  BY <1>13 DEF Callback
<1>14. CASE ExitRun(r)
  BY <1>14 DEF ExitRun, ReturnToClient
<1> QED
  BY <1>1, <1>2, <1>3, <1>4, <1>5, <1>6, <1>7, <1>8, <1>9,
     <1>10, <1>11, <1>12, <1>13, <1>14
  DEF EngineStep, ExecuteStep

\* What the test of _cancel_event under the lock leads to.
LEMMA TestCancelCases ==
    ASSUME TypeOK, NEW r \in Runs, TestCancel(r)
    PROVE  /\ pc[r] = "top" /\ checkpoint_lock = None
           /\ UNCHANGED <<notified, errors, idx, succeeded>>
           /\ \/ /\ ~cancel_event /\ pc'[r] = "assign"
                 /\ UNCHANGED <<status, failed>>
              \/ /\ cancel_event /\ status'[r] = EXEC_CANCELED
                 /\ currently_executing = NoInstance
                 /\ pc'[r] = "fatal" /\ failed' = failed
              \/ /\ cancel_event /\ status'[r] = EXEC_CANCELED
                 /\ currently_executing # NoInstance
                 /\ pc'[r] = "finally"
                 /\ failed'[r] = Append(failed[r], CpName(currently_executing))
<1> USE DEF TypeOK, ghostVars
<1>1. CASE ~cancel_event
  BY <1>1 DEF TestCancel, EnterCheckpoint
<1>2. CASE cancel_event /\ currently_executing = NoInstance
  BY <1>2 DEF TestCancel, LeaveCanceled
<1>3. CASE cancel_event /\ currently_executing # NoInstance
  BY <1>3 DEF TestCancel, LeaveCanceled
<1> QED BY <1>1, <1>2, <1>3

\* The finally clause goes on to the callback, or a blocking call raises.
LEMMA FinallyCases ==
    ASSUME TypeOK, NEW r \in Runs, FinallyReset(r)
    PROVE  /\ UNCHANGED <<status, failed, errors, idx, succeeded>>
           /\ currently_executing' = NoInstance
           /\ \/ pc[r] = "finally" /\ pc'[r] = "callback" /\ notified' = notified
              \/ pc[r] = "raise" /\ pc'[r] = "done" /\ notified'[r] = RAISED
<1>1. CASE pc[r] = "finally"
  BY <1>1 DEF FinallyReset, TypeOK, localVars
<1>2. CASE pc[r] = "raise"
  BY <1>2 DEF FinallyReset, TypeOK, localVars
<1> QED BY <1>1, <1>2 DEF FinallyReset

\* The steps of a run preserve the discipline of _checkpoint_lock.
LEMMA LockRun ==
    ASSUME OutcomeInv, NEW r \in Runs, EngineStep(r) \/ ExecuteStep(r)
    PROVE  LockDiscipline'
<1> USE NoneAssumption DEF LockDiscipline, OutcomeInv, TypeInv, TypeOK, PCs, ClientPCs, Status,
      IsActive, Instance, NoInstance, Executing, InLoop, engineVars, sharedVars,
      localVars, clientVars, ghostVars
<1>1. CASE LoadCheckpoints(r)
  BY SMTT(30), <1>1 DEF LoadCheckpoints, LoadFails
<1>2. CASE InitCallback(r)
  BY <1>2 DEF InitCallback
<1>3. CASE InitReset(r)
  BY <1>3 DEF InitReset
<1>4. CASE TestCancel(r)
  BY <1>4 DEF TestCancel, LeaveCanceled, EnterCheckpoint
<1>5. CASE AssignCurrent(r)
  BY <1>5 DEF AssignCurrent, Instance
<1>6. CASE SnapshotBefore(r)
  BY SMTT(30), <1>6 DEF SnapshotBefore
<1>7. CASE ExecuteSucceeds(r)
  BY <1>7 DEF ExecuteSucceeds
<1>8. CASE ExecuteFails(r)
  BY <1>8 DEF ExecuteFails
<1>9. CASE RecordCompletion(r)
  BY <1>9 DEF RecordCompletion
<1>10. CASE SnapshotAfter(r)
  BY SMTT(30), <1>10 DEF SnapshotAfter, NextTurn
<1>11. CASE FatalError(r)
  BY <1>11 DEF FatalError, AfterFatal
<1>12. CASE FinallyReset(r)
  BY SMTT(30), <1>12 DEF FinallyReset, ReturnToClient
<1>13. CASE Callback(r)
  BY <1>13 DEF Callback
<1>14. CASE ExitRun(r)
  BY <1>14 DEF ExitRun, ReturnToClient
<1> QED
  BY <1>1, <1>2, <1>3, <1>4, <1>5, <1>6, <1>7, <1>8, <1>9,
     <1>10, <1>11, <1>12, <1>13, <1>14
  DEF EngineStep, ExecuteStep

\* The steps of cancel_checkpoints() preserve the discipline of _checkpoint_lock.
LEMMA LockCancel ==
    ASSUME OutcomeInv, NEW t \in Cancellers, SetCancelEvent(t) \/ CancelStep(t)
    PROVE  LockDiscipline'
<1> USE NoneAssumption DEF LockDiscipline, OutcomeInv, TypeInv, TypeOK, PCs, ClientPCs, Status,
      IsActive, Instance, NoInstance, Executing, InLoop, engineVars, sharedVars,
      localVars, clientVars, ghostVars
<1>0. t \in Clients
  BY DEF Clients
<1>1. CASE SetCancelEvent(t)
  BY <1>0, <1>1 DEF SetCancelEvent
<1>2. CASE CancelCurrent(t)
  BY <1>0, <1>2 DEF CancelCurrent
<1>3. CASE JoinThread(t)
  BY <1>0, <1>3 DEF JoinThread, AfterNoThread
<1>4. CASE Joined(t)
  BY <1>0, <1>4 DEF Joined
<1>5. CASE ClearCancelEvent(t)
  BY <1>0, <1>5 DEF ClearCancelEvent
<1> QED
  BY <1>1, <1>2, <1>3, <1>4, <1>5 DEF CancelStep

\* The steps of a run preserve the link of reports, lists and errors.
LEMMA OutcomeRun ==
    ASSUME OutcomeInv, NEW r \in Runs, EngineStep(r) \/ ExecuteStep(r)
    PROVE  \A q \in Runs : Outcome(q)'
<1>f. /\ UNCHANGED <<checkpoints, todo, mode, cancelled>>
      /\ errors \subseteq errors'
      /\ \A q \in Runs : q # r =>
            /\ pc'[q] = pc[q] /\ idx'[q] = idx[q]
            /\ status'[q] = status[q] /\ failed'[q] = failed[q]
            /\ notified'[q] = notified[q]
  BY OthersUntouched DEF OutcomeInv, TypeInv
<1>a. \A x \in Names :
          /\ Append(failed[r], x) # <<>>
          /\ DOMAIN Append(failed[r], x) = DOMAIN failed[r] \cup {Len(failed[r]) + 1}
          /\ \A k \in DOMAIN failed[r] : Append(failed[r], x)[k] = failed[r][k]
          /\ Append(failed[r], x)[Len(failed[r]) + 1] = x
  <2>1. failed[r] \in Seq(Names \cup {FATAL_INTERNAL})
    BY DEF OutcomeInv, TypeInv, TypeOK
  <2> QED BY <2>1, AppendedElement
<1>e. InLoop(r) => todo[r][idx[r]] \in Names
  BY ElementAtIndex DEF OutcomeInv
<1>t. ASSUME TestCancel(r)
      PROVE  /\ pc[r] = "top" /\ UNCHANGED <<notified, errors>>
             /\ \/ pc'[r] = "assign" /\ UNCHANGED <<status, failed>>
                \/ status'[r] = EXEC_CANCELED /\ pc'[r] \in {"fatal", "finally"}
  BY <1>t, TestCancelCases DEF OutcomeInv, TypeInv
<1>u. ASSUME FinallyReset(r)
      PROVE  /\ pc[r] \in {"finally", "raise"} /\ UNCHANGED <<status, failed, errors>>
             /\ \/ pc'[r] = "callback" /\ notified' = notified
                \/ pc'[r] = "done" /\ notified'[r] = RAISED
  BY <1>u, FinallyCases DEF OutcomeInv, TypeInv
<1> USE NoneAssumption DEF Outcome, FATAL_INTERNAL, EXEC_SUCCESS, EXEC_FAILED,
      EXEC_CANCELED, CP_INIT_FAILED, RAISED, OutcomeInv, TypeInv, TypeOK, PCs, ClientPCs, Status,
      IsActive, Instance, NoInstance, Executing, InLoop, engineVars, sharedVars,
      localVars, clientVars, ghostVars
<1> SUFFICES ASSUME NEW q \in Runs PROVE Outcome(q)'
  OBVIOUS
<1>0. CASE q # r
  BY <1>0, <1>f
<1> SUFFICES Outcome(r)'
  BY <1>0
<1>1. CASE LoadCheckpoints(r)
  <2>1. CASE pc' = [pc EXCEPT ![r] = "top"] /\ UNCHANGED <<status, failed, errors>>
    BY <1>1, <2>1 DEF LoadCheckpoints
  <2>2. ASSUME NEW k \in DOMAIN todo[r], LoadFails(r, k)
        PROVE  Outcome(r)'
    <3>1. /\ pc'[r] = "initcallback" /\ status'[r] = CP_INIT_FAILED
          /\ failed'[r] = <<todo[r][k]>>
          /\ <<todo[r][k], r>> \in errors'
          /\ notified'[r] = notified[r]
      BY ZenonT(60), <1>1, <2>2 DEF LoadCheckpoints, LoadFails
    <3>2. notified[r] = None
      BY <1>1 DEF LoadCheckpoints
    <3>3. DOMAIN failed'[r] = {1} /\ failed'[r][1] = todo[r][k] /\ failed'[r] # <<>>
      <4> HIDE NoneAssumption DEF Outcome, OutcomeInv, TypeInv, TypeOK
      <4> QED BY <3>1, OneElement
    <3> QED BY <3>1, <3>2, <3>3
  <2> QED BY <1>1, <2>1, <2>2 DEF LoadCheckpoints
<1>2. CASE InitCallback(r)
  BY <1>2 DEF InitCallback
<1>3. CASE InitReset(r)
  BY <1>3 DEF InitReset
<1>4. CASE TestCancel(r)
  <2>1. notified[r] = None
    BY <1>t, <1>4
  <2> QED BY <1>4, <2>1, <1>t
<1>5. CASE AssignCurrent(r)
  BY <1>5 DEF AssignCurrent, Instance
<1>6. CASE SnapshotBefore(r)
  BY <1>6 DEF SnapshotBefore
<1>7. CASE ExecuteSucceeds(r)
  BY <1>7 DEF ExecuteSucceeds
<1>8. CASE ExecuteFails(r)
  <2>1. /\ status'[r] = EXEC_FAILED /\ notified'[r] = notified[r]
        /\ failed'[r] = Append(failed[r], todo[r][idx[r]])
        /\ errors' = errors \cup {<<todo[r][idx[r]], r>>}
    BY ZenonT(60), <1>8 DEF ExecuteFails
  <2>2. pc'[r] \in {"record", "fatal", "finally"}
    BY <1>8 DEF ExecuteFails
  <2>3. notified[r] = None /\ failed[r] \in Seq(Names \cup {FATAL_INTERNAL})
    BY <1>8 DEF ExecuteFails
  <2>4. \A k \in DOMAIN failed[r] : <<failed[r][k], r>> \in errors
    BY <1>8 DEF ExecuteFails
  <2>5. /\ failed'[r] # <<>>
        /\ \A k \in DOMAIN failed'[r] : <<failed'[r][k], r>> \in errors'
    <3>1. todo[r][idx[r]] \in Names
      BY <1>e, <1>8 DEF ExecuteFails
    <3> HIDE NoneAssumption DEF Outcome, OutcomeInv, TypeInv, TypeOK, FATAL_INTERNAL
    <3>2. ASSUME NEW g, g = Append(failed[r], todo[r][idx[r]])
          PROVE  /\ g # <<>>
                 /\ DOMAIN g = DOMAIN failed[r] \cup {Len(failed[r]) + 1}
                 /\ \A k \in DOMAIN failed[r] : g[k] = failed[r][k]
                 /\ g[Len(failed[r]) + 1] = todo[r][idx[r]]
      BY <1>a, <3>1, <3>2
    <3> QED BY <2>1, <2>4, <3>2
  <2> QED BY <2>1, <2>2, <2>3, <2>5
<1>9. CASE RecordCompletion(r)
  BY ZenonT(60), <1>9 DEF RecordCompletion
<1>10. CASE SnapshotAfter(r)
  <2>1. /\ UNCHANGED <<status, failed, notified, errors>>
        /\ pc'[r] \in {"top", "finally", "fatal"}
    BY ZenonT(60), <1>10 DEF SnapshotAfter
  <2> QED BY <1>10, <2>1 DEF SnapshotAfter
<1>11. CASE FatalError(r)
  BY <1>11 DEF FatalError, AfterFatal
<1>12. CASE FinallyReset(r)
  <2> QED BY <1>12, <1>u
<1>13. CASE Callback(r)
  BY <1>13 DEF Callback
<1>14. CASE ExitRun(r)
  BY <1>14 DEF ExitRun, ReturnToClient
<1> QED
  BY <1>1, <1>2, <1>3, <1>4, <1>5, <1>6, <1>7, <1>8, <1>9,
     <1>10, <1>11, <1>12, <1>13, <1>14
  DEF EngineStep, ExecuteStep

\* The steps of cancel_checkpoints() preserve the link of reports, lists and errors.
LEMMA OutcomeCancel ==
    ASSUME OutcomeInv, NEW t \in Cancellers, SetCancelEvent(t) \/ CancelStep(t)
    PROVE  \A q \in Runs : Outcome(q)'
<1> USE NoneAssumption DEF Outcome, FATAL_INTERNAL, EXEC_SUCCESS, EXEC_FAILED,
      EXEC_CANCELED, CP_INIT_FAILED, RAISED, OutcomeInv, TypeInv, TypeOK, PCs, ClientPCs, Status,
      IsActive, Instance, NoInstance, Executing, InLoop, engineVars, sharedVars,
      localVars, clientVars, ghostVars
<1> SUFFICES ASSUME NEW q \in Runs PROVE Outcome(q)'
  OBVIOUS
<1>0. t \in Clients
  BY DEF Clients
<1>1. CASE SetCancelEvent(t)
  BY <1>0, <1>1 DEF SetCancelEvent
<1>2. CASE CancelCurrent(t)
  BY <1>0, <1>2 DEF CancelCurrent
<1>3. CASE JoinThread(t)
  BY <1>0, <1>3 DEF JoinThread, AfterNoThread
<1>4. CASE Joined(t)
  BY <1>0, <1>4 DEF Joined
<1>5. CASE ClearCancelEvent(t)
  BY <1>0, <1>5 DEF ClearCancelEvent
<1> QED
  BY <1>1, <1>2, <1>3, <1>4, <1>5 DEF CancelStep

\* The steps of a run preserve the order of reports.
LEMMA OneUnreportedRun ==
    ASSUME OutcomeInv, NEW r \in Runs, EngineStep(r) \/ ExecuteStep(r)
    PROVE  OneUnreported'
<1>1. \A q \in Runs : Unreported(q)' => Unreported(q)
  BY OthersUntouched DEF OutcomeInv, TypeInv, Unreported, IsActive
<1> QED BY <1>1 DEF OutcomeInv, OneUnreported

\* The steps of cancel_checkpoints() preserve the order of reports.
LEMMA OneUnreportedCancel ==
    ASSUME OutcomeInv, NEW t \in Cancellers, SetCancelEvent(t) \/ CancelStep(t)
    PROVE  OneUnreported'
<1> USE NoneAssumption DEF OneUnreported, Unreported, OutcomeInv, TypeInv, TypeOK, PCs, ClientPCs, Status,
      IsActive, Instance, NoInstance, Executing, InLoop, engineVars, sharedVars,
      localVars, clientVars, ghostVars
<1>0. t \in Clients
  BY DEF Clients
<1>1. CASE SetCancelEvent(t)
  BY <1>0, <1>1 DEF SetCancelEvent
<1>2. CASE CancelCurrent(t)
  BY <1>0, <1>2 DEF CancelCurrent
<1>3. CASE JoinThread(t)
  BY <1>0, <1>3 DEF JoinThread, AfterNoThread
<1>4. CASE Joined(t)
  BY <1>0, <1>4 DEF Joined
<1>5. CASE ClearCancelEvent(t)
  BY <1>0, <1>5 DEF ClearCancelEvent
<1> QED
  BY <1>1, <1>2, <1>3, <1>4, <1>5 DEF CancelStep

\* The steps of a run preserve whose checkpoint is current.
LEMMA BelongsRun ==
    ASSUME OutcomeInv, NEW r \in Runs, EngineStep(r) \/ ExecuteStep(r)
    PROVE  CurrentBelongs'
<1>f. /\ UNCHANGED <<checkpoints, todo, mode, cancelled>>
      /\ errors \subseteq errors'
      /\ \A q \in Runs : q # r =>
            /\ pc'[q] = pc[q] /\ idx'[q] = idx[q]
            /\ status'[q] = status[q] /\ failed'[q] = failed[q]
            /\ notified'[q] = notified[q]
  BY OthersUntouched DEF OutcomeInv, TypeInv
<1>t. TestCancel(r) => pc[r] = "top" /\ pc'[r] \in {"assign", "fatal", "finally"}
  BY TestCancelCases DEF OutcomeInv, TypeInv
<1> USE NoneAssumption DEF CurrentBelongs, OutcomeInv, TypeInv, TypeOK, PCs, ClientPCs, Status,
      IsActive, Instance, NoInstance, Executing, InLoop, engineVars, sharedVars,
      localVars, clientVars, ghostVars
<1>1. CASE AssignCurrent(r)
  BY <1>1 DEF AssignCurrent
<1>2. CASE currently_executing' = NoInstance
  BY <1>2
<1>3. CASE ~AssignCurrent(r) /\ currently_executing' # NoInstance
  <2>1. currently_executing' = currently_executing
    BY <1>3 DEF EngineStep, ExecuteStep, LoadCheckpoints, InitCallback, InitReset,
      TestCancel, SnapshotBefore, ExecuteSucceeds, ExecuteFails, RecordCompletion,
      SnapshotAfter, FatalError, FinallyReset, Callback, ExitRun
  <2>2. PICK c \in Runs, k \in Nat :
            /\ currently_executing = <<c, k>>
            /\ InLoop(c) \/ pc[c] \in {"fatal", "finally", "raise"}
            /\ Executing(c) => k = idx[c]
    BY <1>3, <2>1
  <2>3. CASE c # r
    BY <2>1, <2>2, <2>3, <1>f
  <2>4. CASE c = r
    <3>1. /\ InLoop(r)' \/ pc'[r] \in {"fatal", "finally", "raise"}
          /\ Executing(r)' => k = idx'[r]
      <4>1. CASE TestCancel(r)
        BY <4>1, <2>2, <2>4, <1>t
      <4>2. CASE SnapshotBefore(r) \/ RecordCompletion(r)
        BY <4>2, <2>2, <2>4 DEF SnapshotBefore, RecordCompletion
      <4>3. CASE ExecuteStep(r)
        BY <4>3, <2>2, <2>4 DEF ExecuteStep, ExecuteSucceeds, ExecuteFails
      <4>4. CASE SnapshotAfter(r)
        BY <4>4, <2>2, <2>4 DEF SnapshotAfter
      <4>5. CASE FatalError(r)
        BY <4>5, <2>2, <2>4 DEF FatalError, AfterFatal
      <4>6. CASE \/ LoadCheckpoints(r) \/ InitCallback(r) \/ InitReset(r)
                 \/ Callback(r) \/ ExitRun(r)
        BY <4>6, <2>2, <2>4 DEF LoadCheckpoints, InitCallback, InitReset, Callback,
          ExitRun
      <4>7. CASE FinallyReset(r)
        BY <4>7, <1>3 DEF FinallyReset
      <4> QED BY <1>3, <4>1, <4>2, <4>3, <4>4, <4>5, <4>6, <4>7 DEF EngineStep
    <3> QED BY <2>1, <2>2, <2>4, <3>1
  <2> QED BY <2>3, <2>4
<1> QED BY <1>1, <1>2, <1>3

\* The steps of cancel_checkpoints() preserve whose checkpoint is current.
LEMMA BelongsCancel ==
    ASSUME OutcomeInv, NEW t \in Cancellers, SetCancelEvent(t) \/ CancelStep(t)
    PROVE  CurrentBelongs'
<1> USE NoneAssumption DEF CurrentBelongs, OutcomeInv, TypeInv, TypeOK, PCs, ClientPCs, Status,
      IsActive, Instance, NoInstance, Executing, InLoop, engineVars, sharedVars,
      localVars, clientVars, ghostVars
<1>0. t \in Clients
  BY DEF Clients
<1>1. CASE SetCancelEvent(t)
  BY <1>0, <1>1 DEF SetCancelEvent
<1>2. CASE CancelCurrent(t)
  BY <1>0, <1>2 DEF CancelCurrent
<1>3. CASE JoinThread(t)
  BY <1>0, <1>3 DEF JoinThread, AfterNoThread
<1>4. CASE Joined(t)
  BY <1>0, <1>4 DEF Joined
<1>5. CASE ClearCancelEvent(t)
  BY <1>0, <1>5 DEF ClearCancelEvent
<1> QED
  BY <1>1, <1>2, <1>3, <1>4, <1>5 DEF CancelStep

\* The steps of a run preserve that the current checkpoint was told.
LEMMA ToldRun ==
    ASSUME OutcomeInv, NEW r \in Runs, EngineStep(r) \/ ExecuteStep(r)
    PROVE  CurrentIsTold'
<1> USE NoneAssumption DEF CurrentIsTold, LockDiscipline, OutcomeInv, TypeInv, TypeOK, PCs, ClientPCs, Status,
      IsActive, Instance, NoInstance, Executing, InLoop, engineVars, sharedVars,
      localVars, clientVars, ghostVars
<1>1. CASE LoadCheckpoints(r)
  BY <1>1 DEF LoadCheckpoints, LoadFails
<1>2. CASE InitCallback(r)
  BY <1>2 DEF InitCallback
<1>3. CASE InitReset(r)
  BY <1>3 DEF InitReset
<1>4. CASE TestCancel(r)
  BY <1>4 DEF TestCancel, LeaveCanceled, EnterCheckpoint
<1>5. CASE AssignCurrent(r)
  BY <1>5 DEF AssignCurrent, Instance
<1>6. CASE SnapshotBefore(r)
  BY <1>6 DEF SnapshotBefore
<1>7. CASE ExecuteSucceeds(r)
  BY <1>7 DEF ExecuteSucceeds
<1>8. CASE ExecuteFails(r)
  BY <1>8 DEF ExecuteFails
<1>9. CASE RecordCompletion(r)
  BY <1>9 DEF RecordCompletion
<1>10. CASE SnapshotAfter(r)
  BY <1>10 DEF SnapshotAfter, NextTurn
<1>11. CASE FatalError(r)
  BY <1>11 DEF FatalError, AfterFatal
<1>12. CASE FinallyReset(r)
  BY <1>12 DEF FinallyReset, ReturnToClient
<1>13. CASE Callback(r)
  BY <1>13 DEF Callback
<1>14. CASE ExitRun(r)
  BY <1>14 DEF ExitRun, ReturnToClient
<1> QED
  BY <1>1, <1>2, <1>3, <1>4, <1>5, <1>6, <1>7, <1>8, <1>9,
     <1>10, <1>11, <1>12, <1>13, <1>14
  DEF EngineStep, ExecuteStep

\* The steps of cancel_checkpoints() preserve that the current checkpoint was told.
LEMMA ToldCancel ==
    ASSUME OutcomeInv, NEW t \in Cancellers, SetCancelEvent(t) \/ CancelStep(t)
    PROVE  CurrentIsTold'
<1> USE NoneAssumption DEF CurrentIsTold, LockDiscipline, OutcomeInv, TypeInv, TypeOK, PCs, ClientPCs, Status,
      IsActive, Instance, NoInstance, Executing, InLoop, engineVars, sharedVars,
      localVars, clientVars, ghostVars
<1>0. t \in Clients
  BY DEF Clients
<1>1. CASE SetCancelEvent(t)
  BY <1>0, <1>1 DEF SetCancelEvent
<1>2. CASE CancelCurrent(t)
  BY <1>0, <1>2 DEF CancelCurrent
<1>3. CASE JoinThread(t)
  BY <1>0, <1>3 DEF JoinThread, AfterNoThread
<1>4. CASE Joined(t)
  BY <1>0, <1>4 DEF Joined
<1>5. CASE ClearCancelEvent(t)
  BY <1>0, <1>5 DEF ClearCancelEvent
<1> QED
  BY <1>1, <1>2, <1>3, <1>4, <1>5 DEF CancelStep

\* The steps of a run preserve the name of the cancelled checkpoint.
LEMMA NamedRun ==
    ASSUME OutcomeInv, NEW r \in Runs, EngineStep(r) \/ ExecuteStep(r)
    PROVE  \A q \in Runs : CanceledNamed(q)'
<1> SUFFICES ASSUME NEW q \in Runs, status'[q] = EXEC_CANCELED, pc'[q] # "fatal"
             PROVE  \E k \in Nat :
                       /\ <<q, k>> \in cancelled' /\ failed'[q] # <<>>
                       /\ failed'[q][Len(failed'[q])] = todo'[q][k]
  BY DEF CanceledNamed
<1>0. TypeInv /\ TypeOK /\ LockDiscipline
  BY DEF OutcomeInv, TypeInv
<1>1. /\ UNCHANGED <<todo, cancelled>>
      /\ q # r => pc'[q] = pc[q] /\ status'[q] = status[q] /\ failed'[q] = failed[q]
  BY <1>0, OthersUntouched
<1>2. CASE status[q] = EXEC_CANCELED /\ pc[q] # "fatal" /\ failed'[q] = failed[q]
  BY <1>1, <1>2 DEF OutcomeInv, CanceledNamed
<1>3. CASE q = r /\ TestCancel(r)
  <2>1. status[r] # EXEC_CANCELED
    BY <1>0, <1>3, TestCancelCases DEF OutcomeInv, Outcome, InLoop, EXEC_SUCCESS,
      EXEC_FAILED, EXEC_CANCELED
  <2>2. /\ pc[r] = "top" /\ checkpoint_lock = None
        /\ cancel_event /\ currently_executing # NoInstance
        /\ failed'[r] = Append(failed[r], CpName(currently_executing))
    BY <1>0, <1>3, <2>1, TestCancelCases
  <2>3. PICK c \in Runs, k \in Nat :
            /\ currently_executing = <<c, k>>
            /\ InLoop(c) \/ pc[c] \in {"fatal", "finally", "raise"}
    BY <2>2 DEF OutcomeInv, CurrentBelongs
  <2>4. Unreported(c) /\ Unreported(r)
    BY <2>2, <2>3 DEF OutcomeInv, Outcome, Unreported, IsActive, InLoop, Executing
  <2>5. c = r
    BY <2>4 DEF OutcomeInv, OneUnreported
  <2>6. \A t \in Clients : client[t] # "cancel"
    BY <1>0, <2>2, NoneAssumption DEF LockDiscipline
  <2>7. <<r, k>> \in cancelled
    BY <2>2, <2>3, <2>5, <2>6, NoneAssumption DEF OutcomeInv, CurrentIsTold, NoInstance
  <2>8. todo[r][k] \in Names /\ CpName(currently_executing) = todo[r][k]
    BY <1>0, <2>2, <2>3, <2>5, ElementAtCurrent DEF CpName
  <2>9. failed[r] \in Seq(Names \cup {FATAL_INTERNAL})
    BY <1>0 DEF TypeOK
  <2>10. failed'[r] # <<>> /\ failed'[r][Len(failed'[r])] = todo[r][k]
    BY <2>2, <2>8, <2>9, AppendedElement
  <2> QED BY <1>1, <1>3, <2>7, <2>10
<1>4. CASE q = r /\ ~TestCancel(r)
  <2> USE DEF OutcomeInv, TypeOK, Outcome, InLoop, Executing, localVars, ghostVars,
        EXEC_SUCCESS, EXEC_FAILED, EXEC_CANCELED, CP_INIT_FAILED, FATAL_INTERNAL
  <2>1. CASE LoadCheckpoints(r)
    BY <1>0, <1>4, <2>1 DEF LoadCheckpoints, LoadFails
  <2>2. CASE InitCallback(r) \/ InitReset(r) \/ Callback(r) \/ ExitRun(r)
    BY <1>2, <1>4, <2>2 DEF InitCallback, InitReset, Callback, ExitRun
  <2>3. CASE AssignCurrent(r) \/ SnapshotBefore(r) \/ RecordCompletion(r)
    BY <1>4, <2>3 DEF AssignCurrent, SnapshotBefore, RecordCompletion
  <2>4. CASE SnapshotAfter(r) \/ ExecuteSucceeds(r)
    BY <1>4, <2>4 DEF SnapshotAfter, ExecuteSucceeds
  <2>5. CASE ExecuteFails(r)
    BY <1>0, <1>4, <2>5 DEF ExecuteFails
  <2>6. CASE FatalError(r)
    BY <1>0, <1>4, <2>6 DEF FatalError
  <2>7. CASE FinallyReset(r)
    BY <1>0, <1>2, <1>4, <2>7, FinallyCases
  <2> QED BY <1>4, <2>1, <2>2, <2>3, <2>4, <2>5, <2>6, <2>7 DEF EngineStep, ExecuteStep
<1> QED BY <1>1, <1>2, <1>3, <1>4

\* The steps of cancel_checkpoints() preserve the name of the cancelled checkpoint.
LEMMA NamedCancel ==
    ASSUME OutcomeInv, NEW t \in Cancellers, SetCancelEvent(t) \/ CancelStep(t)
    PROVE  \A q \in Runs : CanceledNamed(q)'
<1> USE NoneAssumption DEF CanceledNamed, OutcomeInv, TypeInv, TypeOK, PCs, ClientPCs, Status,
      IsActive, Instance, NoInstance, Executing, InLoop, engineVars, sharedVars,
      localVars, clientVars, ghostVars
<1> SUFFICES ASSUME NEW q \in Runs PROVE CanceledNamed(q)'
  OBVIOUS
<1>0. t \in Clients
  BY DEF Clients
<1>1. CASE SetCancelEvent(t)
  BY <1>0, <1>1 DEF SetCancelEvent
<1>2. CASE CancelCurrent(t)
  BY <1>0, <1>2 DEF CancelCurrent
<1>3. CASE JoinThread(t)
  BY <1>0, <1>3 DEF JoinThread, AfterNoThread
<1>4. CASE Joined(t)
  BY <1>0, <1>4 DEF Joined
<1>5. CASE ClearCancelEvent(t)
  BY <1>0, <1>5 DEF ClearCancelEvent
<1> QED
  BY <1>1, <1>2, <1>3, <1>4, <1>5 DEF CancelStep

\* execute_checkpoints() raises before it starts anything, has nothing to run
\* or starts a run, always when every active run has reported.
Starting(t, r, m) ==
    /\ MayStart /\ pc[r] = "none" /\ client[t] = "idle"
    /\ \/ UNCHANGED <<checkpoints, sharedVars, pc, localVars, clientVars, ghostVars>>
       \/ NothingToRun(r, m)
       \/ \E list : StartRun(t, r, m, list)

\* Both forms of the call do one of these.
LEMMA ExecuteStarts ==
    ASSUME NEW t, NEW r, NEW m, NEW pause,
           \/ ExecuteCheckpoints(t, r, m, pause)
           \/ \E start \in Names : ExecuteCheckpointsFrom(t, r, m, start, pause)
    PROVE  Starting(t, r, m)
<1>1. ASSUME NEW flags, NEW start, NEW pos,
             ExecuteFrom(t, r, m, flags, start, pos)
      PROVE  \/ UNCHANGED <<checkpoints, sharedVars, pc, localVars, clientVars, ghostVars>>
             \/ NothingToRun(r, m)
             \/ \E list : StartRun(t, r, m, list)
  BY <1>1 DEF ExecuteFrom
<1>2. CASE ExecuteCheckpoints(t, r, m, pause)
  BY <1>1, <1>2 DEF ExecuteCheckpoints, Starting
<1>3. ASSUME NEW start \in Names, ExecuteCheckpointsFrom(t, r, m, start, pause)
      PROVE  Starting(t, r, m)
  BY <1>1, <1>3 DEF ExecuteCheckpointsFrom, Starting
<1> QED BY <1>2, <1>3

\* The parts of the invariant that hold of every instance, besides the types.
OutcomeRest ==
    /\ LockDiscipline
    /\ \A r \in Runs : Outcome(r)
    /\ OneUnreported
    /\ CurrentBelongs
    /\ CurrentIsTold
    /\ \A r \in Runs : CanceledNamed(r)

\* They do not depend on the list of checkpoints and its flags.
LEMMA OutcomeStutter ==
    ASSUME OutcomeRest,
           UNCHANGED <<sharedVars, pc, localVars, clientVars, ghostVars>>
    PROVE  OutcomeRest'
<1> USE DEF OutcomeRest, IsActive, Executing, InLoop, sharedVars, localVars, clientVars,
      ghostVars
<1>1. LockDiscipline'  BY DEF LockDiscipline
<1>2. \A r \in Runs : Outcome(r)'  BY DEF Outcome
<1>3. OneUnreported'  BY DEF OneUnreported, Unreported
<1>4. CurrentBelongs'  BY DEF CurrentBelongs
<1>5. CurrentIsTold'  BY DEF CurrentIsTold
<1>6. \A r \in Runs : CanceledNamed(r)'  BY DEF CanceledNamed
<1> QED BY <1>1, <1>2, <1>3, <1>4, <1>5, <1>6

\* A call of execute_checkpoints() preserves the invariant of every instance.
LEMMA OutcomeStarting ==
    ASSUME OutcomeInv, NEW t \in Executors, NEW r \in Runs, NEW m, Starting(t, r, m)
    PROVE  OutcomeRest'
<1>0. TypeOK /\ OutcomeRest
  BY DEF OutcomeInv, OutcomeRest, TypeInv
<1>1. CASE UNCHANGED <<checkpoints, sharedVars, pc, localVars, clientVars, ghostVars>>
  <2>1. UNCHANGED <<sharedVars, pc, localVars, clientVars, ghostVars>>
    BY <1>1
  <2> QED BY <1>0, <2>1, OutcomeStutter
<1>2. ASSUME pc' = [pc EXCEPT ![r] = "load"] \/ pc' = [pc EXCEPT ![r] = "done"],
             \A q \in Runs : q # r => todo'[q] = todo[q],
             \A u \in Clients : client'[u] = client[u]
                                \/ (client[u] = "idle" /\ client'[u] = "blocked"),
             UNCHANGED <<currently_executing, checkpoint_lock, cancel_event, idx,
                         status, failed, ghostVars>>
      PROVE  OutcomeRest'
  <2> USE NoneAssumption DEF OutcomeRest, TypeOK, IsActive, Executing, InLoop, ghostVars
  <2>0. /\ pc[r] = "none" /\ pc'[r] \in {"load", "done"} /\ notified[r] = None
        /\ \A q \in Runs : q # r => pc'[q] = pc[q]
    BY <1>0, <1>2 DEF Starting, Outcome
  <2>1. LockDiscipline'
    BY <1>0, <1>2, <2>0 DEF LockDiscipline
  <2>2. \A q \in Runs : Outcome(q)'
    <3> SUFFICES ASSUME NEW q \in Runs PROVE Outcome(q)'
      OBVIOUS
    <3>1. Outcome(q)
      BY <1>0
    <3>2. CASE q # r
      BY <1>2, <2>0, <3>1, <3>2 DEF Outcome
    <3>3. CASE q = r
      BY <1>2, <2>0, <3>1, <3>3 DEF Outcome
    <3> QED BY <3>2, <3>3
  <2>3. OneUnreported'
    <3>1. \A q \in Runs : q # r => ~Unreported(q)'
      BY <1>2, <2>0 DEF Starting, MayStart, Unreported
    <3> QED BY <3>1 DEF OneUnreported
  <2>4. CurrentBelongs'
    <3> SUFFICES ASSUME currently_executing # NoInstance PROVE CurrentBelongs'
      BY <1>2 DEF CurrentBelongs, NoInstance
    <3>1. PICK c \in Runs, k \in Nat :
              /\ currently_executing = <<c, k>>
              /\ InLoop(c) \/ pc[c] \in {"fatal", "finally", "raise"}
              /\ Executing(c) => k = idx[c]
      BY <1>0 DEF CurrentBelongs
    <3>2. c # r /\ pc'[c] = pc[c]
      BY <2>0, <3>1
    <3> QED BY <1>2, <3>1, <3>2 DEF CurrentBelongs
  <2>5. CurrentIsTold'
    BY ZenonT(60), <1>0, <1>2 DEF CurrentIsTold, NoInstance
  <2>6. \A q \in Runs : CanceledNamed(q)'
    <3> SUFFICES ASSUME NEW q \in Runs PROVE CanceledNamed(q)'
      OBVIOUS
    <3>1. CASE q = r
      <4>1. status[r] # EXEC_CANCELED
        BY <1>0, <2>0 DEF Outcome, EXEC_CANCELED, EXEC_SUCCESS, EXEC_FAILED
      <4> QED BY <1>2, <3>1, <4>1 DEF CanceledNamed
    <3>2. CASE q # r
      <4> SUFFICES ASSUME status[q] = EXEC_CANCELED, pc[q] # "fatal"
                   PROVE  \E k \in Nat :
                             /\ <<q, k>> \in cancelled /\ failed[q] # <<>>
                             /\ failed[q][Len(failed[q])] = todo[q][k]
        BY <1>2, <2>0, <3>2 DEF CanceledNamed
      <4> QED BY <1>0 DEF CanceledNamed
    <3> QED BY <3>1, <3>2
  <2> QED BY <2>1, <2>2, <2>3, <2>4, <2>5, <2>6
<1>3. CASE NothingToRun(r, m)
  <2>1. pc' = [pc EXCEPT ![r] = "done"]
    BY <1>3 DEF NothingToRun
  <2>2. client' = client /\ todo' = todo
    BY <1>3 DEF NothingToRun, clientVars
  <2>3. UNCHANGED <<currently_executing, checkpoint_lock, cancel_event, idx, status,
                    failed, ghostVars>>
    BY <1>3 DEF NothingToRun, sharedVars
  <2>4. \A q \in Runs : q # r => todo'[q] = todo[q]
    BY <2>2
  <2>5. \A u \in Clients : client'[u] = client[u]
                           \/ (client[u] = "idle" /\ client'[u] = "blocked")
    BY <2>2
  <2> QED BY <1>2, <2>1, <2>3, <2>4, <2>5
<1>4. ASSUME NEW list, StartRun(t, r, m, list)
      PROVE  OutcomeRest'
  <2>1. t \in Clients
    BY DEF Clients
  <2>2. \A u \in Clients : client'[u] = client[u]
                           \/ (client[u] = "idle" /\ client'[u] = "blocked")
    <3>1. client[t] = "idle"
      BY DEF Starting
    <3>2. client' = [client EXCEPT ![t] = IF m = "blocking" THEN "blocked" ELSE client[t]]
      BY <1>4 DEF StartRun
    <3>3. client'[t] \in {"blocked", "idle"} /\ \A u \in Clients : u # t => client'[u] = client[u]
      BY <1>0, <2>1, <3>1, <3>2 DEF TypeOK
    <3> QED BY <3>1, <3>3
  <2>3. \A q \in Runs : q # r => todo'[q] = todo[q]
    BY <1>0, <1>4 DEF StartRun, TypeOK
  <2> QED BY <1>2, <1>4, <2>2, <2>3 DEF StartRun
<1> QED BY <1>1, <1>3, <1>4 DEF Starting

\* Every step preserves the invariant of every instance.
LEMMA OutcomeNext == OutcomeInv /\ [Next]_vars => OutcomeInv'
<1> SUFFICES ASSUME OutcomeInv, [Next]_vars PROVE OutcomeInv'
  OBVIOUS
<1>0. TypeInv /\ OutcomeRest
  BY DEF OutcomeInv, OutcomeRest
<1>1. TypeInv'
  BY <1>0, TypeNext
<1>2. ASSUME NEW r \in Runs, EngineStep(r) \/ ExecuteStep(r)
      PROVE  OutcomeRest'
  BY <1>2, LockRun, OutcomeRun, OneUnreportedRun, BelongsRun, ToldRun, NamedRun
  DEF OutcomeRest
<1>3. ASSUME NEW t \in Cancellers, SetCancelEvent(t) \/ CancelStep(t)
      PROVE  OutcomeRest'
  BY <1>3, LockCancel, OutcomeCancel, OneUnreportedCancel, BelongsCancel, ToldCancel,
     NamedCancel
  DEF OutcomeRest
<1>4. ASSUME NEW t \in Executors, NEW r \in Runs, NEW m \in Modes,
             NEW pause \in Names \cup {None},
             \/ ExecuteCheckpoints(t, r, m, pause)
             \/ \E start \in Names : ExecuteCheckpointsFrom(t, r, m, start, pause)
      PROVE  OutcomeRest'
  <2>1. Starting(t, r, m)
    BY <1>4, ExecuteStarts
  <2> QED BY <2>1, OutcomeStarting
<1>5. ASSUME NEW name \in Names, NEW before \in Names \cup {None},
             RegisterCheckpoint(name, before)
      PROVE  OutcomeRest'
  <2>1. UNCHANGED <<sharedVars, pc, localVars, clientVars, ghostVars>>
    BY <1>5 DEF RegisterCheckpoint
  <2> QED BY <1>0, <2>1, OutcomeStutter
<1>6. ASSUME CleanupCheckpoints
      PROVE  OutcomeRest'
  <2>1. UNCHANGED <<sharedVars, pc, localVars, clientVars, ghostVars>>
    BY <1>6 DEF CleanupCheckpoints
  <2> QED BY <1>0, <2>1, OutcomeStutter
<1>7. ASSUME UNCHANGED vars
      PROVE  OutcomeRest'
  <2>1. UNCHANGED <<sharedVars, pc, localVars, clientVars, ghostVars>>
    BY <1>7 DEF vars
  <2> QED BY <1>0, <2>1, OutcomeStutter
<1>8. OutcomeRest'
  BY <1>2, <1>3, <1>4, <1>5, <1>6, <1>7 DEF Next
<1> QED BY <1>1, <1>8 DEF OutcomeInv, OutcomeRest

\* The invariant of every instance holds initially.
LEMMA InitOutcomeInv == Init => OutcomeInv
<1> SUFFICES ASSUME Init PROVE OutcomeInv
  OBVIOUS
<1>1. TypeInv
  BY InitTypeInv
<1> USE NoneAssumption DEF Init, IsActive, Executing, InLoop
<1>2. LockDiscipline /\ OneUnreported /\ CurrentBelongs /\ CurrentIsTold
  BY DEF LockDiscipline, OneUnreported, Unreported, CurrentBelongs, CurrentIsTold
<1>3. ASSUME NEW r \in Runs PROVE Outcome(r) /\ CanceledNamed(r)
  <2>1. /\ pc[r] = "none" /\ status[r] = EXEC_SUCCESS /\ failed[r] = <<>>
        /\ notified[r] = None
    OBVIOUS
  <2>2. DOMAIN failed[r] = {}
    BY <2>1
  <2> QED BY <2>1, <2>2 DEF Outcome, CanceledNamed, Status, RAISED, EXEC_SUCCESS,
    EXEC_FAILED, EXEC_CANCELED, CP_INIT_FAILED, FATAL_INTERNAL
<1> QED BY <1>1, <1>2, <1>3 DEF OutcomeInv

\* What a run reports as failed it has filed with errsvc itself, under the
\* name the callback was given: for any clients and modes.
THEOREM ReportsHaveErrors == Spec => []FailuresHaveErrors
<1>1. OutcomeInv => FailuresHaveErrors
  BY DEF OutcomeInv, Outcome, FailuresHaveErrors, EXEC_FAILED, CP_INIT_FAILED,
    EXEC_CANCELED, FATAL_INTERNAL
<1> QED BY <1>1, InitOutcomeInv, OutcomeNext, PTL DEF Spec

\* EXEC_CANCELED is reported only by a run whose own checkpoint was told, and
\* with that checkpoint's name last: a request meant for one run never ends
\* another, for any number of cancelling clients, and when the next run is
\* started from a callback.
THEOREM CanceledIsNamed == Spec => []CanceledNamesTheCancelled
<1>1. OutcomeInv => CanceledNamesTheCancelled
  <2> SUFFICES ASSUME OutcomeInv, NEW r \in Runs, notified[r] = EXEC_CANCELED
               PROVE  \E inst \in cancelled :
                        /\ inst[1] = r
                        /\ failed[r] # <<>>
                        /\ failed[r][Len(failed[r])] = CpName(inst)
    BY DEF CanceledNamesTheCancelled
  <2>1. notified[r] # None
    BY NoneAssumption DEF Status
  <2>2. status[r] = EXEC_CANCELED /\ pc[r] # "fatal"
    BY <2>1 DEF OutcomeInv, Outcome
  <2>3. PICK k \in Nat : /\ <<r, k>> \in cancelled
                         /\ failed[r] # <<>>
                         /\ failed[r][Len(failed[r])] = todo[r][k]
    BY <2>2 DEF OutcomeInv, CanceledNamed
  <2> QED BY <2>3 DEF CpName
<1> QED BY <1>1, InitOutcomeInv, OutcomeNext, PTL DEF Spec

-----------------------------------------------------------------------------
(* The flags.  The engine's checks hang on checkpoint_thread: they mean    *)
(* something as long as it is the thread that executes.  That needs an     *)
(* application that starts no run before the previous call has returned,   *)
(* or one that never blocks: a blocking call that returns late sets        *)
(* checkpoint_thread to None under the next run.                           *)

OneThread == ~Overlap \/ Modes \subseteq {"callback"}

\* A run that keeps the application from starting another.
Pending(r) == IsActive(r) /\ (Overlap => notified[r] = None)

\* checkpoint_thread is the pending run.
ThreadIsPending ==
    /\ \A r \in Runs : Pending(r) => checkpoint_thread = r
    /\ Modes \subseteq {"callback"} => \A r \in Runs : mode[r] = "callback"

\* As long as nothing failed, the checkpoints the loop has passed are
\* completed.
Progress(r) ==
    mode[r] = "callback" /\ status[r] = EXEC_SUCCESS =>
        /\ InLoop(r) => \A k \in 1..(idx[r] - 1) : completed[todo[r][k]]
        /\ pc[r] = "record" => succeeded[r]
        /\ pc[r] = "snapdone" => completed[todo[r][idx[r]]]
        /\ pc[r] \in {"finally", "callback"}
              => \A k \in DOMAIN todo[r] : completed[todo[r][k]]

\* A run that Progress says something about.
Busy(r) == InLoop(r) \/ pc[r] \in {"finally", "callback"}

SequenceInv ==
    /\ OutcomeInv
    /\ ThreadIsPending
    /\ \A r \in Runs : Progress(r)

\* The application starts a run exactly when none is pending.
LEMMA MayStartIsNonePending == MayStart <=> \A r \in Runs : ~Pending(r)
BY FlagAssumption DEF MayStart, Pending

\* A busy run has not reported and is pending.
LEMMA BusyIsPending ==
    ASSUME OutcomeInv, NEW r \in Runs, Busy(r)
    PROVE  Pending(r) /\ Unreported(r)
BY DEF OutcomeInv, Outcome, Busy, Pending, Unreported, IsActive, InLoop, Executing

\* Every step keeps checkpoint_thread on the pending run.
LEMMA ThreadNext ==
    ASSUME OutcomeInv, OneThread, ThreadIsPending, [Next]_vars
    PROVE  ThreadIsPending'
<1>0. TypeOK
  BY DEF OutcomeInv, TypeInv
<1>1. ASSUME NEW r \in Runs, EngineStep(r) \/ ExecuteStep(r)
      PROVE  ThreadIsPending'
  <2>1. /\ mode' = mode
        /\ \A q \in Runs : Pending(q)' => Pending(q)
    BY <1>0, <1>1, OthersUntouched DEF Pending, IsActive
  <2>2. CASE checkpoint_thread' = checkpoint_thread
    BY <2>1, <2>2 DEF ThreadIsPending
  <2>3. CASE ExitRun(r) /\ mode[r] # "callback"
    <3>1. ~Overlap
      BY <2>3 DEF OneThread, ThreadIsPending
    <3>2. Pending(r)
      BY <2>3, <3>1 DEF ExitRun, Pending, IsActive
    <3>3. \A q \in Runs : Pending(q) => q = r
      BY <3>2 DEF ThreadIsPending
    <3>4. ~Pending(r)'
      BY <1>0, <2>3 DEF ExitRun, Pending, IsActive, TypeOK
    <3> QED BY <2>1, <3>3, <3>4 DEF ThreadIsPending
  <2>4. checkpoint_thread' = checkpoint_thread \/ (ExitRun(r) /\ mode[r] # "callback")
    BY <1>1 DEF EngineStep, ExecuteStep, LoadCheckpoints, InitCallback, InitReset,
      TestCancel, AssignCurrent, SnapshotBefore, ExecuteSucceeds, ExecuteFails,
      RecordCompletion, SnapshotAfter, FatalError, FinallyReset, Callback, ExitRun,
      sharedVars
  <2> QED BY <2>2, <2>3, <2>4
<1>2. ASSUME UNCHANGED <<checkpoint_thread, pc, mode, notified>>
      PROVE  ThreadIsPending'
  BY <1>2 DEF ThreadIsPending, Pending, IsActive
<1>3. ASSUME NEW t \in Cancellers, SetCancelEvent(t) \/ CancelStep(t)
      PROVE  ThreadIsPending'
  BY <1>2, <1>3 DEF CancelStep, SetCancelEvent, CancelCurrent, JoinThread, Joined,
    ClearCancelEvent, sharedVars, localVars, ghostVars
<1>4. ASSUME NEW t \in Executors, NEW r \in Runs, NEW m \in Modes,
             NEW pause \in Names \cup {None},
             \/ ExecuteCheckpoints(t, r, m, pause)
             \/ \E start \in Names : ExecuteCheckpointsFrom(t, r, m, start, pause)
      PROVE  ThreadIsPending'
  <2>1. Starting(t, r, m)
    BY <1>4, ExecuteStarts
  <2>2. \A q \in Runs : ~Pending(q)
    BY <2>1, MayStartIsNonePending DEF Starting
  <2>3. CASE UNCHANGED <<checkpoints, sharedVars, pc, localVars, clientVars, ghostVars>>
    BY <1>2, <2>3 DEF sharedVars, localVars, ghostVars
  <2>4. ASSUME mode' = [mode EXCEPT ![r] = m], notified' = notified,
               \/ pc' = [pc EXCEPT ![r] = "done"]
               \/ pc' = [pc EXCEPT ![r] = "load"] /\ checkpoint_thread' = r
        PROVE  ThreadIsPending'
    <3>1. \A q \in Runs : q # r => ~Pending(q)'
      BY <1>0, <2>2, <2>4 DEF Pending, IsActive, TypeOK
    <3>2. Pending(r)' => checkpoint_thread' = r
      BY <1>0, <2>4 DEF Pending, IsActive, TypeOK
    <3>3. Modes \subseteq {"callback"} => \A q \in Runs : mode'[q] = "callback"
      BY <1>0, <2>4 DEF ThreadIsPending, TypeOK
    <3> QED BY <3>1, <3>2, <3>3 DEF ThreadIsPending
  <2>5. CASE NothingToRun(r, m)
    BY <2>4, <2>5 DEF NothingToRun, ghostVars
  <2>6. ASSUME NEW list, StartRun(t, r, m, list)
        PROVE  ThreadIsPending'
    BY <2>4, <2>6 DEF StartRun, ghostVars
  <2> QED BY <2>1, <2>3, <2>5, <2>6 DEF Starting
<1>5. ASSUME NEW name \in Names, NEW before \in Names \cup {None},
             RegisterCheckpoint(name, before)
      PROVE  ThreadIsPending'
  BY <1>2, <1>5 DEF RegisterCheckpoint, sharedVars, localVars, ghostVars
<1>6. ASSUME CleanupCheckpoints
      PROVE  ThreadIsPending'
  <2>1. UNCHANGED <<sharedVars, pc, localVars, ghostVars>>
    BY <1>6 DEF CleanupCheckpoints
  <2> QED BY <1>2, <2>1 DEF sharedVars, localVars, ghostVars
<1>7. ASSUME UNCHANGED vars
      PROVE  ThreadIsPending'
  BY <1>2, <1>7 DEF vars, sharedVars, localVars, ghostVars
<1> QED BY <1>1, <1>3, <1>4, <1>5, <1>6, <1>7 DEF Next

\* A busy run of a thread is what _is_executing_checkpoints() finds alive.
LEMMA PendingIsExecuting ==
    ASSUME ThreadIsPending, TypeOK, NEW r \in Runs, Pending(r), mode[r] = "callback"
    PROVE  IsExecutingCheckpoints
BY NoneAssumption DEF ThreadIsPending, IsExecutingCheckpoints, Pending

\* The steps of a run keep up with the flags.
LEMMA ProgressRun ==
    ASSUME SequenceInv, NEW r \in Runs, EngineStep(r) \/ ExecuteStep(r)
    PROVE  \A q \in Runs : Progress(q)'
<1> SUFFICES ASSUME NEW q \in Runs, mode[q] = "callback", status'[q] = EXEC_SUCCESS,
                    Busy(q)'
             PROVE  Progress(q)'
  <2>1. mode' = mode
    BY OthersUntouched DEF SequenceInv, OutcomeInv, TypeInv
  <2> QED BY <2>1 DEF Progress, Busy, InLoop, Executing
<1>0. OutcomeInv /\ TypeInv /\ TypeOK /\ Progress(q) /\ Progress(r)
  BY DEF SequenceInv, OutcomeInv, TypeInv
<1>1. /\ UNCHANGED <<todo, mode>>
      /\ q # r => /\ pc'[q] = pc[q] /\ idx'[q] = idx[q] /\ status'[q] = status[q]
                  /\ succeeded'[q] = succeeded[q]
  BY <1>0, OthersUntouched
<1>2. CASE q # r
  <2>1. ~RecordCompletion(r)
    <3>1. Busy(q)
      BY <1>1, <1>2 DEF Busy, InLoop, Executing
    <3>2. ASSUME RecordCompletion(r) PROVE FALSE
      <4>1. Busy(r)
        BY <3>2 DEF RecordCompletion, Busy, InLoop, Executing
      <4>2. Unreported(q) /\ Unreported(r)
        BY <1>0, <3>1, <4>1, BusyIsPending
      <4> QED BY <1>0, <1>2, <4>2 DEF OutcomeInv, OneUnreported
    <3> QED BY <3>2
  <2>2. completed' = completed
    BY <2>1 DEF EngineStep, ExecuteStep, LoadCheckpoints, InitCallback, InitReset,
      TestCancel, AssignCurrent, SnapshotBefore, ExecuteSucceeds, ExecuteFails,
      SnapshotAfter, FatalError, FinallyReset, Callback, ExitRun, engineVars
  <2> QED BY <1>0, <1>1, <1>2, <2>2 DEF Progress, InLoop, Executing
<1>3. CASE q = r
  <2> USE DEF TypeOK, Progress, InLoop, Executing, engineVars, sharedVars, localVars
  <2>1. CASE LoadCheckpoints(r)
    <3>1. pc'[r] = "top" => idx'[r] = 1
      BY <1>0, <2>1 DEF LoadCheckpoints, LoadFails
    <3>2. pc'[r] \in {"top", "initcallback"}
      BY <1>0, <2>1 DEF LoadCheckpoints, LoadFails
    <3> QED BY <1>3, <3>1, <3>2
  <2>2. CASE \/ InitCallback(r) \/ InitReset(r) \/ Callback(r) \/ ExitRun(r)
    <3>1. ~Busy(r)'
      BY <1>0, <2>2 DEF InitCallback, InitReset, Callback, ExitRun, Busy
    <3> QED BY <1>3, <3>1
  <2>3. CASE TestCancel(r)
    <3>1. /\ pc[r] = "top" /\ pc'[r] = "assign" /\ status'[r] = status[r]
          /\ UNCHANGED <<idx, completed>>
      <4>1. UNCHANGED <<idx, completed>>
        BY <2>3 DEF TestCancel
      <4> QED BY <1>0, <1>3, <2>3, <4>1, TestCancelCases DEF EXEC_SUCCESS, EXEC_CANCELED
    <3> QED BY <1>0, <1>1, <1>3, <3>1
  <2>4. CASE AssignCurrent(r)
    BY <1>0, <1>3, <2>4 DEF AssignCurrent
  <2>5. CASE SnapshotBefore(r)
    BY <1>0, <1>3, <2>5 DEF SnapshotBefore
  <2>6. CASE ExecuteSucceeds(r)
    BY <1>0, <1>3, <2>6 DEF ExecuteSucceeds
  <2>7. CASE ExecuteFails(r)
    BY <1>0, <1>3, <2>7 DEF ExecuteFails, EXEC_SUCCESS, EXEC_FAILED
  <2>8. CASE RecordCompletion(r)
    <3>1. todo[r][idx[r]] \in Names /\ idx[r] \in Nat
      BY <1>0, <2>8, ElementAtIndex DEF RecordCompletion
    <3>2. /\ completed' = [completed EXCEPT ![todo[r][idx[r]]] = succeeded[r]]
          /\ pc[r] = "record" /\ pc'[r] \in {"snapdone", "fatal"}
          /\ UNCHANGED <<idx, status>>
      BY <1>0, <2>8 DEF RecordCompletion
    <3>3. succeeded[r] = TRUE
      BY <1>0, <1>3, <3>2
    <3>4. completed'[todo[r][idx[r]]]
      BY <1>0, <3>1, <3>2, <3>3
    <3>5. \A n \in Names : completed[n] => completed'[n]
      BY <1>0, <3>1, <3>2, <3>3
    <3>6. \A k \in 1..(idx[r] - 1) : todo[r][k] \in Names
      <4>1. todo[r] \in Seq(Names) /\ idx[r] \in 1..Len(todo[r])
        BY <1>0, <2>8, ElementAtIndex DEF RecordCompletion
      <4> QED BY <4>1, ElementOfSeq
    <3>7. \A k \in 1..(idx[r] - 1) : completed'[todo[r][k]]
      BY <1>0, <1>3, <3>2, <3>5, <3>6
    <3> QED BY <1>1, <1>3, <3>2, <3>4, <3>7
  <2>9. CASE SnapshotAfter(r)
    <3>1. /\ pc[r] = "snapdone" /\ UNCHANGED <<status, completed>>
          /\ idx[r] \in 1..Len(todo[r]) /\ todo[r] \in Seq(Names)
      BY <1>0, <2>9, ElementAtIndex DEF SnapshotAfter
    <3>2. \A k \in 1..idx[r] : completed[todo[r][k]]
      BY <1>0, <1>3, <3>1
    <3>3. \/ pc'[r] = "top" /\ idx'[r] = idx[r] + 1
          \/ pc'[r] = "finally" /\ idx[r] = Len(todo[r])
          \/ pc'[r] = "fatal"
      BY <1>0, <2>9, <3>1 DEF SnapshotAfter, NextTurn
    <3> QED BY <1>1, <1>3, <3>1, <3>2, <3>3
  <2>10. CASE FatalError(r)
    BY <1>0, <1>3, <2>10 DEF FatalError, EXEC_SUCCESS, FATAL_INTERNAL
  <2>11. CASE FinallyReset(r)
    <3>1. UNCHANGED <<status, completed>> /\ pc[r] = "finally" /\ pc'[r] = "callback"
      BY <1>0, <1>3, <2>11, FinallyCases DEF FinallyReset, Busy
    <3> QED BY <1>0, <1>1, <1>3, <3>1
  <2> QED BY <2>1, <2>2, <2>3, <2>4, <2>5, <2>6, <2>7, <2>8, <2>9, <2>10, <2>11
    DEF EngineStep, ExecuteStep
<1> QED BY <1>2, <1>3

\* Under one thread at a time every step keeps up with the flags.
LEMMA SequenceNext == OneThread /\ SequenceInv /\ [Next]_vars => SequenceInv'
<1> SUFFICES ASSUME OneThread, SequenceInv, [Next]_vars PROVE SequenceInv'
  OBVIOUS
<1>0. OutcomeInv /\ ThreadIsPending /\ TypeOK
  BY DEF SequenceInv, OutcomeInv, TypeInv
<1>1. OutcomeInv' /\ ThreadIsPending'
  BY <1>0, OutcomeNext, ThreadNext
<1>2. ASSUME NEW r \in Runs, EngineStep(r) \/ ExecuteStep(r)
      PROVE  \A q \in Runs : Progress(q)'
  BY <1>2, ProgressRun
<1>3. ASSUME UNCHANGED <<completed, pc, localVars>>
      PROVE  \A q \in Runs : Progress(q)'
  BY <1>3 DEF SequenceInv, Progress, InLoop, Executing, localVars
<1>4. ASSUME NEW t \in Cancellers, SetCancelEvent(t) \/ CancelStep(t)
      PROVE  \A q \in Runs : Progress(q)'
  BY <1>3, <1>4 DEF CancelStep, SetCancelEvent, CancelCurrent, JoinThread, Joined,
    ClearCancelEvent, engineVars
<1>5. ASSUME \A q \in Runs : mode'[q] = "callback" => ~Busy(q)'
      PROVE  \A q \in Runs : Progress(q)'
  BY <1>5 DEF Progress, Busy, InLoop, Executing
<1>6. ASSUME NEW t \in Executors, NEW r \in Runs, NEW m \in Modes,
             NEW pause \in Names \cup {None},
             \/ ExecuteCheckpoints(t, r, m, pause)
             \/ \E start \in Names : ExecuteCheckpointsFrom(t, r, m, start, pause)
      PROVE  \A q \in Runs : Progress(q)'
  <2>1. Starting(t, r, m)
    BY <1>6, ExecuteStarts
  <2>2. \A q \in Runs : ~Busy(q)
    BY <1>0, <2>1, BusyIsPending, MayStartIsNonePending DEF Starting
  <2>3. pc' \in {pc, [pc EXCEPT ![r] = "done"], [pc EXCEPT ![r] = "load"]}
    BY <2>1 DEF Starting, NothingToRun, StartRun
  <2>4. \A q \in Runs : ~Busy(q)'
    BY <1>0, <2>2, <2>3 DEF Busy, InLoop, Executing, TypeOK
  <2> QED BY <1>5, <2>4
<1>7. ASSUME NEW name \in Names, NEW before \in Names \cup {None},
             RegisterCheckpoint(name, before)
      PROVE  \A q \in Runs : Progress(q)'
  BY <1>3, <1>7 DEF RegisterCheckpoint
<1>8. ASSUME CleanupCheckpoints
      PROVE  \A q \in Runs : Progress(q)'
  <2>1. UNCHANGED <<pc, localVars>> /\ ~IsExecutingCheckpoints
    BY <1>8 DEF CleanupCheckpoints
  <2>2. \A q \in Runs : mode[q] = "callback" => ~Busy(q)
    BY <1>0, <2>1, BusyIsPending, PendingIsExecuting
  <2> QED BY <1>5, <2>1, <2>2 DEF Busy, InLoop, Executing, localVars
<1>9. ASSUME UNCHANGED vars
      PROVE  \A q \in Runs : Progress(q)'
  BY <1>3, <1>9 DEF vars, engineVars
<1>10. \A q \in Runs : Progress(q)'
  BY <1>2, <1>4, <1>6, <1>7, <1>8, <1>9 DEF Next
<1> QED BY <1>1, <1>10 DEF SequenceInv

\* The invariant about the flags holds initially.
LEMMA InitSequenceInv == Init => SequenceInv
<1> SUFFICES ASSUME Init PROVE SequenceInv
  OBVIOUS
<1>1. ThreadIsPending /\ \A r \in Runs : Progress(r)
  BY DEF Init, ThreadIsPending, Pending, IsActive, Progress, InLoop, Executing
<1> QED BY <1>1, InitOutcomeInv DEF SequenceInv

\* When a thread is about to report EXEC_SUCCESS, every checkpoint of its
\* list is completed and none is listed as failed.
THEOREM SuccessIsCompletion == OneThread => (Spec => []SuccessMeansCompleted)
<1> SUFFICES ASSUME OneThread PROVE Spec => []SuccessMeansCompleted
  OBVIOUS
<1>1. SequenceInv /\ [Next]_vars => SequenceInv'
  BY SequenceNext
<1>2. SequenceInv => SuccessMeansCompleted
  BY DEF SequenceInv, OutcomeInv, Outcome, Progress, SuccessMeansCompleted
<1> QED BY <1>1, <1>2, InitSequenceInv, PTL DEF Spec

\* Without overlapping calls, neither the list nor a flag changes under a
\* thread that executes checkpoints, except by its own record of a result.
THEOREM ListIsFixed == ~Overlap => (Spec => ListFixedWhileExecuting)
<1> DEFINE Fixed ==
      (\E r \in Runs : IsActive(r) /\ IsActive(r)' /\ mode[r] = "callback")
         => /\ checkpoints' = checkpoints
            /\ \A n \in Names : completed[n] /\ ~completed'[n] =>
                  \E r \in Runs : pc[r] = "record" /\ pc'[r] # "record"
<1> SUFFICES ASSUME ~Overlap PROVE Spec => [][Fixed]_vars
  BY DEF ListFixedWhileExecuting
<1>0. OneThread
  BY DEF OneThread
<1>1. SequenceInv /\ [Next]_vars => SequenceInv'
  BY <1>0, SequenceNext
<1>2. SequenceInv /\ [Next]_vars => [Fixed]_vars
  <2> SUFFICES ASSUME SequenceInv, Next, NEW r \in Runs, IsActive(r), mode[r] = "callback"
               PROVE  /\ checkpoints' = checkpoints
                      /\ \A n \in Names : completed[n] /\ ~completed'[n] =>
                            \E q \in Runs : pc[q] = "record" /\ pc'[q] # "record"
    OBVIOUS
  <2>0. TypeOK /\ ThreadIsPending /\ Pending(r)
    BY DEF SequenceInv, OutcomeInv, TypeInv, Pending
  <2>1. ~MayStart /\ IsExecutingCheckpoints
    BY <2>0, MayStartIsNonePending, PendingIsExecuting
  <2>2. ASSUME NEW q \in Runs, EngineStep(q) \/ ExecuteStep(q)
        PROVE  /\ checkpoints' = checkpoints
               /\ completed' = completed \/ (pc[q] = "record" /\ pc'[q] # "record")
    <3>1. CASE RecordCompletion(q)
      BY <2>0, <3>1 DEF RecordCompletion, TypeOK
    <3>2. CASE ~RecordCompletion(q)
      BY <2>2, <3>2 DEF EngineStep, ExecuteStep, LoadCheckpoints, InitCallback, InitReset,
        TestCancel, AssignCurrent, SnapshotBefore, ExecuteSucceeds, ExecuteFails,
        SnapshotAfter, FatalError, FinallyReset, Callback, ExitRun, engineVars
    <3> QED BY <3>1, <3>2
  <2>3. ASSUME NEW t \in Cancellers, SetCancelEvent(t) \/ CancelStep(t)
        PROVE  UNCHANGED <<checkpoints, completed>>
    BY <2>3 DEF CancelStep, SetCancelEvent, CancelCurrent, JoinThread, Joined,
      ClearCancelEvent, engineVars
  <2>4. /\ ~\E name \in Names, before \in Names \cup {None} :
                RegisterCheckpoint(name, before)
        /\ ~CleanupCheckpoints
    BY <2>1 DEF RegisterCheckpoint, CleanupCheckpoints
  <2>5. ~\E t \in Executors, q \in Runs, m \in Modes, pause \in Names \cup {None} :
            \/ ExecuteCheckpoints(t, q, m, pause)
            \/ \E start \in Names : ExecuteCheckpointsFrom(t, q, m, start, pause)
    BY <2>1 DEF ExecuteCheckpoints, ExecuteCheckpointsFrom
  <2> QED BY <2>2, <2>3, <2>4, <2>5 DEF Next
<1> QED BY <1>1, <1>2, InitSequenceInv, PTL DEF Spec

-----------------------------------------------------------------------------
(* cancel_checkpoints().  One client at a time may cancel: two of them     *)
(* share the event, and the one that returns clears it for the other.      *)

OneCanceller == \A t, u \in Cancellers : t = u

\* A checkpoint of run r had its cancel() called.
Told(r) == \E k \in Nat : <<r, k>> \in cancelled

\* A request is made by a canceller, and keeps the event set until it has
\* left its critical section.
Requests ==
    /\ \A t \in Clients : InCancel(t) => t \in Cancellers
    /\ \A t \in Clients : client[t] = "cancel" => cancel_event

\* The event stays set for a run that was told, until it leaves the loop at
\* the next test: it starts nothing, and the request is still waiting for it.
ToldStops(r) ==
    /\ Told(r) => pc[r] \notin {"none", "load"}
    /\ Told(r) /\ InLoop(r) =>
          /\ cancel_event /\ pc[r] # "assign"
          /\ \A t \in Clients :
                /\ client[t] # "clear"
                /\ client[t] = "joining" => waits[t] = r
    /\ \A k \in Nat : <<r, k>> \in cancelled /\ Executing(r) => idx[r] = k

CancelOrderInv ==
    /\ SequenceInv
    /\ Requests
    /\ \A r \in Runs : ToldStops(r)

\* Every step keeps the requests in order.
LEMMA RequestsNext ==
    ASSUME OneCanceller, CancelOrderInv, [Next]_vars
    PROVE  Requests'
<1>0. TypeOK /\ Requests
  BY DEF CancelOrderInv, SequenceInv, OutcomeInv, TypeInv
<1> USE DEF Requests, InCancel
<1>1. ASSUME cancel_event' = cancel_event,
             \A u \in Clients : client'[u] \in {client[u], "idle", "blocked"}
      PROVE  Requests'
  BY <1>0, <1>1
<1>2. ASSUME NEW r \in Runs, EngineStep(r) \/ ExecuteStep(r)
      PROVE  Requests'
  <2>1. cancel_event' = cancel_event
    BY <1>2 DEF EngineStep, ExecuteStep, LoadCheckpoints, InitCallback, InitReset,
      TestCancel, AssignCurrent, SnapshotBefore, ExecuteSucceeds, ExecuteFails,
      RecordCompletion, SnapshotAfter, FatalError, FinallyReset, Callback, ExitRun,
      sharedVars
  <2>2. client' = client \/ ReturnToClient(r)
    BY <1>2 DEF EngineStep, ExecuteStep, LoadCheckpoints, InitCallback, InitReset,
      TestCancel, AssignCurrent, SnapshotBefore, ExecuteSucceeds, ExecuteFails,
      RecordCompletion, SnapshotAfter, FatalError, FinallyReset, Callback, ExitRun,
      clientVars
  <2>3. \A u \in Clients : client'[u] \in {client[u], "idle", "blocked"}
    BY <2>2 DEF ReturnToClient
  <2> QED BY <1>1, <2>1, <2>3
<1>3. ASSUME NEW t \in Cancellers, SetCancelEvent(t) \/ CancelStep(t)
      PROVE  Requests'
  <2>0. t \in Clients
    BY DEF Clients
  <2> USE DEF TypeOK, sharedVars
  <2>1. CASE SetCancelEvent(t)
    BY <1>0, <2>0, <2>1 DEF SetCancelEvent
  <2>2. CASE CancelCurrent(t)
    BY <1>0, <2>0, <2>2 DEF CancelCurrent
  <2>3. CASE JoinThread(t)
    <3>1. /\ cancel_event' = cancel_event /\ client'[t] # "cancel"
          /\ \A u \in Clients : u # t => client'[u] = client[u]
      BY <1>0, <2>0, <2>3 DEF JoinThread, AfterNoThread
    <3> QED BY <1>0, <2>0, <3>1
  <2>4. CASE Joined(t)
    BY <1>0, <2>0, <2>4 DEF Joined
  <2>5. CASE ClearCancelEvent(t)
    <3>1. \A u \in Clients : client'[u] # "cancel"
      BY <1>0, <2>0, <2>5 DEF ClearCancelEvent, OneCanceller
    <3> QED BY <1>0, <2>0, <2>5, <3>1 DEF ClearCancelEvent
  <2> QED BY <1>3, <2>1, <2>2, <2>3, <2>4, <2>5 DEF CancelStep
<1>4. ASSUME NEW t \in Executors, NEW r \in Runs, NEW m \in Modes,
             NEW pause \in Names \cup {None},
             \/ ExecuteCheckpoints(t, r, m, pause)
             \/ \E start \in Names : ExecuteCheckpointsFrom(t, r, m, start, pause)
      PROVE  Requests'
  <2>1. Starting(t, r, m) /\ t \in Clients
    BY <1>4, ExecuteStarts DEF Clients
  <2>2. /\ cancel_event' = cancel_event
        /\ \/ client' = client
           \/ client' = [client EXCEPT ![t] = IF m = "blocking" THEN "blocked"
                                              ELSE client[t]]
    BY <2>1 DEF Starting, NothingToRun, StartRun, sharedVars, clientVars
  <2>3. \A u \in Clients : client'[u] \in {client[u], "idle", "blocked"}
    BY <1>0, <2>1, <2>2 DEF TypeOK
  <2> QED BY <1>1, <2>2, <2>3
<1>5. ASSUME NEW name \in Names, NEW before \in Names \cup {None},
             RegisterCheckpoint(name, before)
      PROVE  Requests'
  BY <1>1, <1>5 DEF RegisterCheckpoint, sharedVars, clientVars
<1>6. ASSUME CleanupCheckpoints
      PROVE  Requests'
  <2>1. cancel_event' = cancel_event /\ client' = client
    BY <1>6 DEF CleanupCheckpoints, sharedVars, clientVars
  <2> QED BY <1>1, <2>1
<1>7. ASSUME UNCHANGED vars
      PROVE  Requests'
  BY <1>1, <1>7 DEF vars, sharedVars, clientVars
<1> QED BY <1>2, <1>3, <1>4, <1>5, <1>6, <1>7 DEF Next

\* A run that was told takes no step into the next checkpoint.
LEMMA ToldStopsRun ==
    ASSUME CancelOrderInv, NEW r \in Runs, EngineStep(r) \/ ExecuteStep(r)
    PROVE  \A q \in Runs : ToldStops(q)'
<1> SUFFICES ASSUME NEW q \in Runs PROVE ToldStops(q)'
  OBVIOUS
<1>0. /\ TypeInv /\ TypeOK /\ ToldStops(q)
  BY DEF CancelOrderInv, SequenceInv, OutcomeInv, TypeInv
<1>1. /\ cancelled' = cancelled /\ IsActive(r)
      /\ q # r => pc'[q] = pc[q] /\ idx'[q] = idx[q]
  BY <1>0, OthersUntouched
<1>2. cancel_event' = cancel_event
  BY DEF EngineStep, ExecuteStep, LoadCheckpoints, InitCallback, InitReset,
    TestCancel, AssignCurrent, SnapshotBefore, ExecuteSucceeds, ExecuteFails,
    RecordCompletion, SnapshotAfter, FatalError, FinallyReset, Callback, ExitRun,
    sharedVars
<1>3. \A u \in Clients : \/ client'[u] = client[u] /\ waits'[u] = waits[u]
                         \/ client'[u] = "idle"
  <2>1. UNCHANGED clientVars \/ ReturnToClient(r)
    BY DEF EngineStep, ExecuteStep, LoadCheckpoints, InitCallback, InitReset,
      TestCancel, AssignCurrent, SnapshotBefore, ExecuteSucceeds, ExecuteFails,
      RecordCompletion, SnapshotAfter, FatalError, FinallyReset, Callback, ExitRun
  <2> QED BY <2>1 DEF ReturnToClient, clientVars
<1>4. CASE q # r
  BY <1>0, <1>1, <1>2, <1>3, <1>4 DEF ToldStops, Told, InLoop, Executing
<1>5. CASE ~Told(r)
  <2>1. ~Told(r)'
    BY <1>1, <1>5 DEF Told
  <2>2. CASE q = r
    BY <2>1, <2>2 DEF ToldStops, Told
  <2> QED BY <1>4, <2>2
<1>6. CASE q = r /\ Told(r)
  <2>1. /\ pc[r] \notin {"none", "load"}
        /\ InLoop(r) => cancel_event /\ pc[r] # "assign"
    BY <1>0, <1>6 DEF ToldStops
  <2>2. /\ pc'[r] # "load" /\ pc'[r] # "none" /\ pc'[r] # "assign"
        /\ InLoop(r)' => InLoop(r)
        /\ Executing(r)' => Executing(r) /\ idx'[r] = idx[r]
    <3> USE <1>0 DEF TypeOK, InLoop, Executing, localVars
    <3>1. CASE LoadCheckpoints(r) \/ AssignCurrent(r)
      BY <2>1, <3>1 DEF LoadCheckpoints, AssignCurrent
    <3>2. CASE InitCallback(r) \/ InitReset(r) \/ Callback(r) \/ ExitRun(r)
      BY <3>2 DEF InitCallback, InitReset, Callback, ExitRun
    <3>3. CASE TestCancel(r)
      BY <2>1, <3>3, TestCancelCases
    <3>4. CASE SnapshotBefore(r)
      BY <3>4 DEF SnapshotBefore
    <3>5. CASE ExecuteSucceeds(r)
      BY <3>5 DEF ExecuteSucceeds
    <3>6. CASE ExecuteFails(r)
      <4>1. pc[r] = "exec" /\ pc'[r] \in {"record", "fatal", "finally"} /\ idx' = idx
        BY <3>6 DEF ExecuteFails
      <4> QED BY <4>1
    <3>7. CASE RecordCompletion(r)
      BY <3>7 DEF RecordCompletion
    <3>8. CASE SnapshotAfter(r)
      <4>1. pc[r] = "snapdone" /\ pc'[r] \in {"top", "finally", "fatal"}
        BY <3>8 DEF SnapshotAfter
      <4> QED BY <4>1
    <3>9. CASE FatalError(r)
      BY <3>9 DEF FatalError, AfterFatal
    <3>10. CASE FinallyReset(r)
      BY <3>10, FinallyCases
    <3> QED BY <3>1, <3>2, <3>3, <3>4, <3>5, <3>6, <3>7, <3>8, <3>9, <3>10
      DEF EngineStep, ExecuteStep
  <2> QED BY <1>0, <1>1, <1>2, <1>3, <1>6, <2>2 DEF ToldStops, Told
<1> QED BY <1>4, <1>5, <1>6

\* A request tells the checkpoint that is current, joins the thread that
\* executes it and clears the event only when that thread is done.
LEMMA ToldStopsCancel ==
    ASSUME CancelOrderInv, OneCanceller, NEW t \in Cancellers,
           SetCancelEvent(t) \/ CancelStep(t)
    PROVE  \A q \in Runs : ToldStops(q)'
<1> SUFFICES ASSUME NEW q \in Runs PROVE ToldStops(q)'
  OBVIOUS
<1>0. /\ TypeInv /\ TypeOK /\ OutcomeInv /\ LockDiscipline /\ Requests
      /\ ThreadIsPending /\ ToldStops(q) /\ t \in Clients
  BY DEF CancelOrderInv, SequenceInv, OutcomeInv, TypeInv, Clients
<1>1. UNCHANGED <<pc, idx>>
  BY DEF CancelStep, SetCancelEvent, CancelCurrent, JoinThread, Joined,
    ClearCancelEvent, localVars
<1>2. \A u \in Clients : u # t =>
        client'[u] = client[u] /\ client[u] \notin {"clear", "joining", "cancel"}
  <2>1. \A u \in Clients : u # t => client'[u] = client[u]
    BY <1>0 DEF TypeOK, CancelStep, SetCancelEvent, CancelCurrent, JoinThread, Joined,
      ClearCancelEvent
  <2> QED BY <1>0, <2>1 DEF OneCanceller, Requests, InCancel
<1>3. ASSUME cancelled' = cancelled,
             Told(q) /\ InLoop(q) =>
                /\ cancel_event' /\ client'[t] # "clear"
                /\ client'[t] = "joining" => waits'[t] = q
      PROVE  ToldStops(q)'
  <2>1. Told(q)' <=> Told(q)
    BY <1>3 DEF Told
  <2>2. (InLoop(q)' <=> InLoop(q)) /\ (Executing(q)' <=> Executing(q))
    BY <1>1 DEF InLoop, Executing
  <2>3. Told(q) /\ InLoop(q) => \A u \in Clients :
            client'[u] # "clear" /\ (client'[u] = "joining" => waits'[u] = q)
    BY <1>2, <1>3
  <2> QED BY <1>0, <1>1, <1>3, <2>1, <2>2, <2>3 DEF ToldStops
<1>4. CASE SetCancelEvent(t)
  <2>1. cancelled' = cancelled /\ cancel_event' = TRUE /\ client'[t] = "cancel"
    BY <1>0, <1>4 DEF SetCancelEvent, TypeOK, ghostVars
  <2> QED BY <1>3, <2>1
<1>5. CASE CancelCurrent(t)
  <2>1. /\ client[t] = "cancel" /\ client'[t] = "join" /\ cancel_event' = cancel_event
        /\ cancel_event /\ checkpoint_lock = t
    BY <1>0, <1>5 DEF CancelCurrent, TypeOK, Requests, LockDiscipline
  <2>2. CASE currently_executing = NoInstance
    <3>1. cancelled' = cancelled
      BY <1>5, <2>2 DEF CancelCurrent
    <3> QED BY <1>3, <2>1, <3>1
  <2>3. CASE currently_executing # NoInstance
    <3>1. PICK c \in Runs, k \in Nat :
              /\ currently_executing = <<c, k>>
              /\ InLoop(c) \/ pc[c] \in {"fatal", "finally", "raise"}
              /\ Executing(c) => k = idx[c]
      BY <1>0, <2>3 DEF OutcomeInv, CurrentBelongs
    <3>2. cancelled' = cancelled \cup {<<c, k>>}
      BY <1>5, <2>3, <3>1 DEF CancelCurrent
    <3>3. CASE q # c
      <4>1. \A j \in Nat : <<q, j>> \in cancelled' <=> <<q, j>> \in cancelled
        BY <3>2, <3>3
      <4>2. Told(q)' <=> Told(q)
        BY <4>1 DEF Told
      <4>3. \A u \in Clients : client'[u] \notin {"clear", "joining"}
        BY <1>2, <2>1
      <4> QED BY <1>0, <1>1, <2>1, <4>1, <4>2, <4>3 DEF ToldStops, InLoop, Executing
    <3>4. CASE q = c
      <4>1. pc[c] \notin {"none", "load", "assign"}
        <5>1. pc[c] # "assign"
          BY <1>0, <2>1, NoneAssumption DEF LockDiscipline
        <5> QED BY <3>1, <5>1 DEF InLoop, Executing
      <4>2. \A j \in Nat : <<c, j>> \in cancelled' /\ Executing(c) => idx[c] = j
        BY <1>0, <3>1, <3>2, <3>4 DEF ToldStops
      <4>3. \A u \in Clients : client'[u] \notin {"clear", "joining"}
        BY <1>2, <2>1
      <4> QED BY <1>1, <2>1, <3>4, <4>1, <4>2, <4>3 DEF ToldStops, InLoop, Executing
    <3> QED BY <3>3, <3>4
  <2> QED BY <2>2, <2>3
<1>6. CASE JoinThread(t)
  <2>1. cancelled' = cancelled /\ cancel_event' = cancel_event
    BY <1>6 DEF JoinThread, sharedVars, ghostVars
  <2>2. ASSUME Told(q), InLoop(q)
        PROVE  /\ cancel_event /\ client'[t] # "clear"
               /\ client'[t] = "joining" => waits'[t] = q
    <3>1. cancel_event
      BY <1>0, <2>2 DEF ToldStops
    <3>2. Pending(q)
      BY <1>0, <2>2, BusyIsPending DEF Busy
    <3>3. checkpoint_thread = q /\ q # None
      BY <1>0, <3>2, NoneAssumption DEF ThreadIsPending
    <3>4. CASE ThreadIsPseudo
      BY <1>0, <1>6, <3>1, <3>3, <3>4 DEF JoinThread, TypeOK
    <3>5. CASE ~ThreadIsPseudo
      BY <1>0, <1>6, <3>1, <3>3, <3>5 DEF JoinThread, TypeOK
    <3> QED BY <3>4, <3>5
  <2> QED BY <1>3, <2>1, <2>2
<1>7. CASE Joined(t)
  <2>1. /\ cancelled' = cancelled /\ cancel_event' = cancel_event
        /\ client[t] = "joining" /\ pc[waits[t]] = "done"
    BY <1>7 DEF Joined, sharedVars, ghostVars
  <2>2. ~(Told(q) /\ InLoop(q))
    BY <1>0, <2>1 DEF ToldStops, InLoop, Executing
  <2> QED BY <1>3, <2>1, <2>2
<1>8. CASE ClearCancelEvent(t)
  <2>1. cancelled' = cancelled /\ client[t] = "clear"
    BY <1>8 DEF ClearCancelEvent, ghostVars
  <2>2. ~(Told(q) /\ InLoop(q))
    BY <1>0, <2>1 DEF ToldStops
  <2> QED BY <1>3, <2>1, <2>2
<1> QED BY <1>4, <1>5, <1>6, <1>7, <1>8 DEF CancelStep

\* Every step keeps a run that was told from starting anything.
LEMMA CancelOrderNext ==
    OneThread /\ OneCanceller /\ CancelOrderInv /\ [Next]_vars => CancelOrderInv'
<1> SUFFICES ASSUME OneThread, OneCanceller, CancelOrderInv, [Next]_vars
             PROVE  CancelOrderInv'
  OBVIOUS
<1>0. TypeOK /\ SequenceInv /\ \A q \in Runs : ToldStops(q)
  BY DEF CancelOrderInv, SequenceInv, OutcomeInv, TypeInv
<1>1. SequenceInv' /\ Requests'
  BY <1>0, SequenceNext, RequestsNext
<1>2. ASSUME UNCHANGED <<pc, idx, cancelled, cancel_event, client, waits>>
      PROVE  \A q \in Runs : ToldStops(q)'
  BY <1>0, <1>2 DEF ToldStops, Told, InLoop, Executing
<1>3. ASSUME NEW r \in Runs, EngineStep(r) \/ ExecuteStep(r)
      PROVE  \A q \in Runs : ToldStops(q)'
  BY <1>3, ToldStopsRun
<1>4. ASSUME NEW t \in Cancellers, SetCancelEvent(t) \/ CancelStep(t)
      PROVE  \A q \in Runs : ToldStops(q)'
  BY <1>4, ToldStopsCancel
<1>5. ASSUME NEW t \in Executors, NEW r \in Runs, NEW m \in Modes,
             NEW pause \in Names \cup {None},
             \/ ExecuteCheckpoints(t, r, m, pause)
             \/ \E start \in Names : ExecuteCheckpointsFrom(t, r, m, start, pause)
      PROVE  \A q \in Runs : ToldStops(q)'
  <2>1. Starting(t, r, m) /\ t \in Clients
    BY <1>5, ExecuteStarts DEF Clients
  <2>2. CASE UNCHANGED <<checkpoints, sharedVars, pc, localVars, clientVars, ghostVars>>
    BY <1>2, <2>2 DEF sharedVars, localVars, clientVars, ghostVars
  <2>3. CASE pc' \in {[pc EXCEPT ![r] = "done"], [pc EXCEPT ![r] = "load"]}
    <3>1. /\ UNCHANGED <<cancel_event, cancelled, idx>>
      BY <2>1 DEF Starting, NothingToRun, StartRun, sharedVars, localVars, ghostVars
    <3>2. ~Told(r)
      BY <1>0, <2>1 DEF Starting, ToldStops
    <3>3. \A q \in Runs : ~InLoop(q)
      BY <1>0, <2>1, BusyIsPending, MayStartIsNonePending
        DEF Starting, Busy, SequenceInv
    <3>4. \A q \in Runs : ~InLoop(q)' /\ (q # r => pc'[q] = pc[q])
      BY <1>0, <2>3, <3>3 DEF InLoop, Executing, TypeOK
    <3> QED BY <1>0, <3>1, <3>2, <3>4 DEF ToldStops, Told, InLoop
  <2> QED BY <2>1, <2>2, <2>3 DEF Starting, NothingToRun, StartRun
<1>6. ASSUME NEW name \in Names, NEW before \in Names \cup {None},
             RegisterCheckpoint(name, before)
      PROVE  \A q \in Runs : ToldStops(q)'
  BY <1>2, <1>6 DEF RegisterCheckpoint, sharedVars, localVars, clientVars, ghostVars
<1>7. ASSUME CleanupCheckpoints
      PROVE  \A q \in Runs : ToldStops(q)'
  <2>1. UNCHANGED <<sharedVars, pc, localVars, clientVars, ghostVars>>
    BY <1>7 DEF CleanupCheckpoints
  <2> QED BY <1>2, <2>1 DEF sharedVars, localVars, clientVars, ghostVars
<1>8. ASSUME UNCHANGED vars
      PROVE  \A q \in Runs : ToldStops(q)'
  BY <1>2, <1>8 DEF vars, sharedVars, localVars, clientVars, ghostVars
<1>9. \A q \in Runs : ToldStops(q)'
  BY <1>3, <1>4, <1>5, <1>6, <1>7, <1>8 DEF Next
<1> QED BY <1>1, <1>9 DEF CancelOrderInv

\* A run whose checkpoint was cancelled starts no later one, however long the
\* request takes to clear the event.
THEOREM CancelStopsTheRun ==
    OneThread /\ OneCanceller => (Spec => []NothingStartsAfterCancel)
<1> SUFFICES ASSUME OneThread, OneCanceller PROVE Spec => []NothingStartsAfterCancel
  OBVIOUS
<1>1. CancelOrderInv /\ [Next]_vars => CancelOrderInv'
  BY CancelOrderNext
<1>2. CancelOrderInv => NothingStartsAfterCancel
  <2> SUFFICES ASSUME CancelOrderInv, NEW inst \in cancelled, Executing(inst[1])
               PROVE  idx[inst[1]] = inst[2]
    BY DEF NothingStartsAfterCancel
  <2>1. inst \in Runs \X Nat
    BY DEF CancelOrderInv, SequenceInv, OutcomeInv, TypeInv, TypeOK
  <2>2. PICK r \in Runs, k \in Nat : inst = <<r, k>>
    BY <2>1
  <2> QED BY <2>2 DEF CancelOrderInv, ToldStops
<1>3. Init => CancelOrderInv
  BY InitSequenceInv DEF Init, CancelOrderInv, Requests, ToldStops, Told, InCancel,
    InLoop, Executing
<1> QED BY <1>1, <1>2, <1>3, PTL DEF Spec

\* Without blocking runs no cancel request leaves the event set behind it:
\* the join of a thread returns, and the event is cleared.
THEOREM EventIsCleared == Modes \subseteq {"callback"} => (Spec => []NoLeftoverCancel)
<1> SUFFICES ASSUME Modes \subseteq {"callback"} PROVE Spec => []NoLeftoverCancel
  OBVIOUS
<1>0. OneThread
  BY DEF OneThread
<1>1. SequenceInv /\ [Next]_vars => SequenceInv'
  BY <1>0, SequenceNext
<1>2. SequenceInv /\ NoLeftoverCancel /\ [Next]_vars => NoLeftoverCancel'
  <2> SUFFICES ASSUME SequenceInv, NoLeftoverCancel, [Next]_vars, cancel_event'
               PROVE  \E u \in Clients : InCancel(u)'
    BY DEF NoLeftoverCancel
  <2>0. TypeOK /\ ~ThreadIsPseudo
    BY DEF SequenceInv, OutcomeInv, TypeInv, TypeOK, ThreadIsPending, ThreadIsPseudo
  <2>1. ASSUME cancel_event' = cancel_event,
               \A u \in Clients : InCancel(u) => client'[u] = client[u]
        PROVE  \E u \in Clients : InCancel(u)'
    BY <2>1 DEF NoLeftoverCancel, InCancel
  <2>2. ASSUME NEW r \in Runs, EngineStep(r) \/ ExecuteStep(r)
        PROVE  \E u \in Clients : InCancel(u)'
    <3>1. cancel_event' = cancel_event
      BY <2>2 DEF EngineStep, ExecuteStep, LoadCheckpoints, InitCallback, InitReset,
        TestCancel, AssignCurrent, SnapshotBefore, ExecuteSucceeds, ExecuteFails,
        RecordCompletion, SnapshotAfter, FatalError, FinallyReset, Callback, ExitRun,
        sharedVars
    <3>2. client' = client \/ ReturnToClient(r)
      BY <2>2 DEF EngineStep, ExecuteStep, LoadCheckpoints, InitCallback, InitReset,
        TestCancel, AssignCurrent, SnapshotBefore, ExecuteSucceeds, ExecuteFails,
        RecordCompletion, SnapshotAfter, FatalError, FinallyReset, Callback, ExitRun,
        clientVars
    <3>3. \A u \in Clients : InCancel(u) => client'[u] = client[u]
      BY <3>2 DEF ReturnToClient, InCancel
    <3> QED BY <2>1, <3>1, <3>3
  <2>3. ASSUME NEW t \in Cancellers, SetCancelEvent(t) \/ CancelStep(t)
        PROVE  \E u \in Clients : InCancel(u)'
    <3>0. t \in Clients
      BY DEF Clients
    <3>1. CASE ClearCancelEvent(t)
      BY <3>1 DEF ClearCancelEvent
    <3>2. CASE SetCancelEvent(t) \/ CancelCurrent(t) \/ Joined(t)
      BY <2>0, <3>0, <3>2 DEF SetCancelEvent, CancelCurrent, Joined, InCancel, TypeOK
    <3>3. CASE JoinThread(t)
      BY <2>0, <3>0, <3>3 DEF JoinThread, AfterNoThread, InCancel, TypeOK
    <3> QED BY <2>3, <3>1, <3>2, <3>3 DEF CancelStep
  <2>4. ASSUME NEW t \in Executors, NEW r \in Runs, NEW m \in Modes,
               NEW pause \in Names \cup {None},
               \/ ExecuteCheckpoints(t, r, m, pause)
               \/ \E start \in Names : ExecuteCheckpointsFrom(t, r, m, start, pause)
        PROVE  \E u \in Clients : InCancel(u)'
    <3>1. Starting(t, r, m) /\ t \in Clients
      BY <2>4, ExecuteStarts DEF Clients
    <3>2. /\ cancel_event' = cancel_event /\ client[t] = "idle"
          /\ \/ client' = client
             \/ client' = [client EXCEPT ![t] = IF m = "blocking" THEN "blocked"
                                                ELSE client[t]]
      BY <3>1 DEF Starting, NothingToRun, StartRun, sharedVars, clientVars
    <3>3. \A u \in Clients : InCancel(u) => client'[u] = client[u]
      BY <2>0, <3>1, <3>2 DEF TypeOK, InCancel
    <3> QED BY <2>1, <3>2, <3>3
  <2>5. ASSUME NEW name \in Names, NEW before \in Names \cup {None},
               RegisterCheckpoint(name, before)
        PROVE  \E u \in Clients : InCancel(u)'
    BY <2>1, <2>5 DEF RegisterCheckpoint, sharedVars, clientVars
  <2>6. ASSUME CleanupCheckpoints
        PROVE  \E u \in Clients : InCancel(u)'
    <3>1. cancel_event' = cancel_event /\ client' = client
      BY <2>6 DEF CleanupCheckpoints, sharedVars, clientVars
    <3> QED BY <2>1, <3>1
  <2>7. ASSUME UNCHANGED vars
        PROVE  \E u \in Clients : InCancel(u)'
    BY <2>1, <2>7 DEF vars, sharedVars, clientVars
  <2> QED BY <2>2, <2>3, <2>4, <2>5, <2>6, <2>7 DEF Next
<1>3. Init => NoLeftoverCancel
  BY DEF Init, NoLeftoverCancel
<1> QED BY <1>1, <1>2, <1>3, InitSequenceInv, PTL DEF Spec

-----------------------------------------------------------------------------
(* The completed checkpoints are a prefix of the list, for an application  *)
(* that runs checkpoints in threads and stops on errors.                   *)

\* A run that has its list and may still execute from it.
Underway(r) == pc[r] = "load" \/ InLoop(r)

\* register_checkpoint() refuses a name that is registered.
Distinct ==
    \A i, j \in DOMAIN checkpoints : checkpoints[i] = checkpoints[j] => i = j

\* A name that is not registered is not completed.
FreshIncomplete == \A n \in Names : completed[n] => IsRegistered(checkpoints, n)

\* The list of a run is a segment of the engine's list, and what comes before
\* the segment is completed.
Segment(r) ==
    Underway(r) =>
        /\ status[r] = EXEC_SUCCESS
        /\ \E base \in Nat :
            /\ base + Len(todo[r]) <= Len(checkpoints)
            /\ \A k \in 1..Len(todo[r]) : todo[r][k] = checkpoints[base + k]
            /\ \A i \in 1..base : completed[checkpoints[i]]

PrefixInv ==
    /\ SequenceInv
    /\ Distinct
    /\ FreshIncomplete
    /\ CompletedPrefix
    /\ \A r \in Runs : Segment(r)

\* A run under way is pending.
LEMMA UnderwayIsPending ==
    ASSUME OutcomeInv, NEW r \in Runs, Underway(r)
    PROVE  Pending(r) /\ Unreported(r)
BY DEF OutcomeInv, Outcome, Underway, Pending, Unreported, IsActive, InLoop, Executing

\* get_cp_data finds the only position of a name.
LEMMA CpIndexIsPosition ==
    ASSUME Distinct, NEW i \in DOMAIN checkpoints
    PROVE  CpIndex(checkpoints, checkpoints[i]) = i
<1>1. IsRegistered(checkpoints, checkpoints[i])
  BY DEF IsRegistered
<1> QED BY <1>1, CpIndexInDomain DEF Distinct

\* register_checkpoint() inserts a fresh name at the end or before one that is
\* not completed.
LEMMA PrefixRegister ==
    ASSUME PrefixInv, Modes \subseteq {"callback"}, NEW name \in Names,
           NEW before \in Names \cup {None}, RegisterCheckpoint(name, before)
    PROVE  /\ Distinct' /\ FreshIncomplete' /\ CompletedPrefix'
           /\ \A r \in Runs : Segment(r)'
<1> DEFINE L == Len(checkpoints)
           pos == IF before = None THEN L + 1 ELSE CpIndex(checkpoints, before)
<1>0. /\ OutcomeInv /\ TypeOK /\ ThreadIsPending
      /\ checkpoints \in Seq(Names) /\ completed \in [Names -> BOOLEAN]
      /\ DOMAIN checkpoints = 1..L /\ L \in Nat
  <2>1. OutcomeInv /\ TypeOK /\ ThreadIsPending
    BY DEF PrefixInv, SequenceInv, OutcomeInv, TypeInv
  <2>2. checkpoints \in Seq(Names) /\ completed \in [Names -> BOOLEAN]
    BY <2>1 DEF TypeOK
  <2> QED BY <2>1, <2>2
<1>1. /\ pos \in 1..(L + 1)
      /\ pos # L + 1 => pos \in 1..L /\ checkpoints[pos] = before /\ ~completed[before]
  BY <1>0, CpIndexInDomain DEF RegisterCheckpoint, MayInsertBefore
<1>2. /\ checkpoints' = InsertCheckpoint(checkpoints, pos, name)
      /\ completed' = completed /\ ~IsExecutingCheckpoints
      /\ UNCHANGED <<pc, mode, status, todo>>
  BY DEF RegisterCheckpoint, localVars
<1> HIDE DEF pos
<1>3. /\ DOMAIN checkpoints' = 1..(L + 1)
      /\ \A i \in 1..(L + 1) : checkpoints'[i] =
            IF i < pos THEN checkpoints[i]
            ELSE IF i = pos THEN name ELSE checkpoints[i - 1]
  BY <1>0, <1>2 DEF InsertCheckpoint
<1>4. \A i \in 1..L : checkpoints[i] # name /\ checkpoints[i] \in Names
  BY <1>0, ElementOfSeq DEF RegisterCheckpoint, IsRegistered
<1>5. ~completed[name]
  BY DEF PrefixInv, FreshIncomplete, RegisterCheckpoint
<1>6. \A i \in 1..L : i >= pos => ~completed[checkpoints[i]]
  <2> SUFFICES ASSUME NEW i \in 1..L, i >= pos, completed[checkpoints[i]]
               PROVE  FALSE
    OBVIOUS
  <2>1. pos \in 1..L /\ ~completed[checkpoints[pos]]
    BY <1>0, <1>1
  <2>2. CASE i = pos
    BY <2>1, <2>2
  <2>3. CASE pos < i
    BY <1>0, <2>1, <2>3 DEF PrefixInv, CompletedPrefix
  <2> QED BY <1>0, <2>1, <2>2, <2>3
<1>7. Distinct'
  <2> SUFFICES ASSUME NEW i \in 1..(L + 1), NEW j \in 1..(L + 1),
                      checkpoints'[i] = checkpoints'[j]
               PROVE  i = j
    BY <1>3 DEF Distinct
  <2> DEFINE Old(h) == IF h < pos THEN h ELSE h - 1
  <2>1. \A h \in 1..(L + 1) : h # pos =>
            Old(h) \in 1..L /\ checkpoints'[h] = checkpoints[Old(h)]
    BY <1>0, <1>1, <1>3
  <2>2. checkpoints'[pos] = name
    BY <1>0, <1>1, <1>3
  <2>3. CASE i = pos \/ j = pos
    BY <1>4, <2>1, <2>2, <2>3
  <2>4. CASE i # pos /\ j # pos
    <3>1. Old(i) = Old(j)
      BY <1>0, <2>1, <2>4 DEF PrefixInv, Distinct
    <3> QED BY <1>0, <1>1, <2>4, <3>1
  <2> QED BY <2>3, <2>4
<1>8. FreshIncomplete'
  <2> SUFFICES ASSUME NEW n \in Names, completed[n]
               PROVE  \E i \in 1..(L + 1) : checkpoints'[i] = n
    BY <1>2, <1>3 DEF FreshIncomplete, IsRegistered
  <2>1. PICK i \in 1..L : checkpoints[i] = n
    BY <1>0 DEF PrefixInv, FreshIncomplete, IsRegistered
  <2>2. CASE i < pos
    BY <1>0, <1>1, <1>3, <2>1, <2>2
  <2>3. CASE ~(i < pos)
    <3>1. i + 1 \in 1..(L + 1) /\ checkpoints'[i + 1] = n
      BY <1>0, <1>1, <1>3, <2>1, <2>3
    <3> QED BY <3>1
  <2> QED BY <2>2, <2>3
<1>9. CompletedPrefix'
  <2> SUFFICES ASSUME NEW i \in 1..(L + 1), NEW j \in 1..(L + 1), i < j,
                      completed[checkpoints'[j]]
               PROVE  completed[checkpoints'[i]]
    BY <1>2, <1>3 DEF CompletedPrefix
  <2>1. j < pos
    <3>1. CASE j = pos
      BY <1>0, <1>1, <1>3, <1>5, <3>1
    <3>2. CASE j > pos
      <4>1. j - 1 \in 1..L /\ j - 1 >= pos /\ checkpoints'[j] = checkpoints[j - 1]
        BY <1>0, <1>1, <1>3, <3>2
      <4> QED BY <1>6, <4>1
    <3> QED BY <1>0, <1>1, <3>1, <3>2
  <2>2. /\ i \in 1..L /\ j \in 1..L
        /\ checkpoints'[i] = checkpoints[i] /\ checkpoints'[j] = checkpoints[j]
    BY <1>0, <1>1, <1>3, <2>1
  <2> QED BY <1>0, <2>2 DEF PrefixInv, CompletedPrefix
<1>10. \A r \in Runs : ~Underway(r)
  BY <1>0, <1>2, UnderwayIsPending, PendingIsExecuting DEF ThreadIsPending
<1>11. \A r \in Runs : Segment(r)'
  BY <1>2, <1>10 DEF Segment, Underway, InLoop, Executing
<1> QED BY <1>7, <1>8, <1>9, <1>11

\* cleanup_checkpoints() takes every flag back, when no thread executes.
LEMMA PrefixCleanup ==
    ASSUME PrefixInv, Modes \subseteq {"callback"}, CleanupCheckpoints
    PROVE  /\ Distinct' /\ FreshIncomplete' /\ CompletedPrefix'
           /\ \A r \in Runs : Segment(r)'
<1>0. OutcomeInv /\ TypeOK /\ ThreadIsPending
  BY DEF PrefixInv, SequenceInv, OutcomeInv, TypeInv
<1>1. /\ UNCHANGED <<checkpoints, pc, mode, status, todo>> /\ ~IsExecutingCheckpoints
      /\ completed' = [n \in Names |-> IF IsRegistered(checkpoints, n) THEN FALSE
                                       ELSE completed[n]]
  BY DEF CleanupCheckpoints, localVars
<1>2. \A n \in Names : ~completed'[n]
  BY <1>1 DEF PrefixInv, FreshIncomplete
<1>3. \A i \in DOMAIN checkpoints : checkpoints[i] \in Names
  BY <1>0, ElementOfSeq DEF TypeOK
<1>4. \A r \in Runs : ~Underway(r)
  BY <1>0, <1>1, UnderwayIsPending, PendingIsExecuting DEF ThreadIsPending
<1> QED BY <1>1, <1>2, <1>3, <1>4 DEF PrefixInv, Distinct, FreshIncomplete,
  CompletedPrefix, Segment, Underway, InLoop, Executing

\* execute_checkpoints() once the flags are a prefix: the list it takes is a
\* segment that starts where the completed checkpoints end.
LEMMA PrefixExecuteFrom ==
    ASSUME PrefixInv, NEW t, NEW r \in Runs, NEW m, MayStart, pc[r] = "none",
           NEW start \in DOMAIN checkpoints, NEW flags,
           NEW pause \in 0..(Len(checkpoints) + 1),
           \A n \in Names : flags[n] => IsRegistered(checkpoints, n),
           \A i, j \in DOMAIN checkpoints :
               i < j /\ flags[checkpoints[j]] => flags[checkpoints[i]],
           ExecuteFrom(t, r, m, flags, start, pause)
    PROVE  /\ Distinct' /\ FreshIncomplete' /\ CompletedPrefix'
           /\ \A q \in Runs : Segment(q)'
<1>0. OutcomeInv /\ TypeOK /\ Outcome(r)
  BY DEF PrefixInv, SequenceInv, OutcomeInv, TypeInv
<1>1. completed' = flags /\ checkpoints' = checkpoints
  BY DEF ExecuteFrom, NothingToRun, StartRun
<1>2. Distinct' /\ FreshIncomplete' /\ CompletedPrefix'
  BY <1>1 DEF PrefixInv, Distinct, FreshIncomplete, CompletedPrefix
<1>3. \A q \in Runs : ~Underway(q)
  BY <1>0, UnderwayIsPending, MayStartIsNonePending
<1>4. ASSUME pc' = pc \/ pc' = [pc EXCEPT ![r] = "done"]
      PROVE  \A q \in Runs : Segment(q)'
  <2>1. \A q \in Runs : ~Underway(q)'
    BY <1>0, <1>3, <1>4 DEF Underway, InLoop, Executing, TypeOK
  <2> QED BY <2>1 DEF Segment
<1>5. CASE /\ ExecListIsValid(checkpoints, flags, start, pause) /\ start # pause
           /\ StartRun(t, r, m, ExecList(checkpoints, start, pause))
  <2> DEFINE list == ExecList(checkpoints, start, pause)
  <2>1. /\ pc' = [pc EXCEPT ![r] = "load"] /\ todo' = [todo EXCEPT ![r] = list]
        /\ status' = status
    BY <1>5 DEF StartRun
  <2>2. \A q \in Runs : q # r => ~Underway(q)'
    BY <1>0, <1>3, <2>1 DEF Underway, InLoop, Executing, TypeOK
  <2>3. todo'[r] = list
    BY <1>0, <2>1 DEF TypeOK
  <2>4. status'[r] = EXEC_SUCCESS
    BY <1>0, <2>1 DEF Outcome, EXEC_SUCCESS, EXEC_FAILED
  <2>5. /\ start \in 1..Len(checkpoints) /\ pause \in Int /\ start <= pause
        /\ checkpoints \in Seq(Names) /\ Len(checkpoints) \in Nat
    BY SMTT(30), <1>0, <1>5 DEF TypeOK, ExecListIsValid
  <2>6. Len(list) = pause - start
    BY <1>5, <2>5, ExecListType
  <2>7. \A k \in 1..(pause - start) : list[k] = checkpoints[(start - 1) + k]
    BY <2>5 DEF ExecList
  <2>8. \A i \in 1..(start - 1) : flags[checkpoints[i]]
    BY <1>5 DEF ExecListIsValid
  <2> HIDE DEF list
  <2>9. start - 1 \in Nat /\ (start - 1) + Len(list) <= Len(checkpoints)
    BY <2>5, <2>6
  <2>10. \E base \in Nat :
            /\ base + Len(list) <= Len(checkpoints)
            /\ \A k \in 1..Len(list) : list[k] = checkpoints[base + k]
            /\ \A i \in 1..base : flags[checkpoints[i]]
    BY <2>6, <2>7, <2>8, <2>9
  <2>11. Segment(r)'
    BY <1>1, <2>3, <2>4, <2>10 DEF Segment
  <2> QED BY <1>2, <2>2, <2>11 DEF Segment
<1>6. \A q \in Runs : Segment(q)'
  BY <1>4, <1>5 DEF ExecuteFrom, NothingToRun
<1> QED BY <1>2, <1>6

\* Both forms of execute_checkpoints() keep the completed ones a prefix: a
\* rollback completes exactly the checkpoints before the one it goes back to.
LEMMA PrefixExecute ==
    ASSUME PrefixInv, NEW t \in Executors, NEW r \in Runs, NEW m \in Modes,
           NEW pause \in Names \cup {None},
           \/ ExecuteCheckpoints(t, r, m, pause)
           \/ \E start \in Names : ExecuteCheckpointsFrom(t, r, m, start, pause)
    PROVE  /\ Distinct' /\ FreshIncomplete' /\ CompletedPrefix'
           /\ \A q \in Runs : Segment(q)'
<1>0. /\ OutcomeInv /\ TypeOK /\ MayStart /\ pc[r] = "none"
      /\ checkpoints \in Seq(Names) /\ completed \in [Names -> BOOLEAN]
  BY DEF PrefixInv, SequenceInv, OutcomeInv, TypeInv, TypeOK, ExecuteCheckpoints,
    ExecuteCheckpointsFrom
<1>1. PausePosition(pause) \in 0..(Len(checkpoints) + 1)
  BY <1>0, PausePositionRange
<1>2. /\ \A n \in Names : completed[n] => IsRegistered(checkpoints, n)
      /\ \A i, j \in DOMAIN checkpoints :
            i < j /\ completed[checkpoints[j]] => completed[checkpoints[i]]
  BY DEF PrefixInv, FreshIncomplete, CompletedPrefix
<1>3. CASE completed' = completed /\ NothingToRun(r, m)
  <2>1. pc' = [pc EXCEPT ![r] = "done"] /\ checkpoints' = checkpoints
    BY <1>3 DEF NothingToRun
  <2>2. \A q \in Runs : ~Underway(q)
    BY <1>0, UnderwayIsPending, MayStartIsNonePending
  <2>3. \A q \in Runs : ~Underway(q)'
    BY <1>0, <2>1, <2>2 DEF Underway, InLoop, Executing, TypeOK
  <2>4. \A q \in Runs : Segment(q)'
    BY <2>3 DEF Segment
  <2>5. Distinct' /\ FreshIncomplete' /\ CompletedPrefix'
    BY <1>3, <2>1 DEF PrefixInv, Distinct, FreshIncomplete, CompletedPrefix
  <2> QED BY <2>4, <2>5
<1>4. ASSUME NEW first \in DOMAIN checkpoints,
             ExecuteFrom(t, r, m, completed, first, PausePosition(pause))
      PROVE  /\ Distinct' /\ FreshIncomplete' /\ CompletedPrefix'
             /\ \A q \in Runs : Segment(q)'
  BY <1>0, <1>1, <1>2, <1>4, PrefixExecuteFrom
<1>5. ASSUME NEW pos \in DOMAIN checkpoints,
             ExecuteFrom(t, r, m, RolledBack(checkpoints, completed, pos), pos,
                         PausePosition(pause))
      PROVE  /\ Distinct' /\ FreshIncomplete' /\ CompletedPrefix'
             /\ \A q \in Runs : Segment(q)'
  <2> DEFINE flags == RolledBack(checkpoints, completed, pos)
  <2>1. \A n \in Names : flags[n] => IsRegistered(checkpoints, n)
    BY <1>0, <1>2 DEF RolledBack
  <2>2. \A i \in DOMAIN checkpoints : checkpoints[i] \in Names /\ i \in Nat
    BY <1>0, ElementOfSeq
  <2>3. \A i \in DOMAIN checkpoints : flags[checkpoints[i]] <=> i < pos
    <3> SUFFICES ASSUME NEW i \in DOMAIN checkpoints
                 PROVE  flags[checkpoints[i]] <=> i < pos
      OBVIOUS
    <3>1. IsRegistered(checkpoints, checkpoints[i])
      BY DEF IsRegistered
    <3>2. CpIndex(checkpoints, checkpoints[i]) = i
      BY CpIndexIsPosition DEF PrefixInv
    <3> QED BY <1>0, <2>2, <3>1, <3>2 DEF RolledBack
  <2>4. \A i, j \in DOMAIN checkpoints :
            i < j /\ flags[checkpoints[j]] => flags[checkpoints[i]]
    BY <1>0, <2>2, <2>3
  <2> HIDE DEF flags
  <2> QED BY <1>0, <1>1, <1>5, <2>1, <2>4, PrefixExecuteFrom DEF flags
<1>6. CASE ExecuteCheckpoints(t, r, m, pause)
  BY <1>3, <1>4, <1>6 DEF ExecuteCheckpoints
<1>7. ASSUME NEW start \in Names, ExecuteCheckpointsFrom(t, r, m, start, pause)
      PROVE  /\ Distinct' /\ FreshIncomplete' /\ CompletedPrefix'
             /\ \A q \in Runs : Segment(q)'
  <2>1. CpIndex(checkpoints, start) \in DOMAIN checkpoints
    BY <1>7, CpIndexInDomain DEF ExecuteCheckpointsFrom
  <2> QED BY <1>4, <1>5, <1>7, <2>1 DEF ExecuteCheckpointsFrom
<1> QED BY <1>6, <1>7

\* A thread that stops on errors completes its checkpoints in order.
LEMMA PrefixRun ==
    ASSUME PrefixInv, Modes \subseteq {"callback"}, StopModes \subseteq {TRUE},
           NEW r \in Runs, EngineStep(r) \/ ExecuteStep(r)
    PROVE  /\ Distinct' /\ FreshIncomplete' /\ CompletedPrefix'
           /\ \A q \in Runs : Segment(q)'
<1>0. /\ OutcomeInv /\ TypeInv /\ TypeOK /\ Progress(r) /\ mode[r] = "callback"
      /\ checkpoints \in Seq(Names) /\ completed \in [Names -> BOOLEAN]
  BY DEF PrefixInv, SequenceInv, OutcomeInv, TypeInv, TypeOK, ThreadIsPending
<1>1. /\ UNCHANGED <<checkpoints, todo>>
      /\ \A q \in Runs : q # r => pc'[q] = pc[q] /\ status'[q] = status[q]
  BY <1>0, OthersUntouched
<1>2. Underway(r)' => Underway(r) /\ status'[r] = status[r]
  <2> USE <1>0 DEF TypeOK, Underway, InLoop, Executing, localVars
  <2>1. CASE LoadCheckpoints(r)
    BY <2>1 DEF LoadCheckpoints, LoadFails
  <2>2. CASE InitCallback(r) \/ InitReset(r) \/ Callback(r) \/ ExitRun(r)
    BY <2>2 DEF InitCallback, InitReset, Callback, ExitRun
  <2>3. CASE TestCancel(r)
    BY <2>3, TestCancelCases
  <2>4. CASE AssignCurrent(r) \/ SnapshotBefore(r) \/ RecordCompletion(r)
    BY <2>4 DEF AssignCurrent, SnapshotBefore, RecordCompletion
  <2>5. CASE ExecuteSucceeds(r) \/ SnapshotAfter(r)
    BY <2>5 DEF ExecuteSucceeds, SnapshotAfter
  <2>6. CASE ExecuteFails(r)
    <3>1. pc'[r] \in {"fatal", "finally"}
      BY <2>6 DEF ExecuteFails
    <3> QED BY <3>1
  <2>7. CASE FatalError(r)
    BY <2>7 DEF FatalError, AfterFatal
  <2>8. CASE FinallyReset(r)
    BY <2>8, FinallyCases
  <2> QED BY <2>1, <2>2, <2>3, <2>4, <2>5, <2>6, <2>7, <2>8 DEF EngineStep, ExecuteStep
<1>3. ASSUME \A n \in Names : completed[n] => completed'[n]
      PROVE  \A q \in Runs : Segment(q)'
  <2> SUFFICES ASSUME NEW q \in Runs, Underway(q)' PROVE Segment(q)'
    BY DEF Segment
  <2>1. Underway(q) /\ status'[q] = status[q]
    BY <1>1, <1>2 DEF Underway, InLoop, Executing
  <2>2. PICK base \in Nat :
            /\ base + Len(todo[q]) <= Len(checkpoints)
            /\ \A k \in 1..Len(todo[q]) : todo[q][k] = checkpoints[base + k]
            /\ \A i \in 1..base : completed[checkpoints[i]]
    BY <2>1 DEF PrefixInv, Segment
  <2>3. status[q] = EXEC_SUCCESS
    BY <2>1 DEF PrefixInv, Segment
  <2>4. todo[q] \in Seq(Names) /\ Len(todo[q]) \in Nat /\ Len(checkpoints) \in Nat
    BY <1>0 DEF TypeOK
  <2>5. \A i \in 1..base : checkpoints[i] \in Names
    BY <1>0, <2>2, <2>4, ElementOfSeq
  <2>6. \A i \in 1..base : completed'[checkpoints[i]]
    BY <1>3, <2>2, <2>5
  <2> QED BY <1>1, <2>1, <2>2, <2>3, <2>6 DEF Segment
<1>4. CASE ~RecordCompletion(r)
  <2>1. completed' = completed
    BY <1>4 DEF EngineStep, ExecuteStep, LoadCheckpoints, InitCallback, InitReset,
      TestCancel, AssignCurrent, SnapshotBefore, ExecuteSucceeds, ExecuteFails,
      SnapshotAfter, FatalError, FinallyReset, Callback, ExitRun, engineVars
  <2> QED BY <1>1, <1>3, <2>1 DEF PrefixInv, Distinct, FreshIncomplete, CompletedPrefix
<1>5. CASE RecordCompletion(r)
  <2>1. pc[r] = "record" /\ Underway(r) /\ InLoop(r)
    BY <1>5 DEF RecordCompletion, Underway, InLoop, Executing
  <2>2. PICK base \in Nat :
            /\ base + Len(todo[r]) <= Len(checkpoints)
            /\ \A k \in 1..Len(todo[r]) : todo[r][k] = checkpoints[base + k]
            /\ \A i \in 1..base : completed[checkpoints[i]]
    BY <2>1 DEF PrefixInv, Segment
  <2>3. status[r] = EXEC_SUCCESS
    BY <2>1 DEF PrefixInv, Segment
  <2>4. /\ todo[r][idx[r]] \in Names /\ idx[r] \in 1..Len(todo[r])
        /\ Len(todo[r]) \in Nat /\ Len(checkpoints) \in Nat
        /\ DOMAIN checkpoints = 1..Len(checkpoints)
    BY <1>0, <2>1, ElementAtIndex DEF TypeOK
  <2>5. /\ succeeded[r] = TRUE
        /\ \A k \in 1..(idx[r] - 1) : completed[todo[r][k]]
    BY <1>0, <2>1, <2>3 DEF Progress, TypeOK
  <2>6. completed' = [completed EXCEPT ![todo[r][idx[r]]] = TRUE]
    BY <1>5, <2>5 DEF RecordCompletion
  <2>7. \A n \in Names : completed[n] => completed'[n]
    BY <1>0, <2>4, <2>6
  <2>8. \A i \in 1..Len(checkpoints) : checkpoints[i] \in Names
    BY <1>0, ElementOfSeq
  <2>9. base + idx[r] \in 1..Len(checkpoints)
        /\ checkpoints[base + idx[r]] = todo[r][idx[r]]
    BY <2>2, <2>4
  <2>10. FreshIncomplete'
    <3>1. IsRegistered(checkpoints, todo[r][idx[r]])
      BY <2>4, <2>9 DEF IsRegistered
    <3> QED BY <1>0, <1>1, <2>4, <2>6, <3>1 DEF PrefixInv, FreshIncomplete
  <2>11. \A i \in 1..(base + idx[r] - 1) : completed[checkpoints[i]]
    <3> SUFFICES ASSUME NEW i \in 1..(base + idx[r] - 1), ~(i <= base)
                 PROVE  completed[checkpoints[i]]
      BY <2>2, <2>4
    <3>1. i - base \in 1..(idx[r] - 1) /\ i - base \in 1..Len(todo[r])
          /\ base + (i - base) = i
      BY <2>2, <2>4
    <3> QED BY <2>2, <2>5, <3>1
  <2>12. CompletedPrefix'
    <3> SUFFICES ASSUME NEW i \in 1..Len(checkpoints), NEW j \in 1..Len(checkpoints),
                        i < j, completed'[checkpoints[j]]
                 PROVE  completed[checkpoints[i]]
      BY <1>1, <2>4, <2>7, <2>8 DEF CompletedPrefix
    <3>1. CASE completed[checkpoints[j]]
      BY <2>4, <3>1 DEF PrefixInv, CompletedPrefix
    <3>2. CASE ~completed[checkpoints[j]]
      <4>1. checkpoints[j] = todo[r][idx[r]]
        BY <1>0, <2>4, <2>6, <2>8, <3>2
      <4>2. j = base + idx[r]
        BY <2>4, <2>9, <4>1 DEF PrefixInv, Distinct
      <4> QED BY <2>4, <2>11, <4>2
    <3> QED BY <3>1, <3>2
  <2>13. Distinct'
    BY <1>1 DEF PrefixInv, Distinct
  <2> QED BY <1>3, <2>7, <2>10, <2>12, <2>13
<1> QED BY <1>4, <1>5

\* With threads that stop on errors the completed checkpoints are a prefix of
\* the list: after any registrations, rollbacks, cancellations and failures.
THEOREM CompletedIsPrefix ==
    Modes \subseteq {"callback"} /\ StopModes \subseteq {TRUE}
        => (Spec => []CompletedPrefix)
<1> SUFFICES ASSUME Modes \subseteq {"callback"}, StopModes \subseteq {TRUE}
             PROVE  Spec => []CompletedPrefix
  OBVIOUS
<1>0. OneThread
  BY DEF OneThread
<1>1. PrefixInv /\ [Next]_vars => PrefixInv'
  <2> SUFFICES ASSUME PrefixInv, [Next]_vars PROVE PrefixInv'
    OBVIOUS
  <2> DEFINE Rest == /\ Distinct /\ FreshIncomplete /\ CompletedPrefix
                     /\ \A q \in Runs : Segment(q)
  <2>1. SequenceInv'
    BY <1>0, SequenceNext DEF PrefixInv
  <2>2. ASSUME UNCHANGED <<checkpoints, completed, pc, status, todo>>
        PROVE  Rest'
    BY <2>2 DEF PrefixInv, Distinct, FreshIncomplete, CompletedPrefix, Segment, Underway,
      InLoop, Executing
  <2>3. ASSUME NEW r \in Runs, EngineStep(r) \/ ExecuteStep(r)
        PROVE  Rest'
    BY <2>3, PrefixRun
  <2>4. ASSUME NEW t \in Cancellers, SetCancelEvent(t) \/ CancelStep(t)
        PROVE  Rest'
    <3>1. UNCHANGED <<checkpoints, completed, pc, status, todo>>
      BY <2>4 DEF CancelStep, SetCancelEvent, CancelCurrent, JoinThread, Joined,
        ClearCancelEvent, engineVars, localVars
    <3> QED BY <2>2, <3>1
  <2>5. ASSUME NEW t \in Executors, NEW r \in Runs, NEW m \in Modes,
               NEW pause \in Names \cup {None},
               \/ ExecuteCheckpoints(t, r, m, pause)
               \/ \E start \in Names : ExecuteCheckpointsFrom(t, r, m, start, pause)
        PROVE  Rest'
    BY <2>5, PrefixExecute
  <2>6. ASSUME NEW name \in Names, NEW before \in Names \cup {None},
               RegisterCheckpoint(name, before)
        PROVE  Rest'
    BY <2>6, PrefixRegister
  <2>7. ASSUME CleanupCheckpoints
        PROVE  Rest'
    BY <2>7, PrefixCleanup
  <2>8. ASSUME UNCHANGED vars
        PROVE  Rest'
    <3>1. UNCHANGED <<checkpoints, completed, pc, status, todo>>
      BY <2>8 DEF vars, engineVars, localVars
    <3> QED BY <2>2, <3>1
  <2>9. Rest'
    BY <2>3, <2>4, <2>5, <2>6, <2>7, <2>8 DEF Next
  <2> QED BY <2>1, <2>9 DEF PrefixInv
<1>2. PrefixInv => CompletedPrefix
  BY DEF PrefixInv
<1>3. Init => PrefixInv
  BY InitSequenceInv DEF Init, PrefixInv, Distinct, FreshIncomplete, CompletedPrefix,
    Segment, Underway, InLoop, Executing
<1> QED BY <1>1, <1>2, <1>3, PTL DEF Spec

=============================================================================
