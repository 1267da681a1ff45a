---------------------------- MODULE Checkpoints ----------------------------
(***************************************************************************)
(* The pure part of InstallEngine's checkpoint list: where a registration  *)
(* inserts a checkpoint, which checkpoint is the first incomplete one,     *)
(* which list of checkpoints an execution runs, and how _rollback resets   *)
(* the `completed' flags.  `cps' stands for self._checkpoints (a sequence  *)
(* of distinct names), `completed' for the flag of every CheckpointData.   *)
(***************************************************************************)
EXTENDS Integers, Sequences

IsRegistered(cps, name) == \E i \in DOMAIN cps : cps[i] = name

\* get_cp_data: the position of the CheckpointData of a registered name.
CpIndex(cps, name) == CHOOSE i \in DOMAIN cps : cps[i] = name

\* get_first_incomplete returns the checkpoint at position i; it returns None
\* when AllCompleted.
IsFirstIncomplete(cps, completed, i) ==
    /\ ~completed[cps[i]]
    /\ \A j \in 1..(i - 1) : completed[cps[j]]

AllCompleted(cps, completed) == \A i \in DOMAIN cps : completed[cps[i]]

\* _checkpoints.insert(pos - 1, name): name becomes element number pos.
InsertCheckpoint(cps, pos, name) ==
    [i \in 1..(Len(cps) + 1) |->
        IF i < pos THEN cps[i] ELSE IF i = pos THEN name ELSE cps[i - 1]]

(***************************************************************************)
(* get_exec_list.  `start' is the position of start_from; `pause' is the   *)
(* position of pause_before, Len(cps) + 1 when pause_before is None and 0  *)
(* when it names no checkpoint.  Every checkpoint before `start' must be   *)
(* completed; a pause_before that is not found at or after `start' is an   *)
(* UnknownChkptError.                                                      *)
(***************************************************************************)
ExecListIsValid(cps, completed, start, pause) ==
    /\ \A i \in 1..(start - 1) : completed[cps[i]]
    /\ start <= pause

ExecList(cps, start, pause) == SubSeq(cps, start, pause - 1)

\* Mutant of RolledBack: the checkpoint rolled back to stays completed.
RolledBack_Through(cps, completed, pos) ==
    [n \in DOMAIN completed |->
        IF IsRegistered(cps, n) THEN CpIndex(cps, n) <= pos ELSE completed[n]]

\* The loop at the end of _rollback: every checkpoint registered before
\* position pos becomes completed, every other one becomes incomplete.
RolledBack(cps, completed, pos) ==
    [n \in DOMAIN completed |->
        IF IsRegistered(cps, n) THEN CpIndex(cps, n) < pos ELSE completed[n]]

=============================================================================
