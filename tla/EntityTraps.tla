---------------------------- MODULE EntityTraps ----------------------------
(***************************************************************************)
(* The entConfigChange trap of the Entity MIB module (components/net-snmp/ *)
(* sun/agent/modules/entityMib/entLastChangeTime.c).  Every call that      *)
(* changes a table calls configChanged (EntityTables), which sends a trap, *)
(* but no two within TRAP_THROTTLE_PERIOD; an alarm set with each trap     *)
(* looks for changes that were suppressed.                                 *)
(*                                                                         *)
(* Time is counted in ticks and relative to the last trap.  The clock, the *)
(* alarms and the trap itself are the agent's library: an alarm runs when  *)
(* its time has come or later.  Times are compared in milliseconds, so a   *)
(* trap and a change of one tick may or may not be equal.                  *)
(***************************************************************************)
EXTENDS Naturals

CONSTANTS Period,       \* TRAP_THROTTLE_PERIOD in ticks
          MaxOverdue    \* bound on alarms that are due and have not run

ASSUME PeriodAssumption == Period \in Nat \ {0}
ASSUME OverdueAssumption == MaxOverdue \in Nat \ {0}

VARIABLES
    sinceTrap,      \* time since trapLastIssued, Period for anything longer
    changedNow,     \* entLastChangeTime is in the current tick
    pending,        \* trapLastIssued is not later than entLastChangeTime
    alarms,         \* number of alarms by the ticks until they are due
    unreported      \* history: there was a change after the last trap

vars == <<sinceTrap, changedNow, pending, alarms, unreported>>

TypeOK ==
    /\ sinceTrap \in 0..Period
    /\ changedNow \in BOOLEAN /\ pending \in BOOLEAN /\ unreported \in BOOLEAN
    /\ alarms \in [0..Period -> Nat]

\* init_entLastChangeTime: the marker of the last trap is at the epoch.
Init ==
    /\ sinceTrap = Period
    /\ changedNow = TRUE
    /\ pending = TRUE
    /\ alarms = [d \in 0..Period |-> 0]
    /\ unreported = FALSE

\* atime_ready(trapLastIssued, TRAP_THROTTLE_PERIOD)
Ready == sinceTrap = Period

\* Mutant: the alarm runs before the throttle period is over.
SendTrap_EarlyAlarm(rest, same) ==
    /\ sinceTrap' = 0
    /\ pending' \in {FALSE, same}
    /\ alarms' = [rest EXCEPT ![Period - 1] = @ + 1]
    /\ unreported' = FALSE

\* Mutant: no alarm, as before the fix for 4929068.
SendTrap_NoAlarm(rest, same) ==
    /\ sinceTrap' = 0
    /\ pending' \in {FALSE, same}
    /\ alarms' = rest
    /\ unreported' = FALSE

\* The trap is sent, its time taken and an alarm registered.
SendTrap(rest, same) ==
    /\ sinceTrap' = 0
    /\ pending' \in {FALSE, same}
    /\ alarms' = [rest EXCEPT ![Period] = @ + 1]
    /\ unreported' = FALSE

\* configChanged, and poll_entLastChangeTime: a change is never earlier than the trap.
ConfigChanged ==
    /\ alarms[0] < MaxOverdue
    /\ changedNow' = TRUE
    /\ \/ Ready /\ SendTrap(alarms, TRUE)
       \/ /\ ~Ready
          /\ pending' = TRUE /\ unreported' = TRUE
          /\ UNCHANGED <<sinceTrap, alarms>>

\* Mutant: a trap whether or not something has changed.
Alarm_AlwaysSends ==
    LET rest == [alarms EXCEPT ![0] = @ - 1] IN
    /\ alarms[0] > 0
    /\ \/ Ready /\ SendTrap(rest, changedNow)
       \/ ~Ready /\ alarms' = rest /\ UNCHANGED <<sinceTrap, pending, unreported>>
    /\ UNCHANGED changedNow

\* alarm_entLastChangeTime, and poll_entLastChangeTime
Alarm ==
    LET rest == [alarms EXCEPT ![0] = @ - 1] IN
    /\ alarms[0] > 0
    /\ \/ Ready /\ pending /\ SendTrap(rest, changedNow)
       \/ /\ ~(Ready /\ pending)
          /\ alarms' = rest
          /\ UNCHANGED <<sinceTrap, pending, unreported>>
    /\ UNCHANGED changedNow

\* An alarm that is due stays due.
Tick ==
    /\ sinceTrap' = IF sinceTrap < Period THEN sinceTrap + 1 ELSE Period
    /\ alarms' = [d \in 0..Period |->
                    IF d = 0 THEN alarms[0] + alarms[1] ELSE IF d = Period THEN 0 ELSE alarms[d + 1]]
    /\ changedNow' = FALSE
    /\ UNCHANGED <<pending, unreported>>

Next == ConfigChanged \/ Alarm \/ Tick

\* Time passes, and the agent's main loop runs the alarms that are due.
Fairness == WF_vars(Tick) /\ WF_vars(Alarm)

Spec == Init /\ [][Next]_vars /\ Fairness

(***************************************************************************)
(* Properties                                                              *)
(***************************************************************************)
\* A change that was suppressed has an alarm that will not run too early to send the
\* trap, and the alarm will not take it for a change that was reported.
SuppressedIsCovered ==
    unreported => pending /\ \E d \in 0..Period : alarms[d] > 0 /\ sinceTrap + d >= Period

\* "If anything was suppressed, a trap will be sent" (entLastChangeTime.c:177-178).
EveryChangeIsReported == unreported ~> ~unreported

\* If the configuration does not change any more the traps stop: although a trap may be
\* sent twice for one change, the alarms do not go on for ever.
TrapsStop == <>[](\A d \in 0..Period : alarms[d] = 0) \/ []<><<ConfigChanged>>_vars

=============================================================================
