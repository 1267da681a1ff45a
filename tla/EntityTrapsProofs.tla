------------------------- MODULE EntityTrapsProofs -------------------------
(***************************************************************************)
(* Proof, for every throttle period, that a change the throttle suppresses *)
(* is still covered by an alarm.  SuppressedIsCovered is not inductive: a  *)
(* change that comes within the period finds an alarm only because the     *)
(* trap before it has set one that cannot have run yet, which CoverInv     *)
(* states also for the time before the change.                             *)
(***************************************************************************)
EXTENDS EntityTraps, TLAPS

\* An alarm that will not run before a trap may be sent again.
AlarmAhead == \E d \in 0..Period : alarms[d] > 0 /\ sinceTrap + d >= Period

CoverInv ==
    /\ TypeOK
    /\ unreported => pending
    /\ unreported \/ ~Ready => AlarmAhead

\* At the start no trap was sent and no change suppressed.
LEMMA InitCovers == Init => CoverInv
<1> SUFFICES ASSUME Init PROVE CoverInv
  OBVIOUS
<1>1. sinceTrap \in 0..Period /\ alarms \in [0..Period -> Nat]
  BY PeriodAssumption DEF Init
<1>2. changedNow \in BOOLEAN /\ pending \in BOOLEAN /\ unreported \in BOOLEAN
  BY Zenon DEF Init
<1>3. ~unreported /\ Ready
  BY DEF Init, Ready
<1>4. QED BY <1>1, <1>2, <1>3 DEF CoverInv, TypeOK

\* The alarm that is registered with a trap is as far ahead as the throttle period.
LEMMA TrapCovers ==
    ASSUME CoverInv, NEW rest \in [0..Period -> Nat], NEW same \in BOOLEAN,
           SendTrap(rest, same), changedNow' \in BOOLEAN
    PROVE  CoverInv'
<1>1. alarms' = [rest EXCEPT ![Period] = @ + 1] /\ Period \in 0..Period
  BY PeriodAssumption DEF SendTrap
<1>2. alarms'[Period] > 0 /\ sinceTrap' = 0
  BY <1>1 DEF SendTrap
<1>3. AlarmAhead'
  BY <1>1, <1>2, PeriodAssumption DEF AlarmAhead
<1>4. TypeOK'
  <2>1. alarms' \in [0..Period -> Nat]
    BY <1>1
  <2>2. sinceTrap' \in 0..Period
    BY PeriodAssumption DEF SendTrap
  <2>3. pending' \in BOOLEAN /\ unreported' \in BOOLEAN
    BY Zenon DEF SendTrap
  <2>4. QED BY <2>1, <2>2, <2>3 DEF TypeOK
<1>5. unreported' = FALSE
  BY DEF SendTrap
<1>6. QED BY <1>3, <1>4, <1>5 DEF CoverInv

\* A change within the period finds the alarm of the trap before it.
LEMMA ConfigChangedCovers == ASSUME CoverInv, ConfigChanged PROVE CoverInv'
<1>1. CASE Ready /\ SendTrap(alarms, TRUE)
  BY <1>1, TrapCovers DEF ConfigChanged, CoverInv, TypeOK
<1>2. CASE ~Ready /\ pending' = TRUE /\ unreported' = TRUE /\ UNCHANGED <<sinceTrap, alarms>>
  <2>1. AlarmAhead'
    BY <1>2 DEF CoverInv, AlarmAhead
  <2>2. QED BY <1>2, <2>1 DEF ConfigChanged, CoverInv, TypeOK
<1>3. QED BY <1>1, <1>2 DEF ConfigChanged

\* An alarm that runs before the period is over is not the one that covers a change.
LEMMA AlarmCovers == ASSUME CoverInv, Alarm PROVE CoverInv'
<1> DEFINE rest == [alarms EXCEPT ![0] = @ - 1]
<1>1. rest \in [0..Period -> Nat] /\ \A d \in 1..Period : rest[d] = alarms[d]
  BY PeriodAssumption DEF Alarm, CoverInv, TypeOK
<1> HIDE DEF rest
<1>2. CASE Ready /\ pending /\ SendTrap(rest, changedNow)
  BY <1>1, <1>2, TrapCovers DEF Alarm, CoverInv, TypeOK
<1>3. CASE /\ ~(Ready /\ pending)
           /\ alarms' = rest
           /\ UNCHANGED <<sinceTrap, pending, unreported>>
  <2>1. TypeOK' /\ (unreported' => pending')
    BY <1>1, <1>3 DEF Alarm, CoverInv, TypeOK
  <2>2. ASSUME unreported \/ ~Ready PROVE AlarmAhead'
    <3>1. sinceTrap \in 0..Period /\ sinceTrap # Period
      BY <1>3, <2>2 DEF CoverInv, TypeOK, Ready
    <3>2. PICK d \in 0..Period : alarms[d] > 0 /\ sinceTrap + d >= Period
      BY <2>2 DEF CoverInv, AlarmAhead
    <3>3. d \in 1..Period
      BY <3>1, <3>2, PeriodAssumption
    <3>4. alarms'[d] > 0 /\ sinceTrap' + d >= Period
      BY <1>1, <1>3, <3>2, <3>3
    <3>5. QED BY <3>2, <3>4 DEF AlarmAhead
  <2>3. QED BY <1>3, <2>1, <2>2 DEF CoverInv, Ready
<1>4. QED BY <1>2, <1>3 DEF Alarm, rest

\* Time brings an alarm nearer by as much as it brings the end of the period.
LEMMA TickCovers == ASSUME CoverInv, Tick PROVE CoverInv'
<1>1. TypeOK'
  <2>1. alarms' \in [0..Period -> Nat]
    BY PeriodAssumption DEF Tick, CoverInv, TypeOK
  <2>2. sinceTrap' \in 0..Period
    BY PeriodAssumption DEF Tick, CoverInv, TypeOK
  <2>3. QED BY <2>1, <2>2 DEF Tick, CoverInv, TypeOK
<1>2. ASSUME AlarmAhead PROVE AlarmAhead'
  <2>1. PICK d \in 0..Period : alarms[d] > 0 /\ sinceTrap + d >= Period
    BY <1>2 DEF AlarmAhead
  <2>2. alarms \in [0..Period -> Nat] /\ sinceTrap \in 0..Period
    BY DEF CoverInv, TypeOK
  <2>3. CASE d = 0
    <3>1. alarms'[0] > 0
      BY <2>1, <2>2, <2>3, PeriodAssumption DEF Tick
    <3>2. sinceTrap' + 0 >= Period
      BY <2>1, <2>2, <2>3, PeriodAssumption DEF Tick
    <3>3. QED BY <3>1, <3>2, PeriodAssumption DEF AlarmAhead
  <2>4. CASE d = 1
    <3>1. alarms'[0] > 0
      BY <2>1, <2>2, <2>4, PeriodAssumption DEF Tick
    <3>2. sinceTrap' + 0 >= Period
      BY <2>1, <2>2, <2>4, PeriodAssumption DEF Tick
    <3>3. QED BY <3>1, <3>2, PeriodAssumption DEF AlarmAhead
  <2>5. CASE d > 1
    <3>1. d - 1 \in 1..Period - 1
      BY <2>5, PeriodAssumption
    <3>2. alarms'[d - 1] = alarms[d]
      BY <3>1, PeriodAssumption DEF Tick
    <3>3. sinceTrap' + (d - 1) >= Period
      BY <2>1, <2>2, <3>1, PeriodAssumption DEF Tick
    <3>4. QED BY <2>1, <3>1, <3>2, <3>3, PeriodAssumption DEF AlarmAhead
  <2>6. QED BY <2>3, <2>4, <2>5, PeriodAssumption
<1>3. Ready => Ready'
  BY PeriodAssumption DEF Ready, Tick
<1>4. QED BY <1>1, <1>2, <1>3 DEF Tick, CoverInv

\* CoverInv holds in every reachable state, for every throttle period.
LEMMA CoverInvariant == Spec => []CoverInv
<1>1. CoverInv /\ [Next]_vars => CoverInv'
  <2> SUFFICES ASSUME CoverInv, [Next]_vars PROVE CoverInv'
    OBVIOUS
  <2>1. CASE ConfigChanged BY <2>1, ConfigChangedCovers
  <2>2. CASE Alarm BY <2>2, AlarmCovers
  <2>3. CASE Tick BY <2>3, TickCovers
  <2>4. CASE UNCHANGED vars
    BY <2>4 DEF vars, CoverInv, TypeOK, Ready, AlarmAhead
  <2>5. QED BY <2>1, <2>2, <2>3, <2>4 DEF Next
<1>2. QED BY InitCovers, <1>1, PTL DEF Spec

\* The times and the counts of alarms of entLastChangeTime.c keep their types: the
\* alarm that runs is one that was registered.
THEOREM TrapTypeCorrect == Spec => []TypeOK
<1>1. CoverInv => TypeOK
  BY DEF CoverInv
<1>2. QED BY CoverInvariant, <1>1, PTL

\* For every throttle period and however late the alarms run: a change that was
\* suppressed has an alarm that comes late enough to send the trap
\* (entLastChangeTime.c, poll_entLastChangeTime and alarm_entLastChangeTime).
THEOREM SuppressedHasAlarm == Spec => []SuppressedIsCovered
<1>1. CoverInv => SuppressedIsCovered
  BY DEF CoverInv, SuppressedIsCovered, AlarmAhead
<1>2. QED BY CoverInvariant, <1>1, PTL

=============================================================================
