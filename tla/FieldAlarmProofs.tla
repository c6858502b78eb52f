-------------------------- MODULE FieldAlarmProofs --------------------------
(***************************************************************************)
(* Type correctness of the field alarm, and that a rule never has two open *)
(* alerts for one device as long as operators' events land on open alerts, *)
(* for any keys, alerts, queue and faults.                                 *)
(***************************************************************************)
EXTENDS FieldAlarm, TLAPS

(* Every event names an alert, and so does a request under way.            *)
NamesAlerts ==
    /\ \A k \in Keys : latest[k].type # "none" => latest[k].alert \in Alerts
    /\ seen.type # "none" => seen.alert \in Alerts
    /\ operator.pc # "idle" => operator.alert \in Alerts

TInv == TypeOK /\ NamesAlerts

(* Sequences of any kind of element.                                       *)
LEMMA Queues ==
  ASSUME NEW S, NEW q \in Seq(S)
  PROVE  /\ \A x \in S : Append(q, x) \in Seq(S)
         /\ q # <<>> => Tail(q) \in Seq(S)
  OBVIOUS

LEMMA EmptyQueue ==
  ASSUME NEW S
  PROVE  <<>> \in Seq(S)
  OBVIOUS

LEMMA InitTInv == Init => TInv
<1>1. AnyKey \in Keys
  BY AlarmAssumption DEF AnyKey
<1>2. NoEvent \in [alert : Alerts \cup {NoAlert}, type : EventTypes \cup {"none"}, kind : Kinds]
  BY DEF NoEvent, Kinds
<1>3. Idle \in [pc : {"idle", "waiting", "accepted"}, type : {"ACK", "RESOLVE"},
                alert : Alerts \cup {NoAlert}]
  BY DEF Idle
<1>4. NoEvent.type = "none" /\ Idle.pc = "idle"
  BY DEF NoEvent, Idle
<1>5. <<>> \in Seq([action : Actions, by : {"engine", "operator"}])
  BY EmptyQueue
<1>6. ASSUME Init PROVE TypeOK
  <2>1. /\ status \in [Alerts -> {"none", "active", "acked", "resolved"}]
        /\ owner \in [Alerts -> Keys]
        /\ noticed \in [Keys -> BOOLEAN] /\ cooling \in [Keys -> BOOLEAN]
        /\ ekey \in Keys /\ reading \in Readings /\ siren \in BOOLEAN
    BY <1>1, <1>6 DEF Init, Readings
  <2>2. latest \in [Keys -> [alert : Alerts \cup {NoAlert}, type : EventTypes \cup {"none"},
                            kind : Kinds]]
    BY <1>2, <1>6 DEF Init
  <2> QED BY <1>2, <1>3, <1>5, <1>6, <2>1, <2>2 DEF Init, TypeOK
<1> QED BY <1>4, <1>6 DEF Init, TInv, NamesAlerts

-----------------------------------------------------------------------------
(* An event written about an existing alert keeps alerts and events typed. *)
LEMMA RecordTyped ==
  ASSUME TInv, NEW k \in Keys, NEW a \in Alerts, NEW type \in EventTypes, NEW kind \in Kinds,
         Record(k, a, type, kind)
  PROVE  /\ status' \in [Alerts -> {"none", "active", "acked", "resolved"}]
         /\ owner' \in [Alerts -> Keys]
         /\ latest' \in [Keys -> [alert : Alerts \cup {NoAlert}, type : EventTypes \cup {"none"},
                                  kind : Kinds]]
         /\ noticed' \in [Keys -> BOOLEAN]
         /\ \A j \in Keys : latest'[j].type # "none" => latest'[j].alert \in Alerts
<1>1. StatusAfter[type] \in {"active", "acked", "resolved"}
  BY DEF StatusAfter, EventTypes
<1>2. [alert |-> a, type |-> type, kind |-> kind] \in
        [alert : Alerts \cup {NoAlert}, type : EventTypes \cup {"none"}, kind : Kinds]
  OBVIOUS
<1>3. /\ status' \in [Alerts -> {"none", "active", "acked", "resolved"}]
      /\ owner' \in [Alerts -> Keys]
  BY <1>1 DEF Record, TInv, TypeOK
<1>4. noticed' \in [Keys -> BOOLEAN]
  BY DEF Record, TInv, TypeOK
<1>5. latest' \in [Keys -> [alert : Alerts \cup {NoAlert}, type : EventTypes \cup {"none"},
                            kind : Kinds]]
  BY <1>2 DEF Record, TInv, TypeOK
<1>6. \A j \in Keys : latest'[j].type # "none" => latest'[j].alert \in Alerts
  BY DEF Record, TInv, TypeOK, NamesAlerts
<1> QED BY <1>3, <1>4, <1>5, <1>6

LEMMA RequestTyped ==
  ASSUME TInv, NEW action \in Actions, NEW by \in {"engine", "operator"}, Request(action, by)
  PROVE  queue' \in Seq([action : Actions, by : {"engine", "operator"}])
<1>1. [action |-> action, by |-> by] \in [action : Actions, by : {"engine", "operator"}]
  OBVIOUS
<1>2. queue \in Seq([action : Actions, by : {"engine", "operator"}])
  BY DEF TInv, TypeOK
<1> QED BY <1>1, <1>2, Queues DEF Request

LEMMA EngineTInv ==
  ASSUME TInv, \/ \E k \in Keys, r \in Readings : EngineLoad(k, r)
               \/ EngineStep
               \/ \E k \in Keys : CooldownEnds(k)
               \/ EngineRestart
  PROVE  TInv'
<1> USE DEF alertVars, actuatorVars
<1>1. ASSUME NEW k \in Keys, NEW r \in Readings, EngineLoad(k, r) PROVE TInv'
  BY <1>1 DEF EngineLoad, TInv, TypeOK, NamesAlerts
<1>2. CASE EngineMissingRecovered
  <2>1. seen.alert \in Alerts /\ "RESOLVE" \in EventTypes /\ "missing" \in Kinds /\ ekey \in Keys
    BY <1>2 DEF EngineMissingRecovered, IsOpen, IsActive, IsAcked, TInv, TypeOK, NamesAlerts,
                EventTypes, Kinds
  <2>2. Record(ekey, seen.alert, "RESOLVE", "missing")
    BY <1>2 DEF EngineMissingRecovered
  <2>3. /\ seen' \in [alert : Alerts \cup {NoAlert}, type : EventTypes \cup {"none"}, kind : Kinds]
        /\ seen'.alert = seen.alert
        /\ epc' \in {"idle", "decide", "publish"}
    BY <1>2, <2>1 DEF EngineMissingRecovered, TInv, TypeOK
  <2> QED BY <1>2, <2>1, <2>2, <2>3, RecordTyped
          DEF EngineMissingRecovered, TInv, TypeOK, NamesAlerts
<1>3. CASE EngineTrigger
  <2>1. PICK a \in Alerts : Record(ekey, a, "TRIGGER", IF reading = "missing" THEN "missing" ELSE "rule")
    BY <1>3 DEF EngineTrigger
  <2>2. "TRIGGER" \in EventTypes /\ {"missing", "rule"} \subseteq Kinds /\ ekey \in Keys
    BY DEF TInv, TypeOK, EventTypes, Kinds
  <2> QED BY <1>3, <2>1, <2>2, RecordTyped DEF EngineTrigger, TInv, TypeOK, NamesAlerts
<1>4. CASE EngineResolve
  <2>1. seen.alert \in Alerts /\ "RESOLVE" \in EventTypes /\ "rule" \in Kinds /\ ekey \in Keys
    BY <1>4 DEF EngineResolve, IsOpen, IsActive, IsAcked, TInv, TypeOK, NamesAlerts,
                EventTypes, Kinds
  <2> QED BY <1>4, <2>1, RecordTyped DEF EngineResolve, TInv, TypeOK, NamesAlerts
<1>5. CASE EngineReconcile \/ EngineActuate
  <2>1. queue' \in Seq([action : Actions, by : {"engine", "operator"}])
    BY <1>5, RequestTyped DEF EngineReconcile, EngineActuate, AskForSiren, Actions, TInv, TypeOK
  <2>2. cooling' \in [Keys -> BOOLEAN]
    BY <1>5 DEF EngineReconcile, EngineActuate, AskForSiren, TInv, TypeOK
  <2> QED BY <1>5, <2>1, <2>2 DEF EngineReconcile, EngineActuate, TInv, TypeOK, NamesAlerts
<1>6. CASE EngineIgnore \/ EnginePublishFails \/ EngineRestart
  BY <1>6 DEF EngineIgnore, EnginePublishFails, EngineRestart, TInv, TypeOK, NamesAlerts
<1>7. ASSUME NEW k \in Keys, CooldownEnds(k) PROVE TInv'
  BY <1>7 DEF CooldownEnds, TInv, TypeOK, NamesAlerts
<1> QED BY <1>1, <1>2, <1>3, <1>4, <1>5, <1>6, <1>7 DEF EngineStep

LEMMA ApiTInv ==
  ASSUME TInv, \/ \E a \in Alerts, t \in {"ACK", "RESOLVE"} : AlertAction(a, t) \/ ReviewCall(a, t)
               \/ \E x \in Actions : SirenAction(x)
               \/ ReviewRecord \/ ReviewNotRecorded \/ ReviewTimeout
  PROVE  TInv'
<1> USE DEF alertVars, actuatorVars, engineVars
<1>1. ASSUME NEW a \in Alerts, NEW t \in {"ACK", "RESOLVE"}, AlertAction(a, t) PROVE TInv'
  <2>1. owner[a] \in Keys /\ t \in EventTypes /\ "manual" \in Kinds
    BY DEF TInv, TypeOK, EventTypes, Kinds
  <2> QED BY <1>1, <2>1, RecordTyped DEF AlertAction, TInv, TypeOK, NamesAlerts
<1>2. ASSUME NEW a \in Alerts, NEW t \in {"ACK", "RESOLVE"}, ReviewCall(a, t) PROVE TInv'
  <2>1. queue' \in Seq([action : Actions, by : {"engine", "operator"}])
    BY <1>2, RequestTyped DEF ReviewCall, Actions
  <2>2. operator' \in {Idle, [pc |-> "waiting", type |-> t, alert |-> a]}
    BY <1>2 DEF ReviewCall
  <2> QED BY <1>2, <2>1, <2>2 DEF ReviewCall, TInv, TypeOK, NamesAlerts, Idle, EventTypes, NoAlert
<1>3. ASSUME NEW x \in Actions, SirenAction(x) PROVE TInv'
  <2>1. queue' \in Seq([action : Actions, by : {"engine", "operator"}])
    BY <1>3, RequestTyped DEF SirenAction
  <2> QED BY <1>3, <2>1 DEF SirenAction, TInv, TypeOK, NamesAlerts
<1>4. CASE ReviewRecord
  <2>1. /\ operator.alert \in Alerts /\ operator.type \in EventTypes
        /\ owner[operator.alert] \in Keys /\ "review" \in Kinds
    BY <1>4 DEF ReviewRecord, TInv, TypeOK, NamesAlerts, Kinds, EventTypes
  <2>2. operator' = Idle
    BY <1>4 DEF ReviewRecord
  <2> QED BY <1>4, <2>1, <2>2, RecordTyped
          DEF ReviewRecord, TInv, TypeOK, NamesAlerts, Idle, EventTypes, NoAlert
<1>5. CASE ReviewNotRecorded \/ ReviewTimeout
  BY <1>5 DEF ReviewNotRecorded, ReviewTimeout, TInv, TypeOK, NamesAlerts, Idle, EventTypes, NoAlert
<1> QED BY <1>1, <1>2, <1>3, <1>4, <1>5

LEMMA ActuatorTInv ==
  ASSUME TInv, \/ ActuatorRuns \/ ActuatorFails \/ ReconcileFetch \/ ReconcileActs
               \/ ReconcileFails \/ ActuatorRestart
  PROVE  TInv'
<1> USE DEF alertVars, engineVars
<1>1. CASE ActuatorRuns \/ ActuatorFails
  <2>1. queue' \in Seq([action : Actions, by : {"engine", "operator"}])
    <3>1. queue \in Seq([action : Actions, by : {"engine", "operator"}])
      BY DEF TInv, TypeOK
    <3>2. queue # <<>> /\ queue' = Tail(queue)
      BY <1>1 DEF ActuatorRuns, ActuatorFails
    <3> QED BY <3>1, <3>2, Queues
  <2>2. siren' \in BOOLEAN /\ state' \in {"idle", "active", "silenced", "failed"}
    BY <1>1 DEF ActuatorRuns, ActuatorFails, WriteOk, WriteFails, Sounds, StateOf, TInv, TypeOK
  <2>3. operator' \in {operator, Idle, [operator EXCEPT !.pc = "accepted"]}
        /\ (operator' = [operator EXCEPT !.pc = "accepted"] => operator'  = operator \/ operator.pc = "waiting")
    BY <1>1 DEF ActuatorRuns, ActuatorFails, Answer
  <2> QED BY <1>1, <2>1, <2>2, <2>3
          DEF ActuatorRuns, ActuatorFails, TInv, TypeOK, NamesAlerts, Idle, EventTypes, NoAlert
<1>2. CASE ReconcileFetch
  BY <1>2 DEF ReconcileFetch, TInv, TypeOK, NamesAlerts
<1>3. CASE ReconcileActs \/ ReconcileFails
  <2>1. siren' \in BOOLEAN /\ state' \in {"idle", "active", "silenced", "failed"}
    BY <1>3 DEF ReconcileActs, ReconcileFails, WriteOk, WriteFails, Sounds, StateOf, TInv, TypeOK
  <2> QED BY <1>3, <2>1 DEF ReconcileActs, ReconcileFails, TInv, TypeOK, NamesAlerts
<1>4. CASE ActuatorRestart
  BY <1>4 DEF ActuatorRestart, TInv, TypeOK, NamesAlerts, Idle, EventTypes, NoAlert
<1> QED BY <1>1, <1>2, <1>3, <1>4

LEMMA NextTInv == TInv /\ [Next]_vars => TInv'
<1>1. ASSUME TInv, UNCHANGED vars PROVE TInv'
  BY <1>1 DEF vars, TInv, TypeOK, NamesAlerts
<1> QED BY <1>1, EngineTInv, ApiTInv, ActuatorTInv DEF Next

(* Every variable keeps its type, and what is recorded names an alert that *)
(* exists, whatever fails and whatever operators' events land on.          *)
THEOREM AlarmTypeCorrect == Spec => []TypeOK
  BY InitTInv, NextTInv, PTL DEF Spec, TInv
-----------------------------------------------------------------------------
(* An open alert is the one of the last event of its rule and device,      *)
(* which is not a RESOLVE.                                                 *)
OpenIsLatest ==
    \A a \in Alerts : Open(a) =>
        latest[owner[a]].alert = a /\ latest[owner[a]].type \in {"TRIGGER", "ACK"}

(* What the engine read still names that alert, and if it read that there  *)
(* is no open one there is still none: operators act on open alerts only,  *)
(* and none but the engine opens one.                                      *)
SeenIsCurrent ==
    epc = "decide" =>
        \A a \in Alerts : Open(a) /\ owner[a] = ekey => IsOpen /\ seen.alert = a

AInv == TInv /\ OpenIsLatest /\ SeenIsCurrent

LEMMA InitAInv == Init => AInv
  BY InitTInv DEF Init, AInv, OpenIsLatest, SeenIsCurrent, Open

(* Steps that write no event, and leave what the engine read alone or the  *)
(* engine undecided, keep both.                                            *)
LEMMA NoEventWritten ==
  ASSUME AInv, UNCHANGED <<status, owner, latest>>,
         UNCHANGED <<epc, ekey, seen>> \/ epc' # "decide"
  PROVE  OpenIsLatest' /\ SeenIsCurrent'
  BY DEF AInv, OpenIsLatest, SeenIsCurrent, Open, IsOpen, IsActive, IsAcked

(* An operator's event on an open alert.                                   *)
LEMMA OperatorEvent ==
  ASSUME AInv, NEW a \in Alerts, Open(a), NEW type \in {"ACK", "RESOLVE"}, NEW kind \in Kinds,
         Record(owner[a], a, type, kind), UNCHANGED <<epc, ekey, seen>>
  PROVE  OpenIsLatest' /\ SeenIsCurrent'
<1>1. /\ status' = [status EXCEPT ![a] = IF type = "ACK" THEN "acked" ELSE "resolved"]
      /\ owner' = owner
      /\ latest' = [latest EXCEPT ![owner[a]] = [alert |-> a, type |-> type, kind |-> kind]]
      /\ owner[a] \in Keys
  <2>1. StatusAfter[type] = IF type = "ACK" THEN "acked" ELSE "resolved"
    BY DEF StatusAfter
  <2>2. owner \in [Alerts -> Keys]
    BY DEF AInv, TInv, TypeOK
  <2> QED BY <2>1, <2>2 DEF Record
<1>2. \A b \in Alerts : Open(b)' => Open(b) /\ (b = a => type = "ACK")
  BY <1>1 DEF Open, AInv, TInv, TypeOK
<1>3. \A b \in Alerts : Open(b) /\ owner[b] = owner[a] => b = a
  BY DEF AInv, OpenIsLatest
<1>4. OpenIsLatest'
  BY <1>1, <1>2, <1>3 DEF OpenIsLatest, AInv, TInv, TypeOK
<1>5. SeenIsCurrent'
  BY <1>1, <1>2 DEF SeenIsCurrent, AInv, IsOpen, IsActive, IsAcked
<1> QED BY <1>4, <1>5

(* The engine's RESOLVE of the alert it read, open by now or not.          *)
LEMMA EngineEvent ==
  ASSUME AInv, epc = "decide", IsOpen, NEW kind \in Kinds,
         Record(ekey, seen.alert, "RESOLVE", kind), UNCHANGED ekey
  PROVE  OpenIsLatest' /\ SeenIsCurrent'
<1>1. seen.alert \in Alerts /\ ekey \in Keys
  BY DEF IsOpen, IsActive, IsAcked, AInv, TInv, TypeOK, NamesAlerts
<1>2. /\ status' = [status EXCEPT ![seen.alert] = "resolved"]
      /\ owner' = [owner EXCEPT ![seen.alert] = ekey]
      /\ latest' = [latest EXCEPT ![ekey] =
                       [alert |-> seen.alert, type |-> "RESOLVE", kind |-> kind]]
  BY DEF Record, StatusAfter
<1>3. \A b \in Alerts : Open(b)' => Open(b) /\ b # seen.alert /\ owner'[b] = owner[b]
  BY <1>1, <1>2 DEF Open, AInv, TInv, TypeOK
<1>4. \A b \in Alerts : Open(b)' => owner'[b] # ekey
  BY <1>3 DEF AInv, SeenIsCurrent
<1>5. OpenIsLatest'
  BY <1>1, <1>2, <1>3, <1>4 DEF OpenIsLatest, AInv, TInv, TypeOK
<1>6. SeenIsCurrent'
  BY <1>4 DEF SeenIsCurrent
<1> QED BY <1>5, <1>6

LEMMA NextAInv ==
  ASSUME ~StaleOperator, AInv, [Next]_vars
  PROVE  AInv'
<1> USE DEF alertVars, actuatorVars, engineVars
<1> DEFINE Goal == OpenIsLatest' /\ SeenIsCurrent'
<1>0. SUFFICES Goal
  BY NextTInv DEF AInv
<1>1. ASSUME NEW k \in Keys, NEW r \in Readings, EngineLoad(k, r) PROVE Goal
  <2>1. /\ UNCHANGED <<status, owner, latest>>
        /\ ekey' = k /\ seen' = latest[k]
    BY <1>1 DEF EngineLoad
  <2>2. OpenIsLatest'
    BY <2>1 DEF AInv, OpenIsLatest, Open
  <2>3. SeenIsCurrent'
    BY <2>1 DEF AInv, OpenIsLatest, SeenIsCurrent, Open, IsOpen, IsActive, IsAcked
  <2> QED BY <2>2, <2>3
<1>2. CASE EngineMissingRecovered \/ EngineResolve
  <2>1. "missing" \in Kinds /\ "rule" \in Kinds
    BY DEF Kinds
  <2> QED BY <1>2, <2>1, EngineEvent DEF EngineMissingRecovered, EngineResolve
<1>3. CASE EngineTrigger
  <2>1. PICK a \in Alerts, kind \in {"missing", "rule"} :
            status[a] = "none" /\ Record(ekey, a, "TRIGGER", kind)
    BY <1>3 DEF EngineTrigger
  <2>2. /\ status' = [status EXCEPT ![a] = "active"]
        /\ owner' = [owner EXCEPT ![a] = ekey]
        /\ latest' = [latest EXCEPT ![ekey] = [alert |-> a, type |-> "TRIGGER", kind |-> kind]]
        /\ ekey \in Keys
    BY <2>1 DEF Record, StatusAfter, AInv, TInv, TypeOK
  <2>3. \A b \in Alerts : Open(b) => owner[b] # ekey
    BY <1>3 DEF EngineTrigger, AInv, SeenIsCurrent
  <2>4. OpenIsLatest'
    BY <2>2, <2>3 DEF OpenIsLatest, Open, AInv, TInv, TypeOK
  <2>5. SeenIsCurrent'
    BY <1>3 DEF EngineTrigger, SeenIsCurrent
  <2> QED BY <2>4, <2>5
<1>4. CASE EngineReconcile \/ EngineIgnore \/ EngineActuate \/ EnginePublishFails \/ EngineRestart
  BY <1>4, NoEventWritten
  DEF EngineReconcile, EngineIgnore, EngineActuate, EnginePublishFails, EngineRestart
<1>5. ASSUME NEW k \in Keys, CooldownEnds(k) PROVE Goal
  BY <1>5, NoEventWritten DEF CooldownEnds
<1>6. ASSUME NEW a \in Alerts, NEW t \in {"ACK", "RESOLVE"}, AlertAction(a, t) PROVE Goal
  <2>1. Open(a) /\ "manual" \in Kinds
    BY <1>6 DEF AlertAction, MayActOn, Open, Kinds
  <2> QED BY <1>6, <2>1, OperatorEvent DEF AlertAction
<1>7. CASE ReviewRecord
  <2>1. /\ operator.alert \in Alerts /\ Open(operator.alert) /\ "review" \in Kinds
    BY <1>7 DEF ReviewRecord, MayActOn, Open, Kinds, AInv, TInv, NamesAlerts
  <2>2. operator.type \in {"ACK", "RESOLVE"}
    BY DEF AInv, TInv, TypeOK
  <2> QED BY <1>7, <2>1, <2>2, OperatorEvent DEF ReviewRecord
<1>8. ASSUME NEW a \in Alerts, NEW t \in {"ACK", "RESOLVE"}, ReviewCall(a, t) PROVE Goal
  BY <1>8, NoEventWritten DEF ReviewCall
<1>9. ASSUME NEW x \in Actions, SirenAction(x) PROVE Goal
  BY <1>9, NoEventWritten DEF SirenAction
<1>10. CASE ReviewNotRecorded \/ ReviewTimeout \/ UNCHANGED vars
  BY <1>10, NoEventWritten DEF ReviewNotRecorded, ReviewTimeout, vars
<1>11. CASE \/ ActuatorRuns \/ ActuatorFails \/ ReconcileFetch \/ ReconcileActs
            \/ ReconcileFails \/ ActuatorRestart
  BY <1>11, NoEventWritten
  DEF ActuatorRuns, ActuatorFails, ReconcileFetch, ReconcileActs, ReconcileFails, ActuatorRestart
<1> QED BY <1>1, <1>2, <1>3, <1>4, <1>5, <1>6, <1>7, <1>8, <1>9, <1>10, <1>11
        DEF Next, EngineStep

(* If operators' events land on open alerts, a rule never has two open     *)
(* alerts for one device: for any number of keys and alerts, any faults,   *)
(* and any interleaving of the engine with the operators.                  *)
THEOREM AlarmOneOpenAlert ==
  ASSUME ~StaleOperator
  PROVE  Spec => []OneOpenAlert
<1>1. AInv => OneOpenAlert
  BY DEF AInv, OpenIsLatest, OneOpenAlert
<1>2. AInv /\ [Next]_vars => AInv'
  BY NextAInv
<1> QED BY <1>1, <1>2, InitAInv, PTL DEF Spec
=============================================================================
