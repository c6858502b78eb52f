----------------------------- MODULE FieldAlarm -----------------------------
(***************************************************************************)
(* From a rule's verdict on a telemetry message to the siren in the field: *)
(* rule-engine-worker, which opens and resolves alerts and calls the alarm *)
(* actuator; the API, through which operators acknowledge and resolve; and *)
(* rk3568-alarm-actuator, which runs the actions it is asked for one at a  *)
(* time and reconciles the siren with the alerts the platform lists.       *)
(*                                                                         *)
(* All alerts are of severity high or critical: the others never reach the *)
(* siren.  Of the table alert_events only what is read back is kept: the   *)
(* last event of each alert, and the last event of each pair of rule and   *)
(* device, here called a key.                                              *)
(***************************************************************************)
EXTENDS Naturals, Sequences, FiniteSets

CONSTANTS
    Keys,            \* pairs of an active rule and a device it applies to
    RaisesMissing,   \* those whose missing policy is raise_missing_alert
    MaxAlerts,       \* bound: alerts ever opened
    MaxQueue,        \* bound: actions waiting in the actuator
    Faults,          \* which of FaultKinds may happen
    StaleOperator    \* operators' events may land on alerts resolved meanwhile

FaultKinds ==
    {"publish",      \* a Kafka send fails
     "http",         \* a request to the actuator is lost or times out
     "database",     \* the API's insert fails
     "serial",       \* a write to the siren fails, no frame sent
     "partial",      \* a write to the siren fails, the frames sent
     "lost",         \* a write succeeds, the frames lost
     "restart"}      \* a process restarts

ASSUME AlarmAssumption ==
    /\ IsFiniteSet(Keys) /\ Keys # {} /\ RaisesMissing \subseteq Keys
    /\ MaxAlerts \in Nat /\ MaxQueue \in Nat
    /\ Faults \subseteq FaultKinds
    /\ StaleOperator \in BOOLEAN

VARIABLES
    status,     \* of each alert, by its last event; "none" before it exists
    owner,      \* the key of each alert
    latest,     \* the last event of each key: [alert, type, kind]
    noticed,    \* the last event of a key is no review's resolve, or the engine saw it
    cooling,    \* the siren was asked for this key in the last 30 seconds
    epc,        \* where the engine is
    ekey,       \* the key it evaluates
    reading,    \* what the message says of the key
    seen,       \* the last event of the key as the engine read it
    queue,      \* actions waiting in the actuator: [action, by]
    state,      \* what the actuator believes
    siren,      \* whether the siren sounds
    recon,      \* the platform's list as the reconciliation under way read it
    operator    \* the field-alarm request under way: [pc, type, alert]

alertVars    == <<status, owner, latest, noticed>>
engineVars   == <<cooling, epc, ekey, reading, seen>>
actuatorVars == <<queue, state, siren, recon>>
vars == <<status, owner, latest, noticed, cooling, epc, ekey, reading, seen,
          queue, state, siren, recon, operator>>

Alerts     == 1..MaxAlerts
NoAlert    == 0
EventTypes == {"TRIGGER", "ACK", "RESOLVE"}
Readings   == {"triggered", "band", "normal", "missing"}
Actions    == {"alarm_on", "alarm_off", "silence"}
Kinds      == {"rule", "missing", "manual", "review", "none"}
NoEvent    == [alert |-> NoAlert, type |-> "none", kind |-> "none"]
AnyKey     == CHOOSE k \in Keys : TRUE
Idle       == [pc |-> "idle", type |-> "ACK", alert |-> NoAlert]

Init ==
    /\ status = [a \in Alerts |-> "none"]
    /\ owner = [a \in Alerts |-> AnyKey]
    /\ latest = [k \in Keys |-> NoEvent]
    /\ noticed = [k \in Keys |-> TRUE]
    /\ cooling = [k \in Keys |-> FALSE]
    /\ epc = "idle" /\ ekey = AnyKey /\ reading = "normal" /\ seen = NoEvent
    /\ queue = <<>> /\ state = "idle" /\ siren = FALSE /\ recon = "none"
    /\ operator = Idle

StatusAfter == [TRIGGER |-> "active", ACK |-> "acked", RESOLVE |-> "resolved"]

(* A row is appended to alert_events.  Nothing is asked of the alert's     *)
(* earlier events.  The kind tells the evidence's kind, rule or missing,   *)
(* or its source, which for operators is all there is.                     *)
Record(k, a, type, kind) ==
    /\ status' = [status EXCEPT ![a] = StatusAfter[type]]
    /\ owner' = [owner EXCEPT ![a] = k]
    /\ latest' = [latest EXCEPT ![k] = [alert |-> a, type |-> type, kind |-> kind]]
    /\ noticed' = [noticed EXCEPT ![k] = ~(type = "RESOLVE" /\ kind = "review")]

(* An HTTP request reaches the actuator, or is lost.                       *)
Request(action, by) ==
    \/ Len(queue) < MaxQueue /\ queue' = Append(queue, [action |-> action, by |-> by])
    \/ "http" \in Faults /\ queue' = queue
-----------------------------------------------------------------------------
(***************************************************************************)
(* rule-engine-worker.  It handles one message and one rule at a time.  A  *)
(* reading is the verdict of the rule's condition and window: triggered,   *)
(* recovered (normal), neither because of the hysteresis (band), or data   *)
(* missing.                                                                *)
(***************************************************************************)
EngineLoad(k, r) ==
    /\ epc = "idle"
    /\ r = "missing" => k \in RaisesMissing
    /\ epc' = "decide" /\ ekey' = k /\ reading' = r /\ seen' = latest[k]
    /\ noticed' = [noticed EXCEPT ![k] = TRUE]
    /\ cooling' = [cooling EXCEPT ![k] = noticed[k] /\ @]
    /\ UNCHANGED <<status, owner, latest, actuatorVars, operator>>

IsActive == seen.type = "TRIGGER"
IsAcked  == seen.type = "ACK"

(* Mutant: an acknowledged alert does not count.                           *)
IsOpenActive == IsActive
IsOpen   == IsActive \/ IsAcked

(* The data of a missing alert are back: it is resolved, and the message   *)
(* is evaluated further.                                                   *)
EngineMissingRecovered ==
    /\ epc = "decide" /\ IsOpen /\ seen.kind = "missing" /\ reading # "missing"
    /\ Record(ekey, seen.alert, "RESOLVE", "missing")
    /\ \/ seen' = [seen EXCEPT !.type = "RESOLVE"] /\ UNCHANGED epc
       \/ "publish" \in Faults /\ epc' = "idle" /\ UNCHANGED seen
    /\ UNCHANGED <<cooling, ekey, reading, actuatorVars, operator>>

Recovering == IsOpen /\ seen.kind = "missing" /\ reading # "missing"

EngineTrigger ==
    /\ epc = "decide" /\ ~IsOpen /\ reading \in {"triggered", "missing"}
    /\ \E a \in Alerts :
        /\ status[a] = "none" /\ \A b \in Alerts : b < a => status[b] # "none"
        /\ Record(ekey, a, "TRIGGER", IF reading = "missing" THEN "missing" ELSE "rule")
    /\ epc' = "publish"
    /\ UNCHANGED <<cooling, ekey, reading, seen, actuatorVars, operator>>

EngineResolve ==
    /\ epc = "decide" /\ IsOpen /\ ~Recovering /\ reading = "normal"
    /\ Record(ekey, seen.alert, "RESOLVE", "rule")
    /\ epc' = "publish"
    /\ UNCHANGED <<cooling, ekey, reading, seen, actuatorVars, operator>>

(* The siren is asked for at most once in thirty seconds for a key.        *)
AskForSiren ==
    IF cooling[ekey]
    THEN UNCHANGED <<cooling, queue>>
    ELSE cooling' = [cooling EXCEPT ![ekey] = TRUE] /\ Request("alarm_on", "engine")

(* The condition holds and the alert is active: the siren is asked for     *)
(* again.                                                                  *)
EngineReconcile ==
    /\ epc = "decide" /\ reading = "triggered" /\ IsActive /\ seen.kind = "rule"
    /\ AskForSiren
    /\ epc' = "idle"
    /\ UNCHANGED <<ekey, reading, seen, alertVars, state, siren, recon, operator>>

(* Nothing to do, which for a closed alert includes the rule's cooldown.   *)
EngineIgnore ==
    /\ epc = "decide" /\ ~Recovering
    /\ \/ reading = "missing" /\ IsOpen
       \/ reading = "triggered" /\ IsOpen /\ ~(IsActive /\ seen.kind = "rule")
       \/ reading = "triggered" /\ ~IsOpen /\ seen.type # "none"
       \/ reading = "normal" /\ ~IsOpen
       \/ reading = "band"
    /\ epc' = "idle"
    /\ UNCHANGED <<cooling, ekey, reading, seen, alertVars, actuatorVars, operator>>

(* The event is published and the siren called, for rule alerts only.      *)
EngineActuate ==
    /\ epc = "publish"
    /\ IF reading = "triggered" THEN AskForSiren
       ELSE IF reading = "normal" THEN Request("silence", "engine") /\ UNCHANGED cooling
       ELSE UNCHANGED <<cooling, queue>>
    /\ epc' = "idle"
    /\ UNCHANGED <<ekey, reading, seen, alertVars, state, siren, recon, operator>>

(* Kafka fails: the message is handled again, but the row is there.        *)
EnginePublishFails ==
    /\ "publish" \in Faults
    /\ epc = "publish"
    /\ epc' = "idle"
    /\ UNCHANGED <<cooling, ekey, reading, seen, alertVars, actuatorVars, operator>>

CooldownEnds(k) ==
    /\ cooling[k]
    /\ cooling' = [cooling EXCEPT ![k] = FALSE]
    /\ UNCHANGED <<epc, ekey, reading, seen, alertVars, actuatorVars, operator>>

(* What the engine had noticed is forgotten as well, to no effect: with    *)
(* cooling gone there is nothing left to reset.                            *)
EngineRestart ==
    /\ "restart" \in Faults
    /\ epc' = "idle"
    /\ cooling' = [k \in Keys |-> FALSE]
    /\ UNCHANGED <<ekey, reading, seen, alertVars, actuatorVars, operator>>
-----------------------------------------------------------------------------
(***************************************************************************)
(* The API.                                                                *)
(***************************************************************************)
MayActOn(a) ==
    status[a] \in {"active", "acked"} \cup (IF StaleOperator THEN {"resolved"} ELSE {})

(* POST /alerts/:alertId/ack and /resolve: the siren is not called.        *)
AlertAction(a, type) ==
    /\ MayActOn(a)
    /\ Record(owner[a], a, type, "manual")
    /\ UNCHANGED <<cooling, epc, ekey, reading, seen, actuatorVars, operator>>

(* POST /field-alarm/actions with alarm_on, alarm_off or silence.          *)
SirenAction(action) ==
    /\ Request(action, "engine")
    /\ UNCHANGED <<alertVars, engineVars, state, siren, recon, operator>>

(* ... with ack or resolve: the siren first,                               *)
ReviewCall(a, type) ==
    /\ operator.pc = "idle" /\ MayActOn(a)
    /\ Request(IF type = "ACK" THEN "silence" ELSE "alarm_off", "operator")
    /\ operator' = IF queue' = queue THEN Idle
                   ELSE [pc |-> "waiting", type |-> type, alert |-> a]
    /\ UNCHANGED <<alertVars, engineVars, state, siren, recon>>

(* then the event, if the actuator accepted, and without another look at   *)
(* the alert.                                                              *)
ReviewRecord ==
    /\ operator.pc = "accepted" /\ MayActOn(operator.alert)
    /\ Record(owner[operator.alert], operator.alert, operator.type, "review")
    /\ operator' = Idle
    /\ UNCHANGED <<cooling, epc, ekey, reading, seen, actuatorVars>>

(* The siren was called, but the event is not recorded.                    *)
ReviewNotRecorded ==
    /\ "database" \in Faults
    /\ operator.pc = "accepted"
    /\ operator' = Idle
    /\ UNCHANGED <<alertVars, engineVars, actuatorVars>>

(* The call times out; the actuator may still run the action.              *)
ReviewTimeout ==
    /\ "http" \in Faults
    /\ operator.pc = "waiting"
    /\ operator' = Idle
    /\ UNCHANGED <<alertVars, engineVars, actuatorVars>>
-----------------------------------------------------------------------------
(***************************************************************************)
(* rk3568-alarm-actuator.  HTTP actions and reconciliations share one      *)
(* queue and never overlap.                                                *)
(***************************************************************************)
Sounds(action)   == action = "alarm_on"
StateOf(action)  == IF Sounds(action) THEN "active" ELSE "silenced"

(* The serial write succeeds; without echo a lost frame looks the same.    *)
WriteOk(action) ==
    /\ siren' \in {Sounds(action)} \cup (IF "lost" \in Faults THEN {siren} ELSE {})
    /\ state' = StateOf(action)

(* The serial write fails, perhaps after the frames went out.              *)
WriteFails(action) ==
    /\ "serial" \in Faults
    /\ siren' \in {siren} \cup (IF "partial" \in Faults THEN {Sounds(action)} ELSE {})

(* Mutant: a failure is passed on as a state of its own.                   *)
AnswerFailed(result) ==
    operator' = IF Head(queue).by = "operator" /\ operator.pc = "waiting"
                THEN [operator EXCEPT !.pc = IF result = "ok" THEN "accepted" ELSE "failed"]
                ELSE operator

Answer(result) ==
    operator' = IF Head(queue).by = "operator" /\ operator.pc = "waiting"
                THEN IF result = "ok" THEN [operator EXCEPT !.pc = "accepted"] ELSE Idle
                ELSE operator

ActuatorRuns ==
    /\ recon = "none" /\ queue # <<>>
    /\ WriteOk(Head(queue).action)
    /\ Answer("ok")
    /\ queue' = Tail(queue)
    /\ UNCHANGED <<alertVars, engineVars, recon>>

ActuatorFails ==
    /\ recon = "none" /\ queue # <<>>
    /\ WriteFails(Head(queue).action)
    /\ state' = "failed"
    /\ Answer("error")
    /\ queue' = Tail(queue)
    /\ UNCHANGED <<alertVars, engineVars, recon>>

Open(a) == status[a] \in {"active", "acked"}
Listed == \E a \in Alerts : status[a] = "active"

(* Mutant: acknowledged alerts keep the siren on.                          *)
ReconcileFetchOpen ==
    /\ recon = "none"
    /\ recon' = IF \E a \in Alerts : Open(a) THEN "sound" ELSE "quiet"
    /\ UNCHANGED <<alertVars, engineVars, queue, state, siren, operator>>

(* Every three seconds the list of active alerts is fetched,               *)
ReconcileFetch ==
    /\ recon = "none"
    /\ recon' = IF Listed THEN "sound" ELSE "quiet"
    /\ UNCHANGED <<alertVars, engineVars, queue, state, siren, operator>>

(* Mutant: the siren is started from idle only.                            *)
NeededFromIdle ==
    IF recon = "sound" THEN state = "idle" ELSE recon = "quiet" /\ state = "active"

(* and compared with what the actuator believes.                           *)
Needed ==
    IF recon = "sound" THEN state # "active" ELSE recon = "quiet" /\ state = "active"
NeededAction == IF recon = "sound" THEN "alarm_on" ELSE "alarm_off"

ReconcileActs ==
    /\ recon # "none"
    /\ IF Needed THEN WriteOk(NeededAction) ELSE UNCHANGED <<siren, state>>
    /\ recon' = "none"
    /\ UNCHANGED <<alertVars, engineVars, queue, operator>>

(* Here a failed write leaves the actuator's belief as it was.             *)
ReconcileFails ==
    /\ recon # "none" /\ Needed
    /\ WriteFails(NeededAction)
    /\ recon' = "none"
    /\ UNCHANGED <<alertVars, engineVars, queue, state, operator>>

ActuatorRestart ==
    /\ "restart" \in Faults
    /\ state' = "idle" /\ queue' = <<>> /\ recon' = "none"
    /\ operator' = IF operator.pc = "waiting" THEN Idle ELSE operator
    /\ UNCHANGED <<alertVars, engineVars, siren>>
-----------------------------------------------------------------------------
EngineStep ==
    \/ EngineMissingRecovered \/ EngineTrigger \/ EngineResolve
    \/ EngineReconcile \/ EngineIgnore \/ EngineActuate \/ EnginePublishFails

Next ==
    \/ \E k \in Keys, r \in Readings : EngineLoad(k, r)
    \/ EngineStep
    \/ \E k \in Keys : CooldownEnds(k)
    \/ EngineRestart
    \/ \E a \in Alerts, t \in {"ACK", "RESOLVE"} : AlertAction(a, t) \/ ReviewCall(a, t)
    \/ \E x \in Actions : SirenAction(x)
    \/ ReviewRecord \/ ReviewNotRecorded \/ ReviewTimeout
    \/ ActuatorRuns \/ ActuatorFails
    \/ ReconcileFetch \/ ReconcileActs \/ ReconcileFails
    \/ ActuatorRestart

Spec == Init /\ [][Next]_vars

(* Only the actuator's timer is assumed: it fires for ever, the platform's *)
(* answer comes, and the write that follows is not failing, or cut short   *)
(* by a restart, every time.  Nothing is assumed of the engine, the        *)
(* devices, or the operators.                                              *)
FairSpec == Spec /\ WF_vars(ReconcileFetch) /\ SF_vars(ReconcileActs)
-----------------------------------------------------------------------------
TypeOK ==
    /\ status \in [Alerts -> {"none", "active", "acked", "resolved"}]
    /\ owner \in [Alerts -> Keys]
    /\ latest \in [Keys -> [alert : Alerts \cup {NoAlert},
                            type : EventTypes \cup {"none"},
                            kind : Kinds]]
    /\ noticed \in [Keys -> BOOLEAN] /\ cooling \in [Keys -> BOOLEAN]
    /\ epc \in {"idle", "decide", "publish"}
    /\ ekey \in Keys /\ reading \in Readings
    /\ seen \in [alert : Alerts \cup {NoAlert}, type : EventTypes \cup {"none"},
                 kind : Kinds]
    /\ queue \in Seq([action : Actions, by : {"engine", "operator"}])
    /\ state \in {"idle", "active", "silenced", "failed"}
    /\ siren \in BOOLEAN
    /\ recon \in {"none", "sound", "quiet"}
    /\ operator \in [pc : {"idle", "waiting", "accepted"}, type : {"ACK", "RESOLVE"},
                     alert : Alerts \cup {NoAlert}]

(* A rule never has two open alerts for one device, although the engine    *)
(* decides on an event it read earlier while operators write others; as    *)
(* long as what operators write lands on open alerts (StaleOperator).      *)
OneOpenAlert ==
    \A a, b \in Alerts : Open(a) /\ Open(b) /\ owner[a] = owner[b] => a = b

(* An active alert is heard: the siren sounds sooner or later unless the   *)
(* alert is acknowledged or resolved first, even if the engine's call is   *)
(* skipped in its cooldown, lost, or never made because Kafka failed, the  *)
(* actuator restarts, or another alert's recovery silences the siren.      *)
ActiveAlertIsHeard == Listed ~> (siren \/ ~Listed)

(* A siren nobody has a reason for is stopped, unless the actuator has     *)
(* lost track of it by a restart or a failed action: what it believes to   *)
(* be active without an active alert it silences.                          *)
SirenIsStopped ==
    (siren /\ state = "active" /\ ~Listed)
        ~> (~siren \/ Listed \/ state \in {"idle", "failed"})
=============================================================================
