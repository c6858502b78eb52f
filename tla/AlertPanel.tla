----------------------------- MODULE AlertPanel -----------------------------
(***************************************************************************)
(* The in-app alert of the HarmonyOS app's page (Index.ets): the alert on  *)
(* display, the queue behind it, and the mute button, which drive the      *)
(* alarm sound (module AlertAlarm has what its service does with the       *)
(* calls).  An event is known by its alert: no service writes              *)
(* ALERT_UPDATE, and a severity only matters to an update.  The overlay    *)
(* can be hidden and shown again while an alert is on display; nothing     *)
(* here depends on it.                                                     *)
(***************************************************************************)
EXTENDS Sequences, SequencesExt

VARIABLES
    activeAlert,      \* activeAlertEvent
    queue,            \* alertEventQueue
    muted,            \* alertAlarmMuted
    desiredPlaying    \* the last call to the alarm service was start()

panelVars == <<activeAlert, queue, muted, desiredPlaying>>

NoAlert == "none"

PanelInit ==
    /\ activeAlert = NoAlert
    /\ queue = <<>>
    /\ muted = FALSE
    /\ desiredPlaying = FALSE

StartAlarm == desiredPlaying' = TRUE
StopAlarm == desiredPlaying' = FALSE

(* Mutant: the alarm of a muted panel is not started for a new alert.      *)
EnqueueAlertQuietly(a) ==
    /\ queue' = Append(queue, a)
    /\ muted' = FALSE
    /\ UNCHANGED <<activeAlert, desiredPlaying>>

(* A new alert behind the one on display ends a mute.                      *)
EnqueueAlert(a) ==
    /\ queue' = Append(queue, a)
    /\ muted' = FALSE
    /\ IF muted THEN StartAlarm ELSE UNCHANGED desiredPlaying
    /\ UNCHANGED activeAlert

(* Display a, with its sound, in front of q.                               *)
Display(a, q) ==
    /\ activeAlert' = a
    /\ queue' = q
    /\ muted' = FALSE
    /\ StartAlarm

(* An alert already on display or queued is replaced in place.             *)
PresentInAppAlert(a) ==
    IF activeAlert = NoAlert THEN Display(a, queue)
    ELSE IF activeAlert = a \/ Contains(queue, a) THEN UNCHANGED panelVars
    ELSE EnqueueAlert(a)

(* Back to an empty panel.                                                 *)
ClearInAppAlerts ==
    /\ activeAlert' = NoAlert
    /\ queue' = <<>>
    /\ muted' = FALSE
    /\ StopAlarm

(* The loop keeps what is not a; an alert is queued once at most, which is *)
(* part of AlarmFollowsPanel.                                              *)
Without(q, a) == IF Contains(q, a) THEN RemoveAt(q, CHOOSE i \in DOMAIN q : q[i] = a) ELSE q

(* The next of the queue takes the place of the alert on display: stop and *)
(* start are called in turn, and only the start is left.                   *)
ResolveInAppAlert(a) ==
    IF activeAlert # a THEN
        /\ queue' = Without(queue, a)
        /\ UNCHANGED <<activeAlert, muted, desiredPlaying>>
    ELSE IF queue = <<>> THEN ClearInAppAlerts
    ELSE Display(Head(queue), Tail(queue))

HandleAlertStreamEvent(a, type) ==
    CASE type = "ALERT_TRIGGER" -> PresentInAppAlert(a)
      [] type = "ALERT_RESOLVE" -> ResolveInAppAlert(a)
      [] type = "ALERT_ACK"     -> UNCHANGED panelVars

(* The button of the overlay.                                              *)
ToggleAlertAlarm ==
    /\ activeAlert # NoAlert
    /\ muted' = ~muted
    /\ IF muted THEN StartAlarm ELSE StopAlarm
    /\ UNCHANGED <<activeAlert, queue>>

(* onPageShow rings again for an alert that was not muted.                 *)
RingAgain ==
    /\ IF activeAlert # NoAlert /\ ~muted THEN StartAlarm ELSE UNCHANGED desiredPlaying
    /\ UNCHANGED <<activeAlert, queue, muted>>

Shown == ({activeAlert} \ {NoAlert}) \cup {queue[i] : i \in DOMAIN queue}

(* The alarm is wanted exactly while an alert is on display and not muted, *)
(* and nothing waits behind an empty panel: whatever order alerts arrive,  *)
(* are resolved, muted and presented again in, none is queued in silence,  *)
(* none is queued twice, and no sound is left on without its alert.        *)
AlarmFollowsPanel ==
    /\ desiredPlaying <=> (activeAlert # NoAlert /\ ~muted)
    /\ activeAlert = NoAlert => queue = <<>>
    /\ \A i \in DOMAIN queue : queue[i] # activeAlert
    /\ \A i, j \in DOMAIN queue : queue[i] = queue[j] => i = j
=============================================================================
