------------------------------ MODULE AlertApp ------------------------------
(***************************************************************************)
(* An alert on its way from alert_events to the sound of a phone: the      *)
(* stream, the page of the app and the alarm, with the page hidden and     *)
(* shown, notifications tapped, and the user logged out.                   *)
(***************************************************************************)
EXTENDS AlertPanel, AlertStream

CONSTANTS
    MaxTaps,     \* bound: notifications tapped
    MaxMishaps,  \* bound: notifications tapped and connections lost
    MaxLogouts   \* bound: sessions ended

ASSUME AlertAppAssumption ==
    /\ NoAlert \notin Alerts
    /\ MaxTaps \in Nat
    /\ MaxMishaps \in Nat
    /\ MaxLogouts \in Nat

VARIABLES
    account,       \* in; leaving: logout() awaits the server; cleared: the
                   \* tokens are gone, it awaits the caches; out
    starting,      \* a login or a restored session is yet to start the stream
    visible,       \* appVisible
    pendingAlert,  \* the alert openPendingAlert is loading the list for
    handled,       \* history: what was handed to the panel in this session
    tapped,        \* history: the alerts whose notification was tapped
    taps,
    logouts

accountVars == <<account, starting, visible, logouts>>
tapVars == <<pendingAlert, tapped, taps>>
pageVars == <<accountVars, tapVars, handled>>
vars == <<panelVars, streamVars, pageVars>>

(* A session was restored and the page is shown.                           *)
Init ==
    /\ PanelInit
    /\ StreamInit
    /\ account = "in"
    /\ starting = TRUE
    /\ visible = TRUE
    /\ pendingAlert = NoAlert
    /\ handled = {}
    /\ tapped = {}
    /\ taps = 0
    /\ logouts = 0

(* The page counts as logged in until its logout has gone all the way.     *)
LoggedIn == account # "out"
HasSession == account \in {"in", "leaving"}

(* A client that is not stopped is left as it is.                          *)
StartAlertStream == IF HasSession /\ link = "off" THEN Start ELSE UNCHANGED streamVars
StopAlertStream == IF link = "off" THEN UNCHANGED streamVars ELSE Stop

(* The writers and the server, and the timer of the client.                *)
Outside ==
    /\ \/ \E e \in EventIds, a \in Alerts, type \in {"ALERT_TRIGGER", "ALERT_ACK", "ALERT_RESOLVE"} :
            BeginInsert(e, a, type)
       \/ \E e \in EventIds : CommitInsert(e)
       \/ Poll
       \/ HasSession /\ Connect
       \/ ~HasSession /\ GiveUp
       \/ taps + drops < MaxMishaps /\ ConnectionLost
    /\ UNCHANGED <<panelVars, pageVars>>

(* The client remembers what the page, logged out, does not want to hear.  *)
Receive ==
    /\ ConsumeBlock
    /\ LET e == Head(wire) IN
       IF IsNew(e) /\ LoggedIn THEN
            /\ HandleAlertStreamEvent(events[e].alert, events[e].type)
            /\ handled' = IF account = "in" THEN handled \cup {e} ELSE {}
       ELSE UNCHANGED <<panelVars, handled>>
    /\ UNCHANGED <<accountVars, tapVars>>

(* A hidden page keeps its alarm, and its client what it knows.            *)
OnPageHide ==
    /\ visible
    /\ visible' = FALSE
    /\ StopAlertStream
    /\ UNCHANGED <<panelVars, account, starting, logouts, tapVars, handled>>

(* During a logout that still has its session, this starts a new client.   *)
(* A login that is yet to start the stream will find it started.           *)
OnPageShow ==
    /\ ~visible
    /\ visible' = TRUE
    /\ IF LoggedIn THEN starting' = FALSE /\ StartAlertStream /\ RingAgain
       ELSE UNCHANGED <<starting, streamVars, panelVars>>
    /\ UNCHANGED <<account, logouts, tapVars, handled>>

User ==
    /\ visible /\ LoggedIn
    /\ ToggleAlertAlarm
    /\ UNCHANGED <<streamVars, pageVars>>

(* The notification of a trigger, local or pushed, opens the app with what *)
(* the trigger said.  A second one is dropped while the first is handled.  *)
TapNotification(a) ==
    /\ visible /\ LoggedIn
    /\ taps < MaxTaps /\ taps + drops < MaxMishaps
    /\ taps' = taps + 1
    /\ TriggerVisible(a)
    /\ pendingAlert = NoAlert
    /\ pendingAlert' = a
    /\ tapped' = tapped \cup {a}
    /\ PresentInAppAlert(a)
    /\ UNCHANGED <<streamVars, accountVars, handled>>

(* The list is there: the alert is presented from it, whatever its status. *)
(* Without the network the list may not have it.  It may arrive after a    *)
(* logout, and is presented then: an alarm with no overlay to mute it on.  *)
PendingAlertLoaded(found) ==
    /\ pendingAlert # NoAlert
    /\ pendingAlert' = NoAlert
    /\ IF found THEN PresentInAppAlert(pendingAlert) ELSE UNCHANGED panelVars
    /\ UNCHANGED <<streamVars, accountVars, tapped, taps, handled>>
-----------------------------------------------------------------------------
(***************************************************************************)
(* The end of a session, and the next one.  logout() lets the stream go    *)
(* first and clears the panel last; in between it awaits the server and    *)
(* the caches, with the page in use.  A client started meanwhile is never  *)
(* stopped: it goes on without a user, and the next login finds it.  Two   *)
(* of these ends at a time, from a button pressed twice, are left out.     *)
(***************************************************************************)
EndSession(then) ==
    /\ account = "in"
    /\ logouts < MaxLogouts
    /\ logouts' = logouts + 1
    /\ account' = then
    /\ handled' = {}
    /\ Reset
    /\ UNCHANGED <<panelVars, starting, visible, tapVars>>

BeginLogout == EndSession("leaving")

(* The server refused the tokens, or the user chose another server: they   *)
(* are cleared at once.                                                    *)
InvalidateSession == EndSession("cleared")

(* The server answered, or did not.                                        *)
ClearTokens ==
    /\ account = "leaving"
    /\ account' = "cleared"
    /\ UNCHANGED <<panelVars, streamVars, starting, visible, logouts, tapVars, handled>>

EndLogout ==
    /\ account = "cleared"
    /\ account' = "out"
    /\ ClearInAppAlerts
    /\ UNCHANGED <<streamVars, starting, visible, logouts, tapVars, handled>>

Login ==
    /\ account = "out"
    /\ ~starting
    /\ account' = "in"
    /\ starting' = TRUE
    /\ UNCHANGED <<panelVars, streamVars, visible, logouts, tapVars, handled>>

(* The overview is loaded.                                                 *)
LoginDone ==
    /\ starting
    /\ starting' = FALSE
    /\ IF visible THEN StartAlertStream ELSE UNCHANGED streamVars
    /\ UNCHANGED <<panelVars, account, visible, logouts, tapVars, handled>>

Next ==
    \/ Outside
    \/ Receive
    \/ OnPageHide \/ OnPageShow
    \/ User
    \/ \E a \in Alerts : TapNotification(a)
    \/ \E found \in BOOLEAN : PendingAlertLoaded(found)
    \/ BeginLogout \/ InvalidateSession \/ ClearTokens \/ EndLogout
    \/ Login \/ LoginDone

Spec == Init /\ [][Next]_vars

(* The poll and the reconnection are timers; the network delivers while a  *)
(* connection lasts.                                                       *)
Elsewhere == UNCHANGED <<panelVars, pageVars>>
FairSpec ==
    /\ Spec
    /\ WF_vars(Poll /\ Elsewhere)
    /\ WF_vars(HasSession /\ Connect /\ Elsewhere)
    /\ WF_vars(Receive)
-----------------------------------------------------------------------------
TypeOK ==
    /\ account \in {"in", "leaving", "cleared", "out"}
    /\ starting \in BOOLEAN
    /\ visible \in BOOLEAN
    /\ desiredPlaying \in BOOLEAN
    /\ activeAlert \in Alerts \cup {NoAlert}
    /\ queue \in Seq(Alerts)
    /\ muted \in BOOLEAN
    /\ StreamTypeOK
    /\ pendingAlert \in Alerts \cup {NoAlert}
    /\ handled \subseteq EventIds
    /\ tapped \subseteq Alerts
    /\ taps \in 0..MaxTaps
    /\ logouts \in 0..MaxLogouts

(* The cursor keeps the millisecond of the last row sent, and its id.  A   *)
(* row of that very instant that committed after the row was sent is found *)
(* once a row with a lower id has moved the cursor within the millisecond: *)
(* so a trigger may come after the resolution of its own millisecond.      *)
ResolvedAtOnce(a) ==
    \E t, r \in EventIds :
        /\ events[t].alert = a /\ events[t].type = "ALERT_TRIGGER"
        /\ events[r].alert = a /\ events[r].type = "ALERT_RESOLVE"
        /\ events[t].createdAt = ToDate(events[r].createdAt)

(* The panel shows exactly the alerts whose trigger was handed to it and   *)
(* whose resolution was not, in every session: the server's repetitions,   *)
(* what a reconnection sends again, and a client that outlived a logout,   *)
(* which heard events that nobody was shown, neither bring a resolved      *)
(* alert back nor show one of an earlier session.  While a session ends,   *)
(* the panel is as the old client left it, and a new one may repeat events *)
(* to it.  There are two exceptions.  A tapped notification presents its   *)
(* alert after the list is loaded even if it was resolved meanwhile; and   *)
(* an alert resolved at once may be received in the wrong order.           *)
Handled(a, type) == \E e \in handled : events[e].alert = a /\ events[e].type = type
PanelAgrees ==
    account \in {"in", "out"} =>
        \A a \in Alerts \ tapped :
            ResolvedAtOnce(a) \/
            (a \in Shown <=> Handled(a, "ALERT_TRIGGER") /\ ~Handled(a, "ALERT_RESOLVE"))

(* The connection, or the Last-Event-ID the client will resume with, finds *)
(* the event.  One that commits after a poll has passed its created_at is  *)
(* not found, nor one from the time a client that never received an event  *)
(* was not connected.                                                      *)
WillBeFound(e) ==
    /\ Visible(e)
    /\ CASE link = "up"   -> After(e, cursor) \/ Contains(wire, e)
         [] link = "down" -> lastEventId # ZeroUuid /\ After(e, CursorAt(lastEventId))
         [] OTHER         -> FALSE

(* What the client of the session owes the panel.  A dead client finds     *)
(* nothing.                                                                *)
Owed == {e \in EventIds : account = "in" /\ WillBeFound(e) /\ e \notin seen}

(* The page is hidden (shown again it resumes), the session ends, or the   *)
(* connection is lost before the client ever received an event.            *)
Excused == ~visible \/ account # "in" \/ (link = "down" /\ lastEventId = ZeroUuid)

(* Such an event is handed to the panel: polls and connections lost and    *)
(* reopened pass over none, and again and again none is owed.              *)
EventIsReceived ==
    /\ [][\A e \in Owed : e \in Owed' \cup handled' \/ Excused']_vars
    /\ []<>(Owed = {} \/ Excused)
=============================================================================
