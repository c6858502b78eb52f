------------------------- MODULE AlertNotifications -------------------------
(***************************************************************************)
(* alert-notify-worker: the consumer of alerts.events.v1 that writes the   *)
(* rows of alert_notifications, pushes to the app, and sends SMS to the    *)
(* contact library.  One worker handles one event at a time; an error      *)
(* anywhere outside the push throws, and the event is fetched again.       *)
(*                                                                         *)
(* The model keeps each await of the handler as a step of its own.  Which  *)
(* subscriptions and contacts an event concerns is reduced to a level, the *)
(* severity it must reach.  The rule engine inserts the row of an event    *)
(* before it publishes it, so the foreign keys always hold.                *)
(***************************************************************************)
EXTENDS Integers, Sequences

CONSTANTS
    Users,          \* users with subscriptions
    Subscriptions,  \* active rows of user_alert_subscriptions
    UserOf,         \* user of a subscription
    MinLevel,       \* min_severity of a subscription or a contact
    NightSubs,      \* the subscriptions with a quiet time
    Contacts,       \* active contacts of the library
    TopLevel,       \* the highest severity
    MaxEvents,      \* bound: events published
    MaxMishaps      \* bound: thrown errors and restarts

ASSUME AlertNotificationsAssumption ==
    /\ UserOf \in [Subscriptions -> Users]
    /\ TopLevel \in Nat \ {0}
    /\ MinLevel \in [Subscriptions \cup Contacts -> 1..TopLevel]
    /\ NightSubs \subseteq Subscriptions
    /\ Users \cap Contacts = {}
    /\ MaxEvents \in Nat /\ MaxMishaps \in Nat

VARIABLES
    mode,       \* NOTIFY_TYPE and SMS_RECIPIENT_MODE
    realSend,   \* SMS_REAL_SEND_ENABLED
    hasToken,   \* the users with an active push token
    quiet,      \* the subscriptions in their quiet time now
    events,     \* topic alerts.events.v1: level of each event, 0 if no one is told
    pos,        \* resolved position of the consumer
    committed,
    phase,      \* the await the handler is at
    todo,       \* subscriptions or contacts the handler's loop has left
    cur,        \* the user or the contact it is at
    result,     \* what the SMS provider answered
    row,        \* status in alert_notifications, per event and user
    job,        \* status in alert_sms_delivery_jobs, per event and contact
    pushed,     \* history: pushes the push service took
    texted,     \* history: SMS the provider took
    mishaps

config == <<mode, realSend, hasToken>>
tables == <<row, job>>
outside == <<pushed, texted>>
consumer == <<events, pos, committed>>
vars == <<config, quiet, consumer, phase, todo, cur, result, tables, outside, mishaps>>

(* App notifications with the push service configured; rows only; SMS to   *)
(* the contact library, with and without rows for the subscriptions.       *)
Modes == {"push", "subscriptions", "both", "contact_library"}
SmsModes == {"both", "contact_library"}
NoOffset == -1
Idle == "idle"
None == "none"

EventIds == 1..MaxEvents

(* What a mode does not look at is left at one value.                      *)
Init ==
    /\ mode \in Modes
    /\ realSend \in (IF mode \in SmsModes THEN BOOLEAN ELSE {FALSE})
    /\ hasToken \in (IF mode = "push" THEN SUBSET Users ELSE {{}})
    /\ quiet = {}
    /\ events = <<>>
    /\ pos = 0
    /\ committed = NoOffset
    /\ phase = Idle
    /\ todo = {}
    /\ cur = None
    /\ result = None
    /\ row = [e \in EventIds |-> [u \in Users |-> None]]
    /\ job = [e \in EventIds |-> [c \in Contacts |-> None]]
    /\ pushed = [e \in EventIds |-> [u \in Users |-> 0]]
    /\ texted = [e \in EventIds |-> [c \in Contacts |-> 0]]
    /\ mishaps = 0

Event == pos + 1
Level == events[Event]
-----------------------------------------------------------------------------
(* The rule engine publishes an event; level 0 stands for one that is not  *)
(* a trigger or an update, or that the schema refuses.                     *)
PublishAlertEvent(level) ==
    /\ Len(events) < MaxEvents
    /\ events' = Append(events, level)
    /\ UNCHANGED <<config, quiet, pos, committed, phase, todo, cur, result, tables, outside, mishaps>>

(* Night falls or ends.                                                    *)
QuietChanges ==
    /\ quiet' \in {{}, NightSubs} \ {quiet}
    /\ UNCHANGED <<config, consumer, phase, todo, cur, result, tables, outside, mishaps>>
-----------------------------------------------------------------------------
ShouldNotify == Level > 0

SkipEvent ==
    /\ phase = Idle
    /\ pos < Len(events)
    /\ ~ShouldNotify
    /\ pos' = pos + 1
    /\ UNCHANGED <<config, quiet, events, committed, phase, todo, cur, result, tables, outside, mishaps>>

(* Subscriptions and the time are read once, before the loop: whoever is   *)
(* quiet then is left out, and is not asked again in the morning.          *)
ReadSubscriptions ==
    /\ phase = Idle
    /\ pos < Len(events)
    /\ ShouldNotify
    /\ phase' = "subscriptions"
    /\ todo' = IF mode = "contact_library" THEN {}
               ELSE {s \in Subscriptions \ quiet : Level >= MinLevel[s]}
    /\ UNCHANGED <<config, quiet, consumer, cur, result, tables, outside, mishaps>>

(* Mutant: a row left pending by an earlier pass is pushed again.          *)
InsertNotificationPushesPending(s) ==
    LET u == UserOf[s] IN
    /\ phase = "subscriptions"
    /\ s \in todo
    /\ todo' = todo \ {s}
    /\ IF row[Event][u] \in {None, "pending"}
       THEN /\ row' = [row EXCEPT ![Event][u] = "pending"]
            /\ IF mode = "push" /\ u \in hasToken
               THEN phase' = "push" /\ cur' = u
               ELSE UNCHANGED <<phase, cur>>
       ELSE UNCHANGED <<row, phase, cur>>
    /\ UNCHANGED <<config, quiet, consumer, result, job, outside, mishaps>>

(* INSERT ... WHERE NOT EXISTS.  Only the pass that inserts the row of a   *)
(* user pushes, and only to a user with an active token.                   *)
InsertNotification(s) ==
    LET u == UserOf[s] IN
    /\ phase = "subscriptions"
    /\ s \in todo
    /\ todo' = todo \ {s}
    /\ IF row[Event][u] = None
       THEN /\ row' = [row EXCEPT ![Event][u] = "pending"]
            /\ IF mode = "push" /\ u \in hasToken
               THEN phase' = "push" /\ cur' = u
               ELSE UNCHANGED <<phase, cur>>
       ELSE UNCHANGED <<row, phase, cur>>
    /\ UNCHANGED <<config, quiet, consumer, result, job, outside, mishaps>>

(* huaweiPushProvider.send: the service takes the push and the answer      *)
(* comes back, or does not; or the request never gets there.               *)
SendPush(taken, answered) ==
    /\ phase = "push"
    /\ answered => taken
    /\ phase' = IF answered THEN "markSent" ELSE "markFailed"
    /\ pushed' = IF taken THEN [pushed EXCEPT ![Event][cur] = @ + 1] ELSE pushed
    /\ UNCHANGED <<config, quiet, consumer, todo, cur, result, tables, texted, mishaps>>

MarkSent ==
    /\ phase = "markSent"
    /\ row' = [row EXCEPT ![Event][cur] = "sent"]
    /\ phase' = "subscriptions"
    /\ cur' = None
    /\ UNCHANGED <<config, quiet, consumer, todo, result, job, outside, mishaps>>

(* The UPDATE is inside the try: its failure is taken for a failed push.   *)
MarkSentFails ==
    /\ phase = "markSent"
    /\ mishaps < MaxMishaps
    /\ mishaps' = mishaps + 1
    /\ phase' = "markFailed"
    /\ UNCHANGED <<config, quiet, consumer, todo, cur, result, tables, outside>>

MarkFailed ==
    /\ phase = "markFailed"
    /\ row' = [row EXCEPT ![Event][cur] = "failed"]
    /\ phase' = "subscriptions"
    /\ cur' = None
    /\ UNCHANGED <<config, quiet, consumer, todo, result, job, outside, mishaps>>
-----------------------------------------------------------------------------
ResolveOffset ==
    /\ pos' = pos + 1
    /\ phase' = Idle

(* The contacts are read after the loop over the subscriptions, and only   *)
(* when SMS goes to the contact library.                                   *)
ResolveSmsContactRecipients ==
    /\ phase = "subscriptions"
    /\ todo = {}
    /\ IF mode \in SmsModes
       THEN /\ phase' = "contacts"
            /\ todo' = {c \in Contacts : Level >= MinLevel[c]}
            /\ UNCHANGED pos
       ELSE ResolveOffset /\ UNCHANGED todo
    /\ UNCHANGED <<config, quiet, events, committed, cur, result, tables, outside, mishaps>>

(* Mutant: every pass sends, whatever an earlier pass recorded.            *)
CreateOrReuseSmsJobSends(c) ==
    /\ phase = "contacts"
    /\ c \in todo
    /\ todo' = todo \ {c}
    /\ job' = [job EXCEPT ![Event][c] = IF @ = None THEN "queued" ELSE @]
    /\ phase' = "sms"
    /\ cur' = c
    /\ UNCHANGED <<config, quiet, consumer, result, row, outside, mishaps>>

(* The job of an event, a contact and a provider is unique and keeps its   *)
(* status: one already sent is passed over, any other is sent (again).     *)
CreateOrReuseSmsJob(c) ==
    /\ phase = "contacts"
    /\ c \in todo
    /\ todo' = todo \ {c}
    /\ job' = [job EXCEPT ![Event][c] = IF @ = None THEN "queued" ELSE @]
    /\ IF job[Event][c] = "sent" THEN UNCHANGED <<phase, cur>>
       ELSE phase' = "sms" /\ cur' = c
    /\ UNCHANGED <<config, quiet, consumer, result, row, outside, mishaps>>

(* smsProvider.send returns.  Without SMS_REAL_SEND_ENABLED nothing goes   *)
(* out; the provider may also refuse.                                      *)
SendSms(answer) ==
    /\ phase = "sms"
    /\ answer \in (IF realSend THEN {"sent", "failed"} ELSE {"skipped"})
    /\ texted' = IF answer = "sent" THEN [texted EXCEPT ![Event][cur] = @ + 1] ELSE texted
    /\ result' = answer
    /\ phase' = "record"
    /\ UNCHANGED <<config, quiet, consumer, todo, cur, tables, pushed, mishaps>>

(* Mutant: the result of a refused SMS is not recorded.                    *)
UpdateSmsJobResultIfSent ==
    /\ phase = "record"
    /\ job' = IF result = "sent" THEN [job EXCEPT ![Event][cur] = result] ELSE job
    /\ phase' = "contacts"
    /\ cur' = None
    /\ result' = None
    /\ UNCHANGED <<config, quiet, consumer, todo, row, outside, mishaps>>

UpdateSmsJobResult ==
    /\ phase = "record"
    /\ job' = [job EXCEPT ![Event][cur] = result]
    /\ phase' = "contacts"
    /\ cur' = None
    /\ result' = None
    /\ UNCHANGED <<config, quiet, consumer, todo, row, outside, mishaps>>

FinishEvent ==
    /\ phase = "contacts"
    /\ todo = {}
    /\ ResolveOffset
    /\ UNCHANGED <<config, quiet, events, committed, todo, cur, result, tables, outside, mishaps>>
-----------------------------------------------------------------------------
(* What an abandoned pass forgets.                                         *)
Abandon ==
    /\ mishaps < MaxMishaps
    /\ mishaps' = mishaps + 1
    /\ phase' = Idle
    /\ todo' = {}
    /\ cur' = None
    /\ result' = None

(* A query fails and the handler throws; the same event is fetched again.  *)
(* sendSms throws too, and the provider may have taken that SMS.           *)
Throw(taken) ==
    /\ phase \notin {Idle, "push", "markSent"}
    /\ taken => phase = "sms" /\ realSend
    /\ texted' = IF taken THEN [texted EXCEPT ![Event][cur] = @ + 1] ELSE texted
    /\ Abandon
    /\ UNCHANGED <<config, quiet, consumer, tables, pushed>>

(* At the end of a batch.                                                  *)
CommitOffsets ==
    /\ phase = Idle
    /\ committed' = pos
    /\ UNCHANGED <<config, quiet, events, pos, phase, todo, cur, result, tables, outside, mishaps>>

(* fromBeginning is false: a group without an offset starts at the end.    *)
ResumeAt == IF committed = NoOffset THEN Len(events) ELSE committed

(* A crash, a stop or a rebalance, at any await.                           *)
Restart ==
    /\ pos' = ResumeAt
    /\ Abandon
    /\ UNCHANGED <<config, quiet, events, committed, tables, outside>>

Handler ==
    \/ SkipEvent
    \/ ReadSubscriptions
    \/ \E s \in Subscriptions : InsertNotification(s)
    \/ \E taken, answered \in BOOLEAN : SendPush(taken, answered)
    \/ MarkSent \/ MarkFailed
    \/ ResolveSmsContactRecipients
    \/ \E c \in Contacts : CreateOrReuseSmsJob(c)
    \/ \E answer \in {"sent", "failed", "skipped"} : SendSms(answer)
    \/ UpdateSmsJobResult
    \/ FinishEvent

Next ==
    \/ \E level \in 0..TopLevel : PublishAlertEvent(level)
    \/ QuietChanges
    \/ Handler
    \/ MarkSentFails
    \/ \E taken \in BOOLEAN : Throw(taken)
    \/ CommitOffsets
    \/ Restart

Spec == Init /\ [][Next]_vars

(* Each await of the handler returns or throws.                            *)
FairSpec == Spec /\ WF_vars(Handler)
-----------------------------------------------------------------------------
TypeOK ==
    /\ mode \in Modes /\ realSend \in BOOLEAN
    /\ hasToken \subseteq Users /\ quiet \in {{}, NightSubs}
    /\ events \in Seq(0..TopLevel) /\ Len(events) <= MaxEvents
    /\ pos \in 0..Len(events)
    /\ committed \in {NoOffset} \cup 0..Len(events)
    /\ phase \in {Idle, "subscriptions", "push", "markSent", "markFailed", "contacts", "sms", "record"}
    /\ phase # Idle => pos < Len(events) /\ ShouldNotify
    /\ todo \subseteq (CASE phase = Idle -> {}
                         [] phase \in {"contacts", "sms", "record"} -> Contacts
                         [] OTHER -> Subscriptions)
    /\ cur \in (CASE phase \in {"push", "markSent", "markFailed"} -> Users
                  [] phase \in {"sms", "record"} -> Contacts
                  [] OTHER -> {None})
    /\ result \in (IF phase = "record" THEN {"sent", "failed", "skipped"} ELSE {None})
    /\ row \in [EventIds -> [Users -> {None, "pending", "sent", "failed"}]]
    /\ job \in [EventIds -> [Contacts -> {None, "queued", "sent", "failed", "skipped"}]]
    /\ pushed \in [EventIds -> [Users -> Nat]]
    /\ texted \in [EventIds -> [Contacts -> Nat]]
    /\ mishaps \in 0..MaxMishaps

(* However often an event is read again, and through however many of their *)
(* subscriptions it concerns them, a user's phone is pushed it at most     *)
(* once, and a row says sent only of a push that was taken.                *)
OnePush ==
    \A e \in EventIds, u \in Users :
        /\ pushed[e][u] <= 1
        /\ row[e][u] = "sent" => pushed[e][u] = 1

(* An SMS the table has as sent is never sent again, and its status never  *)
(* changes: not when a later contact fails and the event is read again,    *)
(* not after a restart before the offset was committed.                    *)
SentSmsIsFinal ==
    [][\A e \in EventIds, c \in Contacts :
        job[e][c] = "sent" => job'[e][c] = "sent" /\ texted'[e][c] = texted[e][c]]_vars

(* The worker finds an event ahead of it again after any restart.          *)
Durable == committed # NoOffset \/ mishaps = MaxMishaps

LevelOf(e) == IF e \in DOMAIN events THEN events[e] ELSE 0
Told(e, s) == row[e][UserOf[s]] # None
Settled(e, c) == job[e][c] \in {"sent", "failed", "skipped"}

(* An event the worker will find again is told to everyone whose level it  *)
(* reaches and who keeps no quiet time, and each contact's SMS is settled, *)
(* although any number of them may fail and the event be read again.       *)
EventReachesEveryone ==
    \A e \in EventIds :
        (LevelOf(e) > 0 /\ e > pos /\ Durable) ~>
            (/\ mode # "contact_library" =>
                 \A s \in Subscriptions \ NightSubs : LevelOf(e) >= MinLevel[s] => Told(e, s)
             /\ mode \in SmsModes =>
                 \A c \in Contacts : LevelOf(e) >= MinLevel[c] => Settled(e, c))
=============================================================================
