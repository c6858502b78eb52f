----------------------- MODULE AlertNotificationsProofs -----------------------
(***************************************************************************)
(* The safety of alert-notify-worker for every set of users, subscriptions *)
(* and contacts, every level and every bound.                              *)
(***************************************************************************)
EXTENDS AlertNotifications, TLAPS

LEMMA InitTypeOK == Init => TypeOK
<1> SUFFICES ASSUME Init PROVE TypeOK
  OBVIOUS
<1>1. Len(events) = 0 /\ events \in Seq(0..TopLevel) /\ Len(events) <= MaxEvents
  BY AlertNotificationsAssumption DEF Init
<1>2. /\ realSend \in BOOLEAN
      /\ hasToken \subseteq Users
  BY DEF Init
<1>3. /\ row \in [EventIds -> [Users -> {None, "pending", "sent", "failed"}]]
      /\ job \in [EventIds -> [Contacts -> {None, "queued", "sent", "failed", "skipped"}]]
      /\ pushed \in [EventIds -> [Users -> Nat]]
      /\ texted \in [EventIds -> [Contacts -> Nat]]
  BY DEF Init
<1> QED BY <1>1, <1>2, <1>3, AlertNotificationsAssumption DEF Init, TypeOK, Idle

(* The row, the job and the counters of the event at hand are cells of     *)
(* their tables.                                                           *)
LEMMA AtHand ==
  ASSUME TypeOK, phase # Idle
  PROVE  Event \in EventIds /\ pos \in Nat /\ Len(events) \in Nat /\ pos + 1 <= Len(events)
  BY AlertNotificationsAssumption DEF TypeOK, Event, EventIds

LEMMA OutsideTypeOK ==
  ASSUME TypeOK,
         \/ \E level \in 0..TopLevel : PublishAlertEvent(level)
         \/ QuietChanges
         \/ CommitOffsets
  PROVE  TypeOK'
<1> USE AlertNotificationsAssumption
        DEF config, consumer, tables, outside
<1>1. ASSUME NEW level \in 0..TopLevel, PublishAlertEvent(level) PROVE TypeOK'
  <2>1. /\ events' \in Seq(0..TopLevel)
        /\ Len(events') = Len(events) + 1
        /\ Len(events) \in Nat
        /\ \A i \in 1..Len(events) : events'[i] = events[i]
    BY <1>1 DEF PublishAlertEvent, TypeOK
  <2>2. UNCHANGED <<mode, realSend, hasToken, quiet, pos, committed, phase, todo, cur, result,
                    row, job, pushed, texted, mishaps>>
    BY <1>1 DEF PublishAlertEvent
  <2>3. Len(events') <= MaxEvents
    BY <1>1, <2>1 DEF PublishAlertEvent
  <2>4. /\ pos' \in 0..Len(events')
        /\ committed' \in {NoOffset} \cup 0..Len(events')
    BY <2>1, <2>2 DEF TypeOK
  <2>5. phase' # Idle => pos' < Len(events') /\ ShouldNotify'
    <3>1. phase # Idle => pos + 1 \in 1..Len(events) /\ pos < Len(events) /\ events[pos + 1] > 0
      <4>1. pos \in Nat /\ (phase # Idle => pos < Len(events) /\ ShouldNotify)
        BY DEF TypeOK
      <4> QED BY <2>1, <4>1 DEF ShouldNotify, Level, Event
    <3>2. phase' = phase /\ pos' = pos /\ Len(events) < Len(events') /\ pos \in Nat
      BY <2>1, <2>2 DEF TypeOK
    <3> QED BY <2>1, <3>1, <3>2 DEF ShouldNotify, Level, Event
  <2>6. /\ mode' = mode /\ realSend' = realSend /\ hasToken' = hasToken /\ quiet' = quiet
        /\ phase' = phase /\ todo' = todo /\ cur' = cur /\ result' = result
        /\ row' = row /\ job' = job /\ pushed' = pushed /\ texted' = texted
        /\ mishaps' = mishaps
    BY <2>2
  <2> QED BY <2>1, <2>3, <2>4, <2>5, <2>6 DEF TypeOK
<1>2. CASE QuietChanges
  BY <1>2 DEF QuietChanges, TypeOK, ShouldNotify, Level, Event
<1>3. CASE CommitOffsets
  BY <1>3 DEF CommitOffsets, TypeOK, ShouldNotify, Level, Event
<1> QED BY <1>1, <1>2, <1>3

LEMMA HandlerTypeOK == ASSUME TypeOK, Handler PROVE TypeOK'
<1> USE DEF config, consumer, tables, outside, Event, Level, ShouldNotify, Idle, None
<1>1. CASE SkipEvent
  BY <1>1 DEF SkipEvent, TypeOK, NoOffset
<1>2. CASE ReadSubscriptions
  BY <1>2 DEF ReadSubscriptions, TypeOK
<1>3. ASSUME NEW s \in Subscriptions, InsertNotification(s) PROVE TypeOK'
  <2>1. UserOf[s] \in Users
    BY AlertNotificationsAssumption
  <2>2. row' \in [EventIds -> [Users -> {None, "pending", "sent", "failed"}]]
    <3>1. pos + 1 \in EventIds
      BY <1>3, AtHand DEF InsertNotification
    <3>2. row' \in {row, [row EXCEPT ![pos + 1][UserOf[s]] = "pending"]}
      BY <1>3 DEF InsertNotification
    <3>3. row \in [EventIds -> [Users -> {None, "pending", "sent", "failed"}]]
      BY DEF TypeOK
    <3> QED BY <2>1, <3>1, <3>2, <3>3
  <2>3. \/ phase' = "subscriptions" /\ cur' = cur
        \/ phase' = "push" /\ cur' \in Users
    BY <1>3, <2>1 DEF InsertNotification
  <2>4. phase = "subscriptions" /\ todo' \subseteq todo
    BY <1>3 DEF InsertNotification
  <2>5. UNCHANGED <<mode, realSend, hasToken, quiet, events, pos, committed, result, job,
                    pushed, texted, mishaps>>
    BY <1>3 DEF InsertNotification
  <2> QED BY <2>2, <2>3, <2>4, <2>5 DEF TypeOK
<1>4. ASSUME NEW taken \in BOOLEAN, NEW answered \in BOOLEAN, SendPush(taken, answered)
      PROVE  TypeOK'
  BY <1>4, AtHand DEF SendPush, TypeOK
<1>5. CASE MarkSent
  BY <1>5 DEF MarkSent, TypeOK
<1>6. CASE MarkFailed
  BY <1>6 DEF MarkFailed, TypeOK
<1>7. CASE ResolveSmsContactRecipients
  BY <1>7 DEF ResolveSmsContactRecipients, ResolveOffset, TypeOK
<1>8. ASSUME NEW c \in Contacts, CreateOrReuseSmsJob(c) PROVE TypeOK'
  BY <1>8 DEF CreateOrReuseSmsJob, TypeOK
<1>9. ASSUME NEW answer \in {"sent", "failed", "skipped"}, SendSms(answer) PROVE TypeOK'
  BY <1>9, AtHand DEF SendSms, TypeOK
<1>10. CASE UpdateSmsJobResult
  BY <1>10 DEF UpdateSmsJobResult, TypeOK
<1>11. CASE FinishEvent
  BY <1>11 DEF FinishEvent, ResolveOffset, TypeOK
<1> QED BY <1>1, <1>2, <1>3, <1>4, <1>5, <1>6, <1>7, <1>8, <1>9, <1>10, <1>11 DEF Handler

(* The event at hand is given up.                                          *)
LEMMA AbandonTypeOK ==
  ASSUME TypeOK, Abandon, UNCHANGED <<config, quiet, events, committed, tables, pushed>>,
         pos' \in 0..Len(events), texted' \in [EventIds -> [Contacts -> Nat]]
  PROVE  TypeOK'
<1>1. /\ mode' = mode /\ realSend' = realSend /\ hasToken' = hasToken /\ quiet' = quiet
      /\ events' = events /\ committed' = committed /\ row' = row /\ job' = job
      /\ pushed' = pushed
  BY DEF config, tables
<1>2. phase' = Idle /\ todo' = {} /\ cur' = None /\ result' = None
  BY DEF Abandon
<1>3. mishaps' \in 0..MaxMishaps
  BY AlertNotificationsAssumption DEF Abandon, TypeOK
<1>4. /\ Idle \notin {"contacts", "sms", "record"}
      /\ Idle \notin {"push", "markSent", "markFailed"} /\ Idle # "record"
  BY DEF Idle
<1> QED BY <1>1, <1>2, <1>3, <1>4 DEF TypeOK

LEMMA MishapTypeOK ==
  ASSUME TypeOK, MarkSentFails \/ (\E taken \in BOOLEAN : Throw(taken)) \/ Restart
  PROVE  TypeOK'
<1> USE AlertNotificationsAssumption
        DEF config, consumer, tables, outside, Event, Level, ShouldNotify, Idle, None
<1>1. CASE MarkSentFails
  BY <1>1 DEF MarkSentFails, TypeOK
<1>2. ASSUME NEW taken \in BOOLEAN, Throw(taken) PROVE TypeOK'
  <2>1. texted' \in [EventIds -> [Contacts -> Nat]]
    <3>1. texted \in [EventIds -> [Contacts -> Nat]]
      BY DEF TypeOK
    <3>2. texted' = texted \/ texted' = [texted EXCEPT ![Event][cur] = @ + 1]
      BY <1>2 DEF Throw
    <3> QED BY <3>1, <3>2
  <2>2. pos' \in 0..Len(events) /\ UNCHANGED <<events, committed>>
    BY <1>2 DEF Throw, TypeOK
  <2> QED BY <1>2, <2>1, <2>2, AbandonTypeOK DEF Throw
<1>3. CASE Restart
  <2>1. pos' \in 0..Len(events)
    BY <1>3 DEF Restart, ResumeAt, TypeOK, NoOffset
  <2>2. texted' \in [EventIds -> [Contacts -> Nat]] /\ pushed' = pushed
    BY <1>3 DEF Restart, TypeOK
  <2> QED BY <1>3, <2>1, <2>2, AbandonTypeOK DEF Restart
<1> QED BY <1>1, <1>2, <1>3

LEMMA NextTypeOK == TypeOK /\ [Next]_vars => TypeOK'
<1> SUFFICES ASSUME TypeOK, [Next]_vars PROVE TypeOK'
  OBVIOUS
<1>1. CASE UNCHANGED vars
  BY <1>1 DEF vars, config, consumer, tables, outside, TypeOK, ShouldNotify, Level, Event
<1>2. CASE Next
  BY <1>2, OutsideTypeOK, HandlerTypeOK, MishapTypeOK DEF Next
<1> QED BY <1>1, <1>2

(* The types, and that a handler is only ever at an event that is in the   *)
(* topic and concerns somebody.                                            *)
THEOREM TypeCorrect == Spec => []TypeOK
  BY InitTypeOK, NextTypeOK, PTL DEF Spec
-----------------------------------------------------------------------------
(***************************************************************************)
(* One push.  OnePush is not inductive alone: a push is sent only while    *)
(* the row it is for is the one this pass has just inserted, and a row is  *)
(* marked sent only after the push it waited for was taken.                *)
(***************************************************************************)
RowBeforePush == \A e \in EventIds, u \in Users : row[e][u] = None => pushed[e][u] = 0

PushAtHand ==
    /\ phase \in {"push", "markSent"} => row[Event][cur] = "pending"
    /\ phase = "push" => pushed[Event][cur] = 0
    /\ phase = "markSent" => pushed[Event][cur] = 1

PushInv == TypeOK /\ RowBeforePush /\ PushAtHand /\ OnePush

LEMMA InitPushInv == Init => PushInv
<1> SUFFICES ASSUME Init PROVE PushInv
  OBVIOUS
<1>1. \A e \in EventIds, u \in Users : row[e][u] = None /\ pushed[e][u] = 0
  BY DEF Init
<1>2. phase = Idle
  BY DEF Init
<1> QED BY <1>1, <1>2, InitTypeOK DEF PushInv, RowBeforePush, PushAtHand, OnePush, Idle, None

(* What a step owes that neither writes a row nor pushes.                  *)
LEMMA RowsAndPushesStay ==
  ASSUME PushInv, UNCHANGED <<row, pushed>>,
         \/ phase' \notin {"push", "markSent"}
         \/ UNCHANGED <<phase, pos, cur>>
  PROVE  RowBeforePush' /\ PushAtHand' /\ OnePush'
  BY DEF PushInv, RowBeforePush, PushAtHand, OnePush, Event

(* The row of the event at hand and of one user gets a status of its own.  *)
LEMMA RowAtHand ==
  ASSUME TypeOK, phase # Idle, NEW u \in Users
  PROVE  \A st : \A e \in EventIds, v \in Users :
             [row EXCEPT ![Event][u] = st][e][v] =
                 IF e = Event /\ v = u THEN st ELSE row[e][v]
<1>1. Event \in EventIds
  BY AtHand
<1>2. row \in [EventIds -> [Users -> {None, "pending", "sent", "failed"}]]
  BY DEF TypeOK
<1> QED BY <1>1, <1>2

LEMMA InsertPush ==
  ASSUME PushInv, NEW s \in Subscriptions, InsertNotification(s)
  PROVE  RowBeforePush' /\ PushAtHand' /\ OnePush'
<1> DEFINE u == UserOf[s]
<1>1. u \in Users /\ phase = "subscriptions" /\ phase # Idle
  BY AlertNotificationsAssumption DEF InsertNotification, Idle
<1>2. Event \in EventIds /\ Event' = Event /\ pushed' = pushed
  BY <1>1, AtHand DEF PushInv, InsertNotification, Event, consumer, outside
<1>3. CASE row[Event][u] # None
  BY <1>1, <1>2, <1>3, RowsAndPushesStay DEF InsertNotification, consumer
<1>4. CASE row[Event][u] = None
  <2>1. row' = [row EXCEPT ![Event][u] = "pending"]
    BY <1>4 DEF InsertNotification
  <2>2. \A e \in EventIds, v \in Users :
            row'[e][v] = IF e = Event /\ v = u THEN "pending" ELSE row[e][v]
    <3>1. row \in [EventIds -> [Users -> {None, "pending", "sent", "failed"}]]
      BY DEF PushInv, TypeOK
    <3> QED BY <1>1, <1>2, <2>1, <3>1
  <2>3. pushed[Event][u] = 0
    BY <1>1, <1>2, <1>4 DEF PushInv, RowBeforePush
  <2>4. phase' = "subscriptions" \/ (phase' = "push" /\ cur' = u)
    BY <1>1, <1>4 DEF InsertNotification
  <2>5. RowBeforePush' /\ OnePush'
    BY <1>2, <2>2 DEF PushInv, RowBeforePush, OnePush, None
  <2>6. PushAtHand'
    BY <1>1, <1>2, <2>2, <2>3, <2>4 DEF PushAtHand
  <2> QED BY <2>5, <2>6
<1> QED BY <1>3, <1>4

LEMMA SendPushPush ==
  ASSUME PushInv, NEW taken \in BOOLEAN, NEW answered \in BOOLEAN, SendPush(taken, answered)
  PROVE  RowBeforePush' /\ PushAtHand' /\ OnePush'
<1>1. /\ phase = "push" /\ phase # Idle /\ cur \in Users
      /\ row[Event][cur] = "pending" /\ pushed[Event][cur] = 0
  BY DEF SendPush, Idle, PushInv, TypeOK, PushAtHand
<1>2. Event \in EventIds /\ Event' = Event /\ row' = row /\ cur' = cur
  BY <1>1, AtHand DEF PushInv, SendPush, Event, consumer, tables
<1>3. CASE ~taken
  <2>1. phase' = "markFailed" /\ pushed' = pushed
    BY <1>3 DEF SendPush
  <2> QED BY <1>2, <2>1, RowsAndPushesStay
<1>4. CASE taken
  <2>1. \A e \in EventIds, v \in Users :
            pushed'[e][v] = IF e = Event /\ v = cur THEN 1 ELSE pushed[e][v]
    BY <1>1, <1>2, <1>4 DEF SendPush, PushInv, TypeOK
  <2>2. phase' \in {"markSent", "markFailed"}
    BY DEF SendPush
  <2>3. RowBeforePush' /\ OnePush'
    BY <1>1, <1>2, <2>1 DEF PushInv, RowBeforePush, OnePush, None
  <2>4. PushAtHand'
    BY <1>1, <1>2, <2>1, <2>2 DEF PushAtHand
  <2> QED BY <2>3, <2>4
<1> QED BY <1>3, <1>4

LEMMA MarkPush ==
  ASSUME PushInv, MarkSent \/ MarkFailed
  PROVE  RowBeforePush' /\ PushAtHand' /\ OnePush'
<1>1. PICK st \in {"sent", "failed"} : /\ row' = [row EXCEPT ![Event][cur] = st]
                                       /\ st = "sent" => phase = "markSent"
  BY DEF MarkSent, MarkFailed
<1>2. phase # Idle /\ cur \in Users /\ pushed' = pushed /\ phase' = "subscriptions"
  BY DEF MarkSent, MarkFailed, Idle, PushInv, TypeOK, outside
<1>3. \A e \in EventIds, v \in Users :
          row'[e][v] = IF e = Event /\ v = cur THEN st ELSE row[e][v]
  BY <1>1, <1>2, RowAtHand DEF PushInv
<1>4. st = "sent" => pushed[Event][cur] = 1
  BY <1>1 DEF PushInv, PushAtHand
<1>5. RowBeforePush' /\ OnePush'
  BY <1>1, <1>2, <1>3, <1>4 DEF PushInv, RowBeforePush, OnePush, None
<1>6. PushAtHand'
  BY <1>2 DEF PushAtHand
<1> QED BY <1>5, <1>6

LEMMA NextPushInv == PushInv /\ [Next]_vars => PushInv'
<1> SUFFICES ASSUME PushInv, [Next]_vars PROVE PushInv'
  OBVIOUS
<1> DEFINE Goal == RowBeforePush' /\ PushAtHand' /\ OnePush'
<1> SUFFICES Goal
  BY NextTypeOK DEF PushInv
<1> USE DEF config, consumer, tables, outside
<1>1. ASSUME NEW level \in 0..TopLevel, PublishAlertEvent(level) PROVE Goal
  BY <1>1, RowsAndPushesStay DEF PublishAlertEvent
<1>2. CASE QuietChanges \/ CommitOffsets
  BY <1>2, RowsAndPushesStay DEF QuietChanges, CommitOffsets
<1>3. CASE SkipEvent \/ ReadSubscriptions \/ ResolveSmsContactRecipients \/ FinishEvent
  BY <1>3, RowsAndPushesStay
     DEF SkipEvent, ReadSubscriptions, ResolveSmsContactRecipients, FinishEvent, ResolveOffset,
         Idle
<1>4. ASSUME NEW c \in Contacts, CreateOrReuseSmsJob(c) PROVE Goal
  BY <1>4, RowsAndPushesStay DEF CreateOrReuseSmsJob
<1>5. ASSUME NEW answer \in {"sent", "failed", "skipped"}, SendSms(answer) PROVE Goal
  BY <1>5, RowsAndPushesStay DEF SendSms
<1>6. CASE UpdateSmsJobResult
  BY <1>6, RowsAndPushesStay DEF UpdateSmsJobResult
<1>7. CASE MarkSentFails
  BY <1>7, RowsAndPushesStay DEF MarkSentFails
<1>8. ASSUME NEW taken \in BOOLEAN, Throw(taken) PROVE Goal
  BY <1>8, RowsAndPushesStay DEF Throw, Abandon, Idle
<1>9. CASE Restart
  BY <1>9, RowsAndPushesStay DEF Restart, Abandon, Idle
<1>10. CASE UNCHANGED vars
  BY <1>10, RowsAndPushesStay DEF vars
<1>11. CASE Handler
  BY <1>3, <1>4, <1>5, <1>6, <1>11, InsertPush, SendPushPush, MarkPush DEF Handler
<1> QED BY <1>1, <1>2, <1>7, <1>8, <1>9, <1>10, <1>11 DEF Next

(* In every instance, however often an event is read again, a user's phone *)
(* is pushed it at most once, and a row says sent only of a push taken.    *)
THEOREM NotifiedOnePush == Spec => []OnePush
<1>1. PushInv => OnePush
  BY DEF PushInv
<1> QED BY <1>1, InitPushInv, NextPushInv, PTL DEF Spec
-----------------------------------------------------------------------------
(***************************************************************************)
(* An SMS sent stays sent: the pass is never at the SMS of a contact whose *)
(* job already says so.                                                    *)
(***************************************************************************)
SmsInv ==
    /\ TypeOK
    /\ phase \in {"sms", "record"} => job[Event][cur] # "sent"

FinalStep ==
    \A e \in EventIds, c \in Contacts :
        job[e][c] = "sent" => job'[e][c] = "sent" /\ texted'[e][c] = texted[e][c]

(* The cells of the event and a contact in the two tables of the SMS.      *)
LEMMA JobAtHand ==
  ASSUME TypeOK, phase # Idle, NEW d \in Contacts
  PROVE  \A st : \A e \in EventIds, c \in Contacts :
             [job EXCEPT ![Event][d] = st][e][c] =
                 IF e = Event /\ c = d THEN st ELSE job[e][c]
<1>1. Event \in EventIds
  BY AtHand
<1>2. job \in [EventIds -> [Contacts -> {None, "queued", "sent", "failed", "skipped"}]]
  BY DEF TypeOK
<1> QED BY <1>1, <1>2

LEMMA TextedAtHand ==
  ASSUME TypeOK, phase # Idle, NEW d \in Contacts
  PROVE  \A n : \A e \in EventIds, c \in Contacts :
             [texted EXCEPT ![Event][d] = n][e][c] =
                 IF e = Event /\ c = d THEN n ELSE texted[e][c]
<1>1. Event \in EventIds
  BY AtHand
<1>2. texted \in [EventIds -> [Contacts -> Nat]]
  BY DEF TypeOK
<1> QED BY <1>1, <1>2

LEMMA SmsStep == SmsInv /\ [Next]_vars => SmsInv' /\ FinalStep
<1> SUFFICES ASSUME SmsInv, [Next]_vars PROVE SmsInv' /\ FinalStep
  OBVIOUS
<1> DEFINE Goal == (phase' \in {"sms", "record"} => job'[Event'][cur'] # "sent") /\ FinalStep
<1> SUFFICES Goal
  BY NextTypeOK DEF SmsInv
<1> USE DEF SmsInv, config, consumer, tables, outside
<1>0. ASSUME UNCHANGED <<job, texted>>, \/ phase' \notin {"sms", "record"}
                                        \/ UNCHANGED <<phase, pos, cur>>
      PROVE  Goal
  BY <1>0 DEF FinalStep, Event
<1>a. /\ phase \in {"contacts", "sms", "record"} => phase # Idle /\ Event \in EventIds
      /\ phase \in {"sms", "record"} => cur \in Contacts
  BY AtHand DEF TypeOK, Idle
<1>1. ASSUME NEW level \in 0..TopLevel, PublishAlertEvent(level) PROVE Goal
  BY <1>0, <1>1 DEF PublishAlertEvent
<1>2. CASE QuietChanges \/ CommitOffsets
  BY <1>0, <1>2 DEF QuietChanges, CommitOffsets
<1>3. CASE SkipEvent \/ ReadSubscriptions \/ ResolveSmsContactRecipients \/ FinishEvent
  BY <1>0, <1>3
     DEF SkipEvent, ReadSubscriptions, ResolveSmsContactRecipients, FinishEvent, ResolveOffset,
         Idle
<1>4. ASSUME NEW c \in Contacts, CreateOrReuseSmsJob(c) PROVE Goal
  <2>1. /\ phase = "contacts" /\ UNCHANGED <<pos, texted>>
        /\ job' = [job EXCEPT ![Event][c] = IF job[Event][c] = None THEN "queued"
                                            ELSE job[Event][c]]
        /\ \/ job[Event][c] = "sent" /\ phase' = phase
           \/ job[Event][c] # "sent" /\ phase' = "sms" /\ cur' = c
    BY <1>4 DEF CreateOrReuseSmsJob
  <2>2. \A e \in EventIds, d \in Contacts :
            job'[e][d] = IF e = Event /\ d = c
                         THEN (IF job[Event][c] = None THEN "queued" ELSE job[Event][c])
                         ELSE job[e][d]
    BY <1>a, <2>1, JobAtHand
  <2>3. Event \in EventIds /\ Event' = Event
    BY <1>a, <2>1 DEF Event
  <2>4. FinalStep
    BY <2>1, <2>2 DEF FinalStep, None
  <2>5. phase' \in {"sms", "record"} => job'[Event'][cur'] # "sent"
    BY <2>1, <2>2, <2>3
  <2> QED BY <2>4, <2>5
<1>5. ASSUME NEW answer \in {"sent", "failed", "skipped"}, SendSms(answer) PROVE Goal
  <2>1. phase = "sms" /\ UNCHANGED <<pos, cur, job>>
    BY <1>5 DEF SendSms
  <2>2. PICK n : texted' = texted \/ texted' = [texted EXCEPT ![Event][cur] = n]
    BY <1>5 DEF SendSms
  <2>3. job[Event][cur] # "sent" /\ cur \in Contacts
    BY <1>a, <2>1
  <2>4. \A e \in EventIds, c \in Contacts :
            ~(e = Event /\ c = cur) => texted'[e][c] = texted[e][c]
    <3>1. CASE texted' = texted
      BY <3>1
    <3>2. CASE texted' = [texted EXCEPT ![Event][cur] = n]
      BY <1>a, <2>1, <3>2, TextedAtHand
    <3> QED BY <2>2, <3>1, <3>2
  <2>5. FinalStep
    BY <2>1, <2>3, <2>4 DEF FinalStep
  <2> QED BY <2>1, <2>3, <2>5 DEF Event
<1>6. CASE UpdateSmsJobResult
  <2>1. /\ phase = "record" /\ phase' = "contacts" /\ texted' = texted
        /\ job' = [job EXCEPT ![Event][cur] = result]
    BY <1>6 DEF UpdateSmsJobResult
  <2>2. FinalStep
    BY <1>a, <2>1, JobAtHand DEF FinalStep
  <2> QED BY <2>1, <2>2
<1>7. ASSUME NEW s \in Subscriptions, InsertNotification(s) PROVE Goal
  BY <1>0, <1>7 DEF InsertNotification
<1>8. ASSUME NEW taken \in BOOLEAN, NEW answered \in BOOLEAN, SendPush(taken, answered)
      PROVE  Goal
  BY <1>0, <1>8 DEF SendPush
<1>9. CASE MarkSent \/ MarkFailed \/ MarkSentFails
  BY <1>0, <1>9 DEF MarkSent, MarkFailed, MarkSentFails
<1>10. ASSUME NEW taken \in BOOLEAN, Throw(taken) PROVE Goal
  <2>1. phase' = Idle /\ job' = job
    BY <1>10 DEF Throw, Abandon
  <2>2. CASE ~taken
    BY <1>0, <1>10, <2>1, <2>2 DEF Throw, Idle
  <2>3. CASE taken
    <3>1. PICK n : phase = "sms" /\ texted' = [texted EXCEPT ![Event][cur] = n]
      BY <1>10, <2>3 DEF Throw
    <3> QED BY <1>a, <2>1, <3>1, TextedAtHand DEF FinalStep, Idle
  <2> QED BY <2>2, <2>3
<1>11. CASE Restart
  BY <1>0, <1>11 DEF Restart, Abandon, Idle
<1>12. CASE UNCHANGED vars
  BY <1>0, <1>12 DEF vars
<1>13. CASE Handler
  BY <1>3, <1>4, <1>5, <1>6, <1>7, <1>8, <1>9, <1>13 DEF Handler
<1> QED BY <1>1, <1>2, <1>9, <1>10, <1>11, <1>12, <1>13 DEF Next

(* In every instance an SMS the table has as sent is never sent again, and *)
(* its status never changes.                                               *)
THEOREM NotifiedSentSmsIsFinal == Spec => SentSmsIsFinal
<1>1. Init => SmsInv
  BY InitTypeOK DEF Init, SmsInv, Idle
<1>2. SmsInv /\ [Next]_vars => SmsInv' /\ FinalStep
  BY SmsStep
<1>3. Spec => [][FinalStep]_vars
  BY <1>1, <1>2, PTL DEF Spec
<1> QED BY <1>3 DEF SentSmsIsFinal, FinalStep
=============================================================================
