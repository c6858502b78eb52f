----------------------------- MODULE AlertStream -----------------------------
(***************************************************************************)
(* GET /alerts/stream and its client, AlertStreamClient of the HarmonyOS   *)
(* app.  The server keeps a cursor per connection and polls alert_events   *)
(* for rows after it; the client resumes with Last-Event-ID.               *)
(*                                                                         *)
(* created_at is the time an INSERT starts, in microseconds; a row becomes *)
(* visible later, when its statement commits.  The cursor is a JavaScript  *)
(* Date: it keeps the milliseconds only, so a poll finds the rows of the   *)
(* cursor's millisecond again, and the client drops the repetitions.       *)
(*                                                                         *)
(* Bounds: MaxEvents is below the LIMIT of a poll and below the 128 ids a  *)
(* client remembers; a poll finds the page before it delivered.            *)
(***************************************************************************)
EXTENDS Integers, Sequences, SequencesExt

CONSTANTS
    Alerts,      \* alert ids
    MaxEvents,   \* bound: rows of alert_events
    PerMs,       \* microseconds in a millisecond
    MaxDrops     \* bound: connections lost

ASSUME AlertStreamAssumption ==
    /\ MaxEvents \in 1..100
    /\ MaxDrops \in Nat
    /\ PerMs \in Nat \ {0}

VARIABLES
    events,       \* rows of alert_events, by event_id
    link,         \* the client: off (stopped), down (to reconnect), up, or
                  \* dead (not stopped, with no connection nor timer)
    cursor,       \* of the connection, while the link is up
    wire,         \* events sent and not yet received
    lastEventId,  \* 0 if the client has none
    seen,         \* seenEventIds
    drops

linkVars == <<link, cursor, wire, lastEventId, seen>>
streamVars == <<events, linkVars, drops>>

(* Event ids are random: their order has nothing to do with time.          *)
EventIds == 1..MaxEvents
NoEvent == [alert |-> "none", type |-> "none", createdAt |-> 0, visible |-> FALSE]
ZeroUuid == 0

Begun(e) == events[e] # NoEvent

(* The clock: only the microseconds an INSERT starts in count.             *)
now == Cardinality({e \in EventIds : Begun(e)})

Visible(e) == events[e].visible

StreamInit ==
    /\ events = [e \in EventIds |-> NoEvent]
    /\ link = "off"
    /\ cursor = [at |-> 0, id |-> ZeroUuid]
    /\ wire = <<>>
    /\ lastEventId = ZeroUuid
    /\ seen = {}
    /\ drops = 0
-----------------------------------------------------------------------------
(***************************************************************************)
(* The writers of alert_events: the rule engine triggers and resolves, the *)
(* API acknowledges and resolves for an operator.                          *)
(***************************************************************************)
Triggered(a) == \E e \in EventIds : events[e].alert = a
TriggerVisible(a) == \E e \in EventIds : events[e].alert = a /\ Visible(e)

BeginInsert(e, a, type) ==
    /\ ~Begun(e)
    /\ IF type = "ALERT_TRIGGER" THEN ~Triggered(a) ELSE TriggerVisible(a)
    /\ events' = [events EXCEPT ![e] =
        [alert |-> a, type |-> type, createdAt |-> now + 1, visible |-> FALSE]]
    /\ UNCHANGED <<linkVars, drops>>

CommitInsert(e) ==
    /\ Begun(e) /\ ~Visible(e)
    /\ events' = [events EXCEPT ![e].visible = TRUE]
    /\ UNCHANGED <<linkVars, drops>>
-----------------------------------------------------------------------------
(***************************************************************************)
(* The server.                                                             *)
(***************************************************************************)
ToDate(time) == time - (time % PerMs)

CursorAt(e) == [at |-> ToDate(events[e].createdAt), id |-> e]

InitialCursor ==
    IF lastEventId # ZeroUuid THEN CursorAt(lastEventId)
    ELSE [at |-> ToDate(now), id |-> ZeroUuid]

(* (created_at, event_id) > (cursor.created_at, cursor.event_id)           *)
After(e, c) ==
    \/ events[e].createdAt > c.at
    \/ events[e].createdAt = c.at /\ e > c.id

(* ORDER BY created_at, which no two rows share: the one way to list S.    *)
InOrder(S) ==
    {s \in [1..Cardinality(S) -> S] :
        /\ ToSet(s) = S
        /\ \A i, j \in DOMAIN s : i < j => events[s[i]].createdAt < events[s[j]].createdAt}

EventsAfter(c) == InOrder({e \in EventIds : Visible(e) /\ After(e, c)})

(* Mutant: a poll that found something leaves the polling flag set.        *)
PollOnce ==
    /\ link = "up"
    /\ wire = <<>>
    /\ cursor.id = ZeroUuid
    /\ wire' \in EventsAfter(cursor)
    /\ wire' # <<>>
    /\ cursor' = CursorAt(Last(wire'))
    /\ UNCHANGED <<events, link, lastEventId, seen, drops>>

Poll ==
    /\ link = "up"
    /\ wire = <<>>
    /\ wire' \in EventsAfter(cursor)
    /\ wire' # <<>>
    /\ cursor' = CursorAt(Last(wire'))
    /\ UNCHANGED <<events, link, lastEventId, seen, drops>>
-----------------------------------------------------------------------------
(***************************************************************************)
(* The client.                                                             *)
(***************************************************************************)
Start ==
    /\ link = "off"
    /\ link' = "down"
    /\ UNCHANGED <<events, cursor, wire, lastEventId, seen, drops>>

CloseRequest ==
    /\ wire' = <<>>
    /\ cursor' = [at |-> 0, id |-> ZeroUuid]

Stop ==
    /\ link # "off"
    /\ link' = "off"
    /\ CloseRequest
    /\ UNCHANGED <<events, lastEventId, seen, drops>>

(* Stopped and let go: the next client knows neither the last event nor    *)
(* any other.                                                              *)
Reset ==
    /\ link' = "off"
    /\ CloseRequest
    /\ lastEventId' = ZeroUuid
    /\ seen' = {}
    /\ UNCHANGED <<events, drops>>

Connect ==
    /\ link = "down"
    /\ link' = "up"
    /\ cursor' = InitialCursor
    /\ UNCHANGED <<events, wire, lastEventId, seen, drops>>

(* connect() returns at once when there is no session, and nothing calls   *)
(* it again: start() does so only for a client that was stopped.           *)
GiveUp ==
    /\ link = "down"
    /\ link' = "dead"
    /\ UNCHANGED <<events, cursor, wire, lastEventId, seen, drops>>

(* The network or the server goes away; the client reconnects in a while.  *)
ConnectionLost ==
    /\ link = "up"
    /\ drops < MaxDrops
    /\ drops' = drops + 1
    /\ link' = "down"
    /\ CloseRequest
    /\ UNCHANGED <<events, lastEventId, seen>>

(* Mutant: what was seen is not remembered.                                *)
IsNewAlways(e) == TRUE

IsNew(e) == e \notin seen

(* consumeBlock: the next event on the wire.                               *)
ConsumeBlock ==
    /\ wire # <<>>
    /\ wire' = Tail(wire)
    /\ lastEventId' = Head(wire)
    /\ seen' = seen \cup {Head(wire)}
    /\ UNCHANGED <<events, link, cursor, drops>>

StreamTypeOK ==
    /\ events \in [EventIds -> {NoEvent} \cup
         [alert : Alerts, type : {"ALERT_TRIGGER", "ALERT_ACK", "ALERT_RESOLVE"},
          createdAt : EventIds, visible : BOOLEAN]]
    /\ link \in {"off", "down", "up", "dead"}
    /\ cursor \in [at : 0..MaxEvents, id : EventIds \cup {ZeroUuid}]
    /\ wire \in Seq(EventIds)
    /\ lastEventId \in EventIds \cup {ZeroUuid}
    /\ seen \subseteq EventIds
    /\ drops \in 0..MaxDrops
=============================================================================
