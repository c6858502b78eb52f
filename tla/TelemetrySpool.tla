--------------------------- MODULE TelemetrySpool ---------------------------
(***************************************************************************)
(* The way of telemetry through the field gateway (field-gateway index.ts).*)
(* Every payload from a serial port runs in a handler of its own, which    *)
(* writes it to the directory of pending records; one replay at a time     *)
(* publishes the pending records in the order of their names.  Handlers,   *)
(* the replay, the MQTT client and the broker interleave at every await.   *)
(*                                                                         *)
(* A record is named by its place in the order of arrival, and its file by *)
(* StampOf and a random id: files of one millisecond are in no order.      *)
(* Copies of published and rejected records are kept as what was ever      *)
(* filed: retention removes the oldest ones and nothing reads them back.   *)
(***************************************************************************)
EXTENDS Integers, Sequences, FiniteSets

CONSTANTS
    MaxRecords,     \* payloads that arrive
    StampOf,        \* the millisecond each of them arrives in
    PendingLimits,  \* values config.maxPendingRecords may have
    MaxHandlers,    \* payloads handled at the same time
    Faults,         \* of "timeout", "drop", "disk", "restart", "power"
    MaxMishaps      \* how many faults a behaviour has

Records == 1..MaxRecords
Timer   == 0        \* the owner of a replay that no handler awaits
NoRecord == 0

ASSUME SpoolAssumption ==
    /\ MaxRecords \in Nat
    /\ StampOf \in [Records -> Nat]
    /\ PendingLimits \subseteq Nat \ {0} /\ MaxHandlers \in Nat /\ MaxMishaps \in Nat
    /\ Faults \subseteq {"timeout", "drop", "disk", "restart", "power"}

VARIABLES
    maxPendingRecords,  \* chosen once, at deployment
    handler,    \* where the handler of each payload is
    pending,    \* files in the pending directory
    unreadable, \* those of them that no longer parse
    published,  \* copies filed as published
    evidence,   \* copies filed as rejected
    step,       \* where the replay is; "off" is replayRunning = false
    owner,      \* the handler that awaits the replay, or Timer
    rest,       \* files of its listing it has still to look at
    current,    \* the record it is at
    link,       \* is the connection to the broker up?
    connected,  \* mqttConnected
    outbox,     \* publications the MQTT client has not been acknowledged
    sent,       \* how many of them the broker has received
    received,   \* how often the broker has received each record
    ahead,      \* history: records pending when a payload arrived
    mishaps     \* faults so far

spoolVars  == <<pending, unreadable, published, evidence>>
replayVars == <<step, owner, rest, current>>
mqttVars   == <<link, connected, outbox, sent, received>>
noteVars   == <<maxPendingRecords, ahead>>
vars == <<handler, spoolVars, replayVars, mqttVars, noteVars, mishaps>>

Init ==
    /\ maxPendingRecords \in PendingLimits
    /\ handler = [r \in Records |-> "none"]
    /\ pending = {} /\ unreadable = {} /\ published = {} /\ evidence = {}
    /\ step = "off" /\ owner = Timer /\ rest = {} /\ current = NoRecord
    /\ link = FALSE /\ connected = FALSE /\ outbox = <<>> /\ sent = 0
    /\ received = [r \in Records |-> 0]
    /\ ahead = [r \in Records |-> {}]
    /\ mishaps = 0

Mishap(fault) ==
    /\ fault \in Faults
    /\ mishaps < MaxMishaps
    /\ mishaps' = mishaps + 1
-----------------------------------------------------------------------------
(***************************************************************************)
(* The handler of a payload.                                               *)
(***************************************************************************)
Busy == {r \in Records : handler[r] \notin {"none", "done"}}
Goes(r, place) == handler' = [handler EXCEPT ![r] = place]

Arrives(r) ==
    /\ handler[r] = "none"
    /\ \A q \in Records : q < r => handler[q] # "none"
    /\ Cardinality(Busy) < MaxHandlers
    /\ ahead' = [ahead EXCEPT ![r] = pending]
    /\ UNCHANGED <<maxPendingRecords, spoolVars, replayVars, mqttVars, mishaps>>

(* Too large, not JSON, not the schema, or from a node the port does not   *)
(* have: the payload is evidence only.                                     *)
ArrivesRefused(r) == Arrives(r) /\ Goes(r, "filing")

(* The limit is compared with the files there are now, the file is written *)
(* later: payloads handled side by side may pass it together.              *)
ArrivesAccepted(r) ==
    /\ Arrives(r)
    /\ Goes(r, IF Cardinality(pending) >= maxPendingRecords THEN "filing" ELSE "counted")

Enqueue(r) ==
    /\ handler[r] = "counted"
    /\ pending' = pending \cup {r}
    /\ Goes(r, "stored")
    /\ UNCHANGED <<unreadable, published, evidence, replayVars, mqttVars, noteVars, mishaps>>

EnqueueFails(r) ==
    /\ handler[r] = "counted"
    /\ Mishap("disk")
    /\ Goes(r, "filing")
    /\ UNCHANGED <<spoolVars, replayVars, mqttVars, noteVars>>

(* Mutant: replayRunning is not looked at.                                 *)
CanReplayAgain == connected

(* replayPending("ingest") returns at once while another replay runs or    *)
(* there is no broker.                                                     *)
CanReplay == step = "off" /\ connected

LeaveReplayToOthers(r) ==
    /\ handler[r] = "stored" /\ ~CanReplay
    /\ Goes(r, "done")
    /\ UNCHANGED <<spoolVars, replayVars, mqttVars, noteVars, mishaps>>

(* The evidence of a payload, also of one whose handler failed after its   *)
(* record was stored.                                                      *)
RejectIncoming(r) ==
    /\ handler[r] = "filing"
    /\ evidence' = evidence \cup {r}
    /\ Goes(r, "done")
    /\ UNCHANGED <<pending, unreadable, published, replayVars, mqttVars, noteVars, mishaps>>

RejectIncomingFails(r) ==
    /\ handler[r] = "filing"
    /\ Mishap("disk")
    /\ Goes(r, "done")
    /\ UNCHANGED <<spoolVars, replayVars, mqttVars, noteVars>>
-----------------------------------------------------------------------------
(***************************************************************************)
(* The replay.                                                             *)
(***************************************************************************)
StartReplay(who) ==
    /\ CanReplay
    /\ step' = "next" /\ owner' = who /\ rest' = pending /\ current' = NoRecord
    /\ UNCHANGED <<spoolVars, mqttVars, noteVars, mishaps>>

ReplayOnIngest(r) ==
    /\ handler[r] = "stored"
    /\ StartReplay(r)
    /\ Goes(r, "replaying")

ReplayOnTimer == StartReplay(Timer) /\ UNCHANGED handler

(* Mutant: the files are taken in any order.                               *)
AnyOf(files) == files

FirstOf(files) == {r \in files : \A q \in files : StampOf[r] <= StampOf[q]}

(* The next file of the listing is read and published.                     *)
Publish ==
    /\ step = "next"
    /\ \E r \in FirstOf(rest) \ unreadable :
        /\ current' = r
        /\ rest' = rest \ {r}
        /\ outbox' = Append(outbox, r)
    /\ step' = "await"
    /\ UNCHANGED <<handler, spoolVars, owner, link, connected, sent, received, noteVars, mishaps>>

(* A file that does not parse becomes evidence; if that fails, the replay  *)
(* ends.                                                                   *)
FileUnreadable ==
    /\ step = "next"
    /\ \E r \in FirstOf(rest) \cap unreadable :
        /\ evidence' = evidence \cup {r}
        /\ current' = r
        /\ rest' = rest \ {r}
    /\ step' = "discard"
    /\ UNCHANGED <<handler, pending, unreadable, published, owner, mqttVars, noteVars, mishaps>>

(* Mutant: a file that is gone is still taken for one that does not parse. *)
DiscardUnreadableKeepsMark ==
    /\ step = "discard"
    /\ pending' = pending \ {current}
    /\ step' = "next"
    /\ UNCHANGED <<handler, unreadable, published, evidence, owner, rest, current,
                   mqttVars, noteVars, mishaps>>

DiscardUnreadable ==
    /\ step = "discard"
    /\ pending' = pending \ {current}
    /\ unreadable' = unreadable \ {current}
    /\ step' = "next"
    /\ UNCHANGED <<handler, published, evidence, owner, rest, current, mqttVars, noteVars, mishaps>>

(* Mutant: a publication without an answer counts as published.            *)
PublishTimesOutMarks ==
    /\ step = "await"
    /\ Mishap("timeout")
    /\ step' = "mark"
    /\ UNCHANGED <<handler, spoolVars, owner, rest, current, mqttVars, noteVars>>

(* Nobody waits for the answer any longer; the publication stays with the  *)
(* MQTT client.                                                            *)
PublishTimesOut ==
    /\ step = "await"
    /\ Mishap("timeout")
    /\ step' = "failed"
    /\ UNCHANGED <<handler, spoolVars, owner, rest, current, mqttVars, noteVars>>

MarkPublished ==
    /\ step = "mark"
    /\ published' = published \cup {current}
    /\ step' = "remove"
    /\ UNCHANGED <<handler, pending, unreadable, evidence, owner, rest, current, mqttVars,
                   noteVars, mishaps>>

RemovePending ==
    /\ step = "remove"
    /\ pending' = pending \ {current}
    /\ step' = "trim"
    /\ UNCHANGED <<handler, unreadable, published, evidence, owner, rest, current, mqttVars,
                   noteVars, mishaps>>

TrimPublished ==
    /\ step = "trim"
    /\ step' = "next"
    /\ UNCHANGED <<handler, spoolVars, owner, rest, current, mqttVars, noteVars, mishaps>>

(* Filing the published copy, removing the pending file or trimming fails: *)
(* the record is treated as not published.                                 *)
MarkPublishedFails ==
    /\ step \in {"mark", "remove", "trim"}
    /\ Mishap("disk")
    /\ step' = "failed"
    /\ UNCHANGED <<handler, spoolVars, owner, rest, current, mqttVars, noteVars>>

(* What awaits the replay once replayRunning is reset; the health file is  *)
(* still to be written.                                                    *)
EndReplay(place) ==
    /\ step' = "off" /\ owner' = Timer /\ rest' = {} /\ current' = NoRecord
    /\ handler' = IF owner = Timer THEN handler ELSE [handler EXCEPT ![owner] = place]

(* Mutant: the record that could not be published is given up.             *)
WriteAttemptDrops ==
    /\ step = "failed"
    /\ pending' = pending \ {current}
    /\ EndReplay("health")
    /\ UNCHANGED <<unreadable, published, evidence, mqttVars, noteVars, mishaps>>

(* Mutant: replayRunning is not reset after a failure.                      *)
WriteAttemptNoFinally ==
    /\ step = "failed"
    /\ pending' = pending \cup {current}
    /\ handler' = IF owner = Timer THEN handler ELSE [handler EXCEPT ![owner] = "health"]
    /\ UNCHANGED <<unreadable, published, evidence, replayVars, mqttVars, noteVars, mishaps>>

(* The attempt is written back to the pending file, which is there again   *)
(* if it had been removed, and the replay ends.                            *)
WriteAttempt ==
    /\ step = "failed"
    /\ pending' = pending \cup {current}
    /\ EndReplay("health")
    /\ UNCHANGED <<unreadable, published, evidence, mqttVars, noteVars, mishaps>>

ReplayDone ==
    /\ step = "next" /\ rest = {}
    /\ EndReplay("health")
    /\ UNCHANGED <<spoolVars, mqttVars, noteVars, mishaps>>

(* The evidence of a file that does not parse could not be written.        *)
FileUnreadableFails ==
    /\ \/ step = "discard"
       \/ step = "next" /\ FirstOf(rest) \cap unreadable # {}
    /\ Mishap("disk")
    /\ EndReplay("health")
    /\ UNCHANGED <<spoolVars, mqttVars, noteVars>>

(* Writing the attempt fails as well: the replay throws.  Its handler      *)
(* files the record as rejected; without a handler the process ends, see   *)
(* UnhandledRejection.                                                     *)
WriteAttemptFails ==
    /\ step = "failed" /\ owner # Timer
    /\ Mishap("disk")
    /\ EndReplay("filing")
    /\ UNCHANGED <<spoolVars, mqttVars, noteVars>>

EmitHealth(r) ==
    /\ handler[r] = "health"
    /\ Goes(r, "done")
    /\ UNCHANGED <<spoolVars, replayVars, mqttVars, noteVars, mishaps>>

EmitHealthFails(r) ==
    /\ handler[r] = "health"
    /\ Mishap("disk")
    /\ Goes(r, "filing")
    /\ UNCHANGED <<spoolVars, replayVars, mqttVars, noteVars>>
-----------------------------------------------------------------------------
(***************************************************************************)
(* The MQTT client and the broker.                                         *)
(***************************************************************************)
(* On every connect a replay starts, unless one is running.  The client    *)
(* sends again what was not acknowledged.                                  *)
Connect ==
    /\ ~link
    /\ link' = TRUE /\ connected' = TRUE
    /\ IF step = "off"
       THEN step' = "next" /\ owner' = Timer /\ rest' = pending /\ current' = NoRecord
       ELSE UNCHANGED replayVars
    /\ UNCHANGED <<handler, spoolVars, outbox, sent, received, noteVars, mishaps>>

(* mqttConnected follows later, when the client reconnects or fails.       *)
Disconnect ==
    /\ link
    /\ Mishap("drop")
    /\ link' = FALSE /\ sent' = 0
    /\ UNCHANGED <<handler, spoolVars, replayVars, connected, outbox, received, noteVars>>

NoticeDisconnect ==
    /\ ~link /\ connected
    /\ connected' = FALSE
    /\ UNCHANGED <<handler, spoolVars, replayVars, link, outbox, sent, received, noteVars, mishaps>>

BrokerReceives ==
    /\ link /\ sent < Len(outbox)
    /\ sent' = sent + 1
    /\ received' = [received EXCEPT ![outbox[sent + 1]] = @ + 1]
    /\ UNCHANGED <<handler, spoolVars, replayVars, link, connected, outbox, noteVars, mishaps>>

(* The replay awaits the publication that is last in the outbox.           *)
BrokerAcks ==
    /\ link /\ sent > 0
    /\ outbox' = Tail(outbox) /\ sent' = sent - 1
    /\ step' = IF step = "await" /\ Len(outbox) = 1 THEN "mark" ELSE step
    /\ UNCHANGED <<handler, spoolVars, owner, rest, current, link, connected, received,
                   noteVars, mishaps>>
-----------------------------------------------------------------------------
(***************************************************************************)
(* The end of the process.                                                 *)
(***************************************************************************)
(* Payloads being handled and publications not acknowledged are forgotten. *)
Stop ==
    /\ handler' = [r \in Records |-> IF r \in Busy THEN "done" ELSE handler[r]]
    /\ step' = "off" /\ owner' = Timer /\ rest' = {} /\ current' = NoRecord
    /\ link' = FALSE /\ connected' = FALSE /\ outbox' = <<>> /\ sent' = 0
    /\ UNCHANGED <<pending, published, evidence, received, noteVars>>

Restart == Mishap("restart") /\ Stop /\ UNCHANGED unreadable

(* Writes are renamed into place but not synced: files may be empty after  *)
(* the power comes back.                                                   *)
PowerFails ==
    /\ Mishap("power")
    /\ Stop
    /\ unreadable' \in {unreadable \cup {r} : r \in pending}

(* A replay or a health report that nobody awaits throws.                  *)
UnhandledRejection == Mishap("disk") /\ Stop /\ UNCHANGED unreadable
-----------------------------------------------------------------------------
HandlerStep(r) ==
    \/ Enqueue(r) \/ LeaveReplayToOthers(r) \/ ReplayOnIngest(r)
    \/ EmitHealth(r) \/ RejectIncoming(r)

HandlerFails(r) == EnqueueFails(r) \/ EmitHealthFails(r) \/ RejectIncomingFails(r)

ReplayStep ==
    \/ Publish \/ FileUnreadable \/ DiscardUnreadable
    \/ MarkPublished \/ RemovePending \/ TrimPublished \/ WriteAttempt \/ ReplayDone

ReplayFails ==
    PublishTimesOut \/ MarkPublishedFails \/ FileUnreadableFails \/ WriteAttemptFails

Crash == Restart \/ PowerFails \/ UnhandledRejection

EventLoop == ReplayStep \/ \E r \in Records : HandlerStep(r)
ClientStep == Connect \/ BrokerAcks

GatewayStep ==
    \/ \E r \in Records : ArrivesRefused(r) \/ ArrivesAccepted(r) \/ HandlerFails(r)
    \/ EventLoop \/ ReplayOnTimer \/ ReplayFails
    \/ ClientStep \/ Disconnect \/ NoticeDisconnect
    \/ Crash

Next == GatewayStep \/ BrokerReceives

Spec == Init /\ [][Next]_vars
-----------------------------------------------------------------------------
Places == {"none", "counted", "stored", "replaying", "health", "filing", "done"}
Steps  == {"off", "next", "await", "mark", "remove", "trim", "failed", "discard"}

TypeOK ==
    /\ maxPendingRecords \in PendingLimits
    /\ handler \in [Records -> Places]
    /\ pending \subseteq Records /\ unreadable \subseteq pending
    /\ published \subseteq Records /\ evidence \subseteq Records
    /\ step \in Steps /\ owner \in Records \cup {Timer}
    /\ rest \subseteq Records /\ current \in Records \cup {NoRecord}
    /\ link \in BOOLEAN /\ connected \in BOOLEAN
    /\ outbox \in Seq(Records) /\ sent \in 0..Len(outbox)
    /\ received \in [Records -> Nat]
    /\ ahead \in [Records -> SUBSET Records]
    /\ mishaps \in 0..MaxMishaps

(* The spool implements at-least-once delivery.                            *)
Delivery == INSTANCE TelemetryDelivery WITH
    held <- pending, received <- {r \in Records : received[r] > 0}
ImplementsDelivery == Delivery!Spec

(* A copy is filed as published only of what the broker has.               *)
PublishedWasReceived == \A r \in published : received[r] > 0

(* Nothing is sent twice, and nothing stored is filed as rejected, as long *)
(* as no fault has occurred: however handlers, timer and connection ask    *)
(* for replays, one runs at a time.                                        *)
OnceUnlessMishap ==
    mishaps = 0 => \A r \in Records :
        /\ received[r] <= 1
        /\ r \in evidence => r \notin pending /\ received[r] = 0

(* Payloads keep their order: one whose file was pending when another      *)
(* arrived, in a later millisecond, reaches the broker before it, through  *)
(* failed publications, late acknowledgements and restarts.  The writer    *)
(* downstream takes a record that comes after its successor for a repeat.  *)
OrderIsKept ==
    [][\A r \in Records : received[r] = 0 /\ received'[r] > 0 =>
          \A q \in ahead[r] :
              StampOf[q] < StampOf[r] => received[q] > 0 \/ q \in evidence]_vars
=============================================================================
