--------------------------- MODULE DeviceCommands ---------------------------
(***************************************************************************)
(* The cloud side of a device command, from the API call to the lifecycle  *)
(* event: the API's issue transaction, command-dispatcher, the MQTT broker *)
(* and the device behind it, command-ack-receiver (an MQTT handler and a   *)
(* Kafka consumer that apply the same acknowledgement), and                *)
(* command-timeout-worker, over the shared tables devices and              *)
(* device_commands.                                                        *)
(*                                                                         *)
(* One action is the code between two awaits that other processes can      *)
(* interleave with.  A Kafka topic is a sequence and a consumer group is a *)
(* position in it (what the running consumer has resolved) and a committed *)
(* offset (what a restarted one resumes from).                             *)
(***************************************************************************)
EXTENDS Integers, Sequences, FiniteSets

CONSTANTS
    Commands,        \* command ids
    Devices,         \* devices
    DeviceOf,        \* the device a command is for
    AckTimes,        \* the instants an acknowledgement may carry
    ScanLimit,       \* config.scanLimit of the timeout worker
    MaxHandlers,     \* bound: MQTT handlers under way at once
    MaxAckLog,       \* bound: acknowledgements forwarded to Kafka
    MaxRestarts      \* bound: restarts of command-dispatcher and of
                     \* command-ack-receiver, together

ASSUME DeviceOfAssumption == DeviceOf \in [Commands -> Devices]
ASSUME CommandsAssumption == IsFiniteSet(Commands)
ASSUME AckTimesAssumption == AckTimes \subseteq Nat \ {0}
ASSUME BoundsAssumption ==
    /\ ScanLimit \in Nat \ {0}
    /\ MaxHandlers \in Nat
    /\ MaxAckLog \in Nat
    /\ MaxRestarts \in Nat

VARIABLES
    revoked,         \* devices.status = 'revoked'
    api,             \* progress of the request that issues each command
    status,          \* device_commands.status, "absent" until COMMIT
    sentAt,          \* device_commands.sent_at as a rank, 0 for NULL
    ackedAt,         \* device_commands.acked_at, 0 for NULL
    commandLog,      \* topic device.commands.v1
    dispatch,        \* what command-dispatcher does with the current message
    dispatchPos,     \* resolved position of its consumer
    dispatchCommitted,  \* committed offset of its group
    toDevice,        \* commands the broker has taken for a device (QoS 1)
    handlers,        \* MQTT message handlers of the receiver under way
    ackLog,          \* topic device.command_acks.v1
    ackPos,          \* resolved position of the receiver's consumer
    ackCommitted,    \* committed offset of its group
    scan,            \* rows the timeout worker selected and has yet to visit
    owed,            \* UPDATEs that took effect and whose event is unpublished
    eventLog,        \* topic device.command_events.v1
    restarts         \* restarts so far of each process

devVars      == <<revoked>>
rowVars      == <<status, sentAt, ackedAt>>
dispatchVars == <<dispatch, dispatchPos, dispatchCommitted>>
ackVars      == <<handlers, ackLog, ackPos, ackCommitted>>
eventVars    == <<owed, eventLog>>
vars == <<revoked, api, status, sentAt, ackedAt, commandLog, dispatch,
          dispatchPos, dispatchCommitted, toDevice, handlers, ackLog,
          ackPos, ackCommitted, scan, owed, eventLog, restarts>>

Open        == {"queued", "sent"}
AckStatuses == {"acked", "failed"}
Outcomes    == AckStatuses \cup {"timeout"}
Statuses    == Open \cup Outcomes \cup {"canceled"}
Settlers    == {"handler", "consumer", "timeout"}

Untrusted == 0   \* ack_ts of a device whose clock is not set
NoOffset  == -1  \* the group has never committed

Acks     == [cmd : Commands, status : AckStatuses, ts : AckTimes]
Handlers == [ack : Acks, pc : {"forward", "apply"}]
Owed     == [by : Settlers, cmd : Commands, outcome : Outcomes]
Events   == [cmd : Commands, outcome : Outcomes]

Init ==
    /\ revoked = [d \in Devices |-> FALSE]
    /\ api = [c \in Commands |-> "idle"]
    /\ status = [c \in Commands |-> "absent"]
    /\ sentAt = [c \in Commands |-> 0]
    /\ ackedAt = [c \in Commands |-> 0]
    /\ commandLog = <<>>
    /\ dispatch = "fetch"
    /\ dispatchPos = 0
    /\ dispatchCommitted = NoOffset
    /\ toDevice = {}
    /\ handlers = {}
    /\ ackLog = <<>>
    /\ ackPos = 0
    /\ ackCommitted = NoOffset
    /\ scan = {}
    /\ owed = {}
    /\ eventLog = <<>>
    /\ restarts = [dispatcher |-> 0, receiver |-> 0]
-----------------------------------------------------------------------------
(***************************************************************************)
(* Kafka consumer groups.  Both consumers subscribe with fromBeginning =   *)
(* FALSE, resolve message by message with auto-commit off, and ask at the  *)
(* end of a batch that offsets be committed "if necessary": the commit may *)
(* or may not be made.                                                     *)
(***************************************************************************)
(* Mutant: off by one at the end of the log.                               *)
ResumeAfterEnd(committed, log) == IF committed = NoOffset THEN Len(log) + 1 ELSE committed

ResumeAt(committed, log) == IF committed = NoOffset THEN Len(log) ELSE committed

MayRestart == restarts.dispatcher + restarts.receiver < MaxRestarts
-----------------------------------------------------------------------------
(***************************************************************************)
(* The API: POST /devices/:deviceId/commands, and the calls that revoke    *)
(* and reactivate a device.                                                *)
(***************************************************************************)

(* The status of the device is read before the transaction begins.         *)
ApiCheckDevice(c) ==
    /\ api[c] = "idle"
    /\ api' = [api EXCEPT ![c] = IF revoked[DeviceOf[c]] THEN "refused" ELSE "inserted"]
    /\ UNCHANGED <<devVars, rowVars, commandLog, dispatchVars, toDevice, ackVars,
                   scan, eventVars, restarts>>

(* The row is inserted but not committed when the message goes to Kafka.   *)
ApiPublish(c) ==
    /\ api[c] = "inserted"
    /\ commandLog' = Append(commandLog, c)
    /\ api' = [api EXCEPT ![c] = "published"]
    /\ UNCHANGED <<devVars, rowVars, dispatchVars, toDevice, ackVars, scan,
                   eventVars, restarts>>

(* Mutant: the row is committed before the message is sent.                *)
ApiCommitFirst(c) ==
    /\ api[c] = "inserted"
    /\ api' = [api EXCEPT ![c] = "committed"]
    /\ status' = [status EXCEPT ![c] = "queued"]
    /\ UNCHANGED <<devVars, sentAt, ackedAt, commandLog, dispatchVars, toDevice,
                   ackVars, scan, eventVars, restarts>>

ApiCommit(c) ==
    /\ api[c] = "published"
    /\ api' = [api EXCEPT ![c] = "committed"]
    /\ status' = [status EXCEPT ![c] = "queued"]
    /\ UNCHANGED <<devVars, sentAt, ackedAt, commandLog, dispatchVars, toDevice,
                   ackVars, scan, eventVars, restarts>>

(* The publisher or COMMIT throws, or the API stops: the row is rolled     *)
(* back, whether or not Kafka has the message.                             *)
ApiRollback(c) ==
    /\ api[c] \in {"inserted", "published"}
    /\ api' = [api EXCEPT ![c] = "rolledback"]
    /\ UNCHANGED <<devVars, rowVars, commandLog, dispatchVars, toDevice, ackVars,
                   scan, eventVars, restarts>>

Revoke(d) ==
    /\ ~revoked[d]
    /\ revoked' = [revoked EXCEPT ![d] = TRUE]
    /\ UNCHANGED <<api, rowVars, commandLog, dispatchVars, toDevice, ackVars,
                   scan, eventVars, restarts>>

Reactivate(d) ==
    /\ revoked[d]
    /\ revoked' = [revoked EXCEPT ![d] = FALSE]
    /\ UNCHANGED <<api, rowVars, commandLog, dispatchVars, toDevice, ackVars,
                   scan, eventVars, restarts>>
-----------------------------------------------------------------------------
(***************************************************************************)
(* command-dispatcher.                                                     *)
(***************************************************************************)
HasMessage == dispatchPos < Len(commandLog)
Current    == commandLog[dispatchPos + 1]

(* The row is still not visible when the five seconds of retries are over: *)
(* the message is skipped.                                                 *)
DispatchMissing ==
    /\ dispatch = "fetch" /\ HasMessage
    /\ status[Current] = "absent"
    /\ dispatchPos' = dispatchPos + 1
    /\ UNCHANGED <<devVars, api, rowVars, commandLog, dispatch, dispatchCommitted,
                   toDevice, ackVars, scan, eventVars, restarts>>

(* Mutant: the row is recorded sent and then published.                    *)
DispatchLookupRecordFirst ==
    /\ dispatch = "fetch" /\ HasMessage
    /\ status[Current] # "absent"
    /\ dispatch' = "record"
    /\ UNCHANGED <<devVars, api, rowVars, commandLog, dispatchPos, dispatchCommitted,
                   toDevice, ackVars, scan, eventVars, restarts>>

(* One query reads the status of the command and of its device; what is    *)
(* done next is decided from it, whatever happens to the rows meanwhile.   *)
DispatchLookup ==
    /\ dispatch = "fetch" /\ HasMessage
    /\ status[Current] # "absent"
    /\ dispatch' = IF revoked[DeviceOf[Current]] THEN "cancel"
                   ELSE IF status[Current] \in {"acked", "canceled"} THEN "fetch"
                   ELSE "publish"
    /\ dispatchPos' = IF dispatch' = "fetch" THEN dispatchPos + 1 ELSE dispatchPos
    /\ UNCHANGED <<devVars, api, rowVars, commandLog, dispatchCommitted, toDevice,
                   ackVars, scan, eventVars, restarts>>

(* Mutant: the UPDATE lacks status <> 'acked'.                             *)
DispatchCancelAny ==
    /\ dispatch = "cancel"
    /\ status' = [status EXCEPT ![Current] = "canceled"]
    /\ dispatch' = "fetch"
    /\ dispatchPos' = dispatchPos + 1
    /\ UNCHANGED <<devVars, api, sentAt, ackedAt, commandLog, dispatchCommitted,
                   toDevice, ackVars, scan, eventVars, restarts>>

DispatchCancel ==
    /\ dispatch = "cancel"
    /\ status' = IF status[Current] = "acked" THEN status
                 ELSE [status EXCEPT ![Current] = "canceled"]
    /\ dispatch' = "fetch"
    /\ dispatchPos' = dispatchPos + 1
    /\ UNCHANGED <<devVars, api, sentAt, ackedAt, commandLog, dispatchCommitted,
                   toDevice, ackVars, scan, eventVars, restarts>>

DispatchPublish ==
    /\ dispatch = "publish"
    /\ toDevice' = toDevice \cup {Current}
    /\ dispatch' = "record"
    /\ UNCHANGED <<devVars, api, rowVars, commandLog, dispatchPos, dispatchCommitted,
                   ackVars, scan, eventVars, restarts>>

(* NOW() only orders the rows: the rank of a sent_at is the number of rows *)
(* that got theirs before.                                                 *)
SentBefore == Cardinality({c \in Commands : sentAt[c] # 0})

(* Mutants: the UPDATE sets 'sent' whatever the status; it forgets sent_at.*)
DispatchRecordAlways ==
    /\ dispatch = "record"
    /\ status' = [status EXCEPT ![Current] = "sent"]
    /\ sentAt' = [sentAt EXCEPT ![Current] = IF @ = 0 THEN SentBefore + 1 ELSE @]
    /\ dispatch' = "fetch"
    /\ dispatchPos' = dispatchPos + 1
    /\ UNCHANGED <<devVars, api, ackedAt, commandLog, dispatchCommitted, toDevice,
                   ackVars, scan, eventVars, restarts>>
DispatchRecordNoTime ==
    /\ dispatch = "record"
    /\ status' = [status EXCEPT ![Current] = IF @ = "queued" THEN "sent" ELSE @]
    /\ dispatch' = "fetch"
    /\ dispatchPos' = dispatchPos + 1
    /\ UNCHANGED <<devVars, api, sentAt, ackedAt, commandLog, dispatchCommitted,
                   toDevice, ackVars, scan, eventVars, restarts>>

DispatchRecord ==
    /\ dispatch = "record"
    /\ status' = [status EXCEPT ![Current] = IF @ = "queued" THEN "sent" ELSE @]
    /\ sentAt' = [sentAt EXCEPT ![Current] = IF @ = 0 THEN SentBefore + 1 ELSE @]
    /\ dispatch' = "fetch"
    /\ dispatchPos' = dispatchPos + 1
    /\ UNCHANGED <<devVars, api, ackedAt, commandLog, dispatchCommitted, toDevice,
                   ackVars, scan, eventVars, restarts>>

(* Mutant: a failed message is resolved.                                   *)
DispatchErrorResolves ==
    /\ dispatch # "fetch"
    /\ dispatch' = "fetch"
    /\ dispatchPos' = dispatchPos + 1
    /\ UNCHANGED <<devVars, api, rowVars, commandLog, dispatchCommitted, toDevice,
                   ackVars, scan, eventVars, restarts>>

(* A query or the publish throws: the offset is not resolved and the       *)
(* consumer fetches the same message again.                                *)
DispatchError ==
    /\ dispatch # "fetch"
    /\ dispatch' = "fetch"
    /\ UNCHANGED <<devVars, api, rowVars, commandLog, dispatchPos, dispatchCommitted,
                   toDevice, ackVars, scan, eventVars, restarts>>

DispatchCommitOffsets ==
    /\ dispatch = "fetch"
    /\ dispatchCommitted' = dispatchPos
    /\ UNCHANGED <<devVars, api, rowVars, commandLog, dispatch, dispatchPos, toDevice,
                   ackVars, scan, eventVars, restarts>>

DispatcherRestart ==
    /\ MayRestart
    /\ restarts' = [restarts EXCEPT !.dispatcher = @ + 1]
    /\ dispatch' = "fetch"
    /\ dispatchPos' = ResumeAt(dispatchCommitted, commandLog)
    /\ UNCHANGED <<devVars, api, rowVars, commandLog, dispatchCommitted, toDevice,
                   ackVars, scan, eventVars>>
-----------------------------------------------------------------------------
(***************************************************************************)
(* command-ack-receiver.  The MQTT handler is asynchronous: any number run *)
(* at once, beside the Kafka consumer of the topic they write to.          *)
(***************************************************************************)
NormalizeAckTimestamp(a, now) == IF a.ts = Untrusted THEN [a EXCEPT !.ts = now] ELSE a

(* An acknowledgement arrives.  QoS 1 delivers the command to the device   *)
(* and the acknowledgement to the receiver any number of times, each time  *)
(* late or never, so a command the broker has taken may be answered at any *)
(* later moment and again, with another answer.                            *)
OnAckMessage(c, s, t, now) ==
    /\ c \in toDevice
    /\ Cardinality(handlers) < MaxHandlers
    /\ LET a == NormalizeAckTimestamp([cmd |-> c, status |-> s, ts |-> t], now)
       IN handlers' = handlers \cup {[ack |-> a, pc |-> "forward"]}
    /\ UNCHANGED <<devVars, api, rowVars, commandLog, dispatchVars, toDevice, ackLog,
                   ackPos, ackCommitted, scan, eventVars, restarts>>

HandlerForward(h) ==
    /\ h \in handlers /\ h.pc = "forward"
    /\ Len(ackLog) < MaxAckLog
    /\ ackLog' = Append(ackLog, h.ack)
    /\ handlers' = (handlers \ {h}) \cup {[h EXCEPT !.pc = "apply"]}
    /\ UNCHANGED <<devVars, api, rowVars, commandLog, dispatchVars, toDevice, ackPos,
                   ackCommitted, scan, eventVars, restarts>>

(* Mutants: the UPDATE lacks its status guard; it accepts only sent rows.  *)
AppliesAnyStatus(a) == ackedAt[a.cmd] = 0 \/ a.ts >= ackedAt[a.cmd]
AppliesOnlySent(a) == status[a.cmd] = "sent"

(* The UPDATE of applyAckToPostgres takes effect.                          *)
Applies(a) ==
    /\ status[a.cmd] \in Open
    /\ ackedAt[a.cmd] = 0 \/ a.ts >= ackedAt[a.cmd]

(* applyAckToPostgres, and the event its caller owes when it updated.      *)
ApplyAck(a, settler) ==
    IF Applies(a)
    THEN /\ status' = [status EXCEPT ![a.cmd] = a.status]
         /\ ackedAt' = [ackedAt EXCEPT ![a.cmd] = a.ts]
         /\ owed' = owed \cup {[by |-> settler, cmd |-> a.cmd, outcome |-> a.status]}
    ELSE UNCHANGED <<status, ackedAt, owed>>

HandlerApply(h) ==
    /\ h \in handlers /\ h.pc = "apply"
    /\ ApplyAck(h.ack, "handler")
    /\ handlers' = handlers \ {h}
    /\ UNCHANGED <<devVars, api, sentAt, commandLog, dispatchVars, toDevice, ackLog,
                   ackPos, ackCommitted, scan, eventLog, restarts>>

(* Any error in the handler is caught, logged and forgotten.               *)
HandlerDrops(h) ==
    /\ h \in handlers
    /\ handlers' = handlers \ {h}
    /\ UNCHANGED <<devVars, api, rowVars, commandLog, dispatchVars, toDevice, ackLog,
                   ackPos, ackCommitted, scan, eventVars, restarts>>

OwedBy(p) == {e \in owed : e.by = p}

Publish(e) ==
    /\ owed' = owed \ {e}
    /\ eventLog' = Append(eventLog, [cmd |-> e.cmd, outcome |-> e.outcome])

HandlerAnnounce(e) ==
    /\ e \in OwedBy("handler")
    /\ Publish(e)
    /\ UNCHANGED <<devVars, api, rowVars, commandLog, dispatchVars, toDevice, ackVars,
                   scan, restarts>>

HandlerAnnounceFails(e) ==
    /\ e \in OwedBy("handler")
    /\ owed' = owed \ {e}
    /\ UNCHANGED <<devVars, api, rowVars, commandLog, dispatchVars, toDevice, ackVars,
                   scan, eventLog, restarts>>

ConsumeAck ==
    /\ OwedBy("consumer") = {}
    /\ ackPos < Len(ackLog)
    /\ LET a == ackLog[ackPos + 1] IN
        /\ ApplyAck(a, "consumer")
        /\ ackPos' = IF Applies(a) THEN ackPos ELSE ackPos + 1
    /\ UNCHANGED <<devVars, api, sentAt, commandLog, dispatchVars, toDevice, handlers,
                   ackLog, ackCommitted, scan, eventLog, restarts>>

ConsumerAnnounce(e) ==
    /\ e \in OwedBy("consumer")
    /\ Publish(e)
    /\ ackPos' = ackPos + 1
    /\ UNCHANGED <<devVars, api, rowVars, commandLog, dispatchVars, toDevice, handlers,
                   ackLog, ackCommitted, scan, restarts>>

(* The publish throws: the message is consumed again and is then a no-op.  *)
ConsumerAnnounceFails(e) ==
    /\ e \in OwedBy("consumer")
    /\ owed' = owed \ {e}
    /\ UNCHANGED <<devVars, api, rowVars, commandLog, dispatchVars, toDevice, ackVars,
                   scan, eventLog, restarts>>

AckCommitOffsets ==
    /\ OwedBy("consumer") = {}
    /\ ackCommitted' = ackPos
    /\ UNCHANGED <<devVars, api, rowVars, commandLog, dispatchVars, toDevice, handlers,
                   ackLog, ackPos, scan, eventVars, restarts>>

ReceiverRestart ==
    /\ MayRestart
    /\ restarts' = [restarts EXCEPT !.receiver = @ + 1]
    /\ handlers' = {}
    /\ owed' = owed \ (OwedBy("handler") \cup OwedBy("consumer"))
    /\ ackPos' = ResumeAt(ackCommitted, ackLog)
    /\ UNCHANGED <<devVars, api, rowVars, commandLog, dispatchVars, toDevice, ackLog,
                   ackCommitted, scan, eventLog>>
-----------------------------------------------------------------------------
(***************************************************************************)
(* command-timeout-worker: a loop over the oldest sent rows.               *)
(***************************************************************************)
Sent == {c \in Commands : status[c] = "sent" /\ sentAt[c] # 0}

(* What the SELECT may return: the sent rows older than some instant, the  *)
(* oldest of them when there are more than the limit.                      *)
OldestSent(S) ==
    /\ S \subseteq Sent
    /\ Cardinality(S) <= ScanLimit
    /\ \A c \in S, d \in Sent \ S : sentAt[c] <= sentAt[d]

TimeoutScan(S) ==
    /\ scan = {} /\ OwedBy("timeout") = {}
    /\ S # {} /\ OldestSent(S)
    /\ scan' = S
    /\ UNCHANGED <<devVars, api, rowVars, commandLog, dispatchVars, toDevice, ackVars,
                   eventVars, restarts>>

(* Mutant: the UPDATE relies on the earlier SELECT for status = 'sent'.    *)
TimeoutVisitStale(c) ==
    /\ OwedBy("timeout") = {}
    /\ c \in scan /\ \A d \in scan : sentAt[c] <= sentAt[d]
    /\ scan' = scan \ {c}
    /\ status' = [status EXCEPT ![c] = "timeout"]
    /\ owed' = owed \cup {[by |-> "timeout", cmd |-> c, outcome |-> "timeout"]}
    /\ UNCHANGED <<devVars, api, sentAt, ackedAt, commandLog, dispatchVars, toDevice,
                   ackVars, eventLog, restarts>>

TimeoutVisit(c) ==
    /\ OwedBy("timeout") = {}
    /\ c \in scan /\ \A d \in scan : sentAt[c] <= sentAt[d]
    /\ scan' = scan \ {c}
    /\ IF status[c] = "sent"
       THEN /\ status' = [status EXCEPT ![c] = "timeout"]
            /\ owed' = owed \cup {[by |-> "timeout", cmd |-> c, outcome |-> "timeout"]}
       ELSE UNCHANGED <<status, owed>>
    /\ UNCHANGED <<devVars, api, sentAt, ackedAt, commandLog, dispatchVars, toDevice,
                   ackVars, eventLog, restarts>>

TimeoutAnnounce(e) ==
    /\ e \in OwedBy("timeout")
    /\ Publish(e)
    /\ UNCHANGED <<devVars, api, rowVars, commandLog, dispatchVars, toDevice, ackVars,
                   scan, restarts>>

(* An error, or a restart, abandons the rest of the scan.                  *)
TimeoutAbort ==
    /\ scan # {} \/ OwedBy("timeout") # {}
    /\ scan' = {}
    /\ owed' = owed \ OwedBy("timeout")
    /\ UNCHANGED <<devVars, api, rowVars, commandLog, dispatchVars, toDevice, ackVars,
                   eventLog, restarts>>
-----------------------------------------------------------------------------
Api ==
    \/ \E c \in Commands : ApiCheckDevice(c) \/ ApiPublish(c) \/ ApiCommit(c) \/ ApiRollback(c)
    \/ \E d \in Devices : Revoke(d) \/ Reactivate(d)

Dispatcher ==
    \/ DispatchMissing \/ DispatchLookup \/ DispatchCancel \/ DispatchPublish
    \/ DispatchRecord \/ DispatchError \/ DispatchCommitOffsets \/ DispatcherRestart

AckReceiver ==
    \/ \E c \in Commands, s \in AckStatuses, t \in AckTimes \cup {Untrusted}, now \in AckTimes :
        OnAckMessage(c, s, t, now)
    \/ \E h \in handlers : HandlerForward(h) \/ HandlerApply(h) \/ HandlerDrops(h)
    \/ \E e \in owed : HandlerAnnounce(e) \/ HandlerAnnounceFails(e)
    \/ ConsumeAck
    \/ \E e \in owed : ConsumerAnnounce(e) \/ ConsumerAnnounceFails(e)
    \/ AckCommitOffsets \/ ReceiverRestart

TimeoutWorker ==
    \/ \E S \in SUBSET Commands : TimeoutScan(S)
    \/ \E c \in Commands : TimeoutVisit(c)
    \/ \E e \in owed : TimeoutAnnounce(e)
    \/ TimeoutAbort

Next == Api \/ Dispatcher \/ AckReceiver \/ TimeoutWorker

Spec == Init /\ [][Next]_vars

(***************************************************************************)
(* Fairness.  Every process loops and each await returns or throws; errors *)
(* and restarts may come but not at every attempt, so the step an error    *)
(* can pre-empt is strongly fair.  Nothing is assumed of the API's callers,*)
(* the device or the MQTT handlers, whose errors are final.                *)
(***************************************************************************)
TimeoutFairness ==
    /\ WF_vars(\E S \in SUBSET Commands : TimeoutScan(S))
    /\ SF_vars(\E c \in Commands : TimeoutVisit(c))
    /\ WF_vars(TimeoutAbort \/ \E e \in owed : TimeoutAnnounce(e))

DispatcherFairness ==
    /\ WF_vars(DispatchMissing \/ DispatchLookup)
    /\ SF_vars(DispatchCancel)
    /\ SF_vars(DispatchPublish)
    /\ SF_vars(DispatchRecord)

ConsumerFairness ==
    /\ WF_vars(ConsumeAck)
    /\ WF_vars(\E e \in owed : ConsumerAnnounce(e) \/ ConsumerAnnounceFails(e))

FairSpec == Spec /\ TimeoutFairness /\ DispatcherFairness /\ ConsumerFairness
-----------------------------------------------------------------------------
TypeOK ==
    /\ revoked \in [Devices -> BOOLEAN]
    /\ api \in [Commands -> {"idle", "refused", "inserted", "published",
                             "committed", "rolledback"}]
    /\ status \in [Commands -> Statuses \cup {"absent"}]
    /\ sentAt \in [Commands -> Nat]
    /\ ackedAt \in [Commands -> AckTimes \cup {0}]
    /\ commandLog \in Seq(Commands)
    /\ dispatch \in {"fetch", "cancel", "publish", "record"}
    /\ dispatchPos \in 0..Len(commandLog)
    /\ dispatch # "fetch" => dispatchPos < Len(commandLog)
    /\ dispatchCommitted \in {NoOffset} \cup 0..Len(commandLog)
    /\ toDevice \in SUBSET Commands
    /\ handlers \in SUBSET Handlers
    /\ ackLog \in Seq(Acks)
    /\ ackPos \in 0..Len(ackLog)
    /\ ackCommitted \in {NoOffset} \cup 0..Len(ackLog)
    /\ scan \in SUBSET Commands
    /\ owed \in SUBSET Owed
    /\ eventLog \in Seq(Events)
    /\ restarts \in [dispatcher : 0..MaxRestarts, receiver : 0..MaxRestarts]

(* The pipeline implements the lifecycle it promises: every step of the    *)
(* API, the dispatcher, the acknowledgement receiver and the timeout       *)
(* worker is a step of CommandLifecycle on the row, the events owed and    *)
(* the events published, or leaves all three alone.                        *)
Lifecycle == INSTANCE CommandLifecycle
    WITH Commands <- Commands, Settlers <- Settlers,
         status <- status, owed <- owed, eventLog <- eventLog
ImplementsLifecycle == Lifecycle!Spec

(* Subscribers of command_events hear at most one outcome per command,     *)
(* although the MQTT handler and the Kafka consumer apply the same         *)
(* acknowledgement, the broker and Kafka redeliver it, a device may answer *)
(* twice with different results, and the timeout worker races them all.    *)
OneOutcomePerCommand == Lifecycle!OneOutcomePerCommand

(* The outcome announced is the one the row kept, unless the row was       *)
(* canceled later because its device was revoked.                          *)
EventMatchesRow == Lifecycle!EventMatchesRow

(* acked_at is set exactly while the device's answer decides the row.  The *)
(* guard acked_at IS NULL OR ack_ts >= acked_at of applyAckToPostgres can  *)
(* therefore never refuse an acknowledgement for a queued or sent row: of  *)
(* two answers the first applied wins, not the one with the later ack_ts.  *)
AckTimeMeansAnswer ==
    \A c \in Commands :
        /\ ackedAt[c] # 0 => status[c] \in AckStatuses \cup {"canceled"}
        /\ status[c] \in AckStatuses => ackedAt[c] # 0

(* A visible row always has its Kafka message: because the API publishes   *)
(* before it commits, no committed command lacks the message that the      *)
(* dispatcher needs.                                                       *)
RowHasItsMessage ==
    \A c \in Commands :
        status[c] # "absent" => \E i \in DOMAIN commandLog : commandLog[i] = c

(* A command is recorded sent, timed out, or answered only if the broker   *)
(* had taken it: a crash of the dispatcher between publish and UPDATE      *)
(* loses the record, never the other way round.                            *)
SentWasPublished ==
    \A c \in Commands :
        /\ status[c] \in {"sent"} \cup Outcomes => c \in toDevice
        /\ status[c] \in {"sent", "timeout"} => sentAt[c] # 0

(* An outcome is never replaced by another outcome, an acknowledged        *)
(* command is never canceled, and nothing returns to queued or sent,       *)
(* however late a redelivered command or acknowledgement is.               *)
OutcomeIsFinal ==
    [][\A c \in Commands :
        /\ status[c] \in Outcomes => status'[c] \in {status[c], "canceled"}
        /\ status[c] \in {"acked", "canceled"} => status'[c] = status[c]]_vars

(* A sent command does not stay sent: it is answered, canceled or timed    *)
(* out, even when the scan limit leaves it to a later scan.                *)
SentResolves == \A c \in Commands : status[c] = "sent" ~> status[c] # "sent"

(* A restarted group finds what is ahead of it again: it has committed an  *)
(* offset, or it will not restart any more.                                *)
Resumable(committed) == committed # NoOffset \/ ~MayRestart

(* A visible queued command whose message the dispatcher has yet to pass   *)
(* leaves queued: neither the messages before it, nor failures to publish  *)
(* or record, nor a restart once the group has committed block it for ever.*)
Ahead(c) == \E i \in DOMAIN commandLog : i > dispatchPos /\ commandLog[i] = c
QueuedAheadIsDispatched ==
    \A c \in Commands :
        (status[c] = "queued" /\ Ahead(c) /\ Resumable(dispatchCommitted))
            ~> (status[c] # "queued")

(* An acknowledgement in Kafka ahead of the consumer is consumed, restarts *)
(* included once the group has committed, and its command is settled then  *)
(* without waiting for the timeout worker: the consumer makes up for a     *)
(* handler that failed after it forwarded the acknowledgement.             *)
ForwardedAckSettles ==
    /\ \A i \in 1..MaxAckLog :
        (i \in DOMAIN ackLog /\ i > ackPos /\ Resumable(ackCommitted)) ~> i <= ackPos
    /\ [][\A i \in DOMAIN ackLog :
            (i \in (ackPos + 1)..ackPos' /\ Resumable(ackCommitted))
                => status'[ackLog[i].cmd] \notin Open]_vars
=============================================================================
