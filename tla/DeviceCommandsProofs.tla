------------------------ MODULE DeviceCommandsProofs ------------------------
(***************************************************************************)
(* Theorems about the command pipeline for every set of commands and       *)
(* devices and every bound: its types, that it implements the abstract     *)
(* lifecycle and so inherits its safety, what a row says of the world      *)
(* outside Postgres, and that the pipeline and the workers that read its   *)
(* events together implement CommandPath.                                  *)
(***************************************************************************)
EXTENDS DeviceCommands, FiniteSetTheorems, TLAPS

(* The constants and variables of the readers of device.command_events.v1. *)
CONSTANTS TypeOf, CommandTypes, BuiltInDefaults, ConfigChoices, MaxReaderRestarts
VARIABLES policy, systemDefault, typeDefaults, recorded, recorderPos,
          recorderCommitted, notifications, notifyPos, notifyCommitted,
          readerRestarts

(* The consumer announces one acknowledgement at a time, and that is the   *)
(* message at its position: without this its position could run past the   *)
(* end of the topic.                                                       *)
ConsumerBusy ==
    /\ \A e, f \in OwedBy("consumer") : e = f
    /\ OwedBy("consumer") # {} => ackPos < Len(ackLog)

TInv == TypeOK /\ ConsumerBusy

LEMMA InitTInv == Init => TInv
  BY AckTimesAssumption, BoundsAssumption
  DEF Init, TInv, ConsumerBusy, TypeOK, NoOffset, OwedBy, Statuses

(* The message the dispatcher works on is one of the commands.             *)
LEMMA CurrentCommand ==
  ASSUME TInv, HasMessage
  PROVE  Current \in Commands
  BY DEF TInv, ConsumerBusy, TypeOK, HasMessage, Current

(* Counting a restart keeps the counters within their bounds.              *)
LEMMA RestartCounted ==
  ASSUME NEW M \in Nat, NEW r \in [dispatcher : 0..M, receiver : 0..M],
         r.dispatcher + r.receiver < M
  PROVE  /\ [r EXCEPT !.dispatcher = @ + 1] \in [dispatcher : 0..M, receiver : 0..M]
         /\ [r EXCEPT !.receiver = @ + 1] \in [dispatcher : 0..M, receiver : 0..M]
<1>1. r.dispatcher \in 0..M /\ r.receiver \in 0..M
  OBVIOUS
<1>2. r.dispatcher + 1 \in 0..M /\ r.receiver + 1 \in 0..M
  BY <1>1
<1> QED BY <1>2

LEMMA ApiTInv == ASSUME TInv, Api PROVE TInv'
<1>1. ASSUME NEW c \in Commands, ApiCheckDevice(c) PROVE TInv'
  BY <1>1 DEF TInv, ConsumerBusy, TypeOK, ApiCheckDevice, devVars, rowVars, dispatchVars, ackVars, eventVars, OwedBy
<1>2. ASSUME NEW c \in Commands, ApiPublish(c) PROVE TInv'
  <2>1. /\ commandLog' \in Seq(Commands)
        /\ Len(commandLog') = Len(commandLog) + 1
        /\ Len(commandLog) \in Nat
    BY <1>2 DEF TInv, ConsumerBusy, TypeOK, ApiPublish
  <2> QED BY <1>2, <2>1 DEF TInv, ConsumerBusy, TypeOK, ApiPublish, devVars, rowVars, dispatchVars, ackVars, eventVars, OwedBy, NoOffset
<1>3. ASSUME NEW c \in Commands, ApiCommit(c) PROVE TInv'
  BY <1>3 DEF TInv, ConsumerBusy, TypeOK, ApiCommit, devVars, dispatchVars, ackVars, eventVars, OwedBy, Statuses, Open
<1>4. ASSUME NEW c \in Commands, ApiRollback(c) PROVE TInv'
  BY <1>4 DEF TInv, ConsumerBusy, TypeOK, ApiRollback, devVars, rowVars, dispatchVars, ackVars, eventVars, OwedBy
<1>5. ASSUME NEW d \in Devices, Revoke(d) PROVE TInv'
  BY <1>5 DEF TInv, ConsumerBusy, TypeOK, Revoke, rowVars, dispatchVars, ackVars, eventVars, OwedBy
<1>6. ASSUME NEW d \in Devices, Reactivate(d) PROVE TInv'
  BY <1>6 DEF TInv, ConsumerBusy, TypeOK, Reactivate, rowVars, dispatchVars, ackVars, eventVars, OwedBy
<1> QED BY <1>1, <1>2, <1>3, <1>4, <1>5, <1>6 DEF Api

LEMMA DispatcherTInv == ASSUME TInv, Dispatcher PROVE TInv'
<1> USE DEF devVars, rowVars, dispatchVars, ackVars, eventVars
<1>0. /\ Len(commandLog) \in Nat
      /\ dispatch # "fetch" => HasMessage
      /\ HasMessage => Current \in Commands
  BY CurrentCommand DEF TInv, ConsumerBusy, TypeOK, HasMessage
<1>1. CASE DispatchMissing
  BY <1>0, <1>1 DEF TInv, ConsumerBusy, TypeOK, DispatchMissing, HasMessage, OwedBy
<1>2. CASE DispatchLookup
  BY <1>0, <1>2 DEF TInv, ConsumerBusy, TypeOK, DispatchLookup, HasMessage, OwedBy
<1>3. CASE DispatchCancel
  <2>1. status' \in [Commands -> Statuses \cup {"absent"}]
    BY <1>0, <1>3 DEF TInv, ConsumerBusy, TypeOK, DispatchCancel, Statuses
  <2> QED BY <1>0, <1>3, <2>1 DEF TInv, ConsumerBusy, TypeOK, DispatchCancel, HasMessage, OwedBy
<1>4. CASE DispatchPublish
  BY <1>0, <1>4 DEF TInv, ConsumerBusy, TypeOK, DispatchPublish, OwedBy
<1>5. CASE DispatchRecord
  <2>1. SentBefore \in Nat
    <3>1. IsFiniteSet({c \in Commands : sentAt[c] # 0})
      BY CommandsAssumption, FS_Subset
    <3> QED BY <3>1, FS_CardinalityType DEF SentBefore
  <2>2. /\ status' \in [Commands -> Statuses \cup {"absent"}]
        /\ sentAt' \in [Commands -> Nat]
    BY <1>0, <1>5, <2>1 DEF TInv, ConsumerBusy, TypeOK, DispatchRecord, Statuses, Open
  <2> QED BY <1>0, <1>5, <2>2 DEF TInv, ConsumerBusy, TypeOK, DispatchRecord, HasMessage, OwedBy
<1>6. CASE DispatchError
  BY <1>6 DEF TInv, ConsumerBusy, TypeOK, DispatchError, OwedBy
<1>7. CASE DispatchCommitOffsets
  BY <1>0, <1>7 DEF TInv, ConsumerBusy, TypeOK, DispatchCommitOffsets, OwedBy
<1>8. CASE DispatcherRestart
  <2>1. ResumeAt(dispatchCommitted, commandLog) \in 0..Len(commandLog)
    BY <1>0 DEF TInv, ConsumerBusy, TypeOK, ResumeAt, NoOffset
  <2>2. restarts' \in [dispatcher : 0..MaxRestarts, receiver : 0..MaxRestarts]
    <3>1. restarts \in [dispatcher : 0..MaxRestarts, receiver : 0..MaxRestarts]
      BY DEF TInv, TypeOK
    <3>2. restarts.dispatcher + restarts.receiver < MaxRestarts
      BY <1>8 DEF DispatcherRestart, MayRestart
    <3> QED BY <1>8, <3>1, <3>2, BoundsAssumption, RestartCounted DEF DispatcherRestart
  <2> QED BY <1>8, <2>1, <2>2 DEF TInv, ConsumerBusy, TypeOK, DispatcherRestart, OwedBy
<1> QED BY <1>1, <1>2, <1>3, <1>4, <1>5, <1>6, <1>7, <1>8 DEF Dispatcher

(* What an acknowledgement handler or the consumer applies keeps the row   *)
(* and the debts well typed.                                               *)
LEMMA ApplyAckTypeOK ==
  ASSUME TInv, NEW a \in Acks, NEW p \in Settlers, ApplyAck(a, p)
  PROVE  /\ status' \in [Commands -> Statuses \cup {"absent"}]
         /\ ackedAt' \in [Commands -> AckTimes \cup {0}]
         /\ owed' \in SUBSET Owed
         /\ p # "consumer" => OwedBy("consumer")' = OwedBy("consumer")
         /\ OwedBy("consumer") = {} => \A e, f \in OwedBy("consumer")' : e = f
         /\ ~Applies(a) => owed' = owed
<1>1. a.cmd \in Commands /\ a.status \in AckStatuses /\ a.ts \in AckTimes
  BY DEF Acks
<1>2. CASE Applies(a)
  <2> DEFINE e == [by |-> p, cmd |-> a.cmd, outcome |-> a.status]
  <2>1. /\ status' = [status EXCEPT ![a.cmd] = a.status]
        /\ ackedAt' = [ackedAt EXCEPT ![a.cmd] = a.ts]
        /\ owed' = owed \cup {e}
    BY <1>2 DEF ApplyAck
  <2>2. e \in Owed /\ e.by = p
    BY <1>1 DEF Owed, Outcomes
  <2>3. /\ status' \in [Commands -> Statuses \cup {"absent"}]
        /\ ackedAt' \in [Commands -> AckTimes \cup {0}]
    BY <1>1, <2>1 DEF TInv, TypeOK, Statuses, Outcomes
  <2> HIDE DEF e
  <2> QED BY <1>2, <2>1, <2>2, <2>3 DEF TInv, TypeOK, OwedBy
<1>3. CASE ~Applies(a)
  BY <1>3 DEF TInv, ConsumerBusy, TypeOK, ApplyAck, OwedBy
<1> QED BY <1>2, <1>3

(* Publishing a debt appends a well-typed event.                           *)
LEMMA PublishTypeOK ==
  ASSUME TInv, NEW e \in owed, Publish(e)
  PROVE  /\ owed' \in SUBSET Owed
         /\ eventLog' \in Seq(Events)
         /\ OwedBy("consumer")' \subseteq OwedBy("consumer")
<1>1. e \in Owed
  BY DEF TInv, ConsumerBusy, TypeOK
<1>2. [cmd |-> e.cmd, outcome |-> e.outcome] \in Events
  BY <1>1 DEF Owed, Events
<1> QED BY <1>2 DEF TInv, ConsumerBusy, TypeOK, Publish, OwedBy

LEMMA ReceiverTInv == ASSUME TInv, AckReceiver PROVE TInv'
<1> USE DEF devVars, rowVars, dispatchVars, ackVars, eventVars
<1>0. Len(ackLog) \in Nat
  BY DEF TInv, ConsumerBusy, TypeOK
<1>1. ASSUME NEW c \in Commands, NEW s \in AckStatuses, NEW t \in AckTimes \cup {Untrusted},
             NEW now \in AckTimes, OnAckMessage(c, s, t, now)
      PROVE  TInv'
  <2> DEFINE a == NormalizeAckTimestamp([cmd |-> c, status |-> s, ts |-> t], now)
  <2>1. a \in Acks
    BY DEF NormalizeAckTimestamp, Acks, Untrusted
  <2>2. [ack |-> a, pc |-> "forward"] \in Handlers
    BY <2>1 DEF Handlers
  <2>3. handlers' = handlers \cup {[ack |-> a, pc |-> "forward"]}
    BY <1>1 DEF OnAckMessage
  <2> HIDE DEF a
  <2> QED BY <1>1, <2>2, <2>3 DEF TInv, ConsumerBusy, TypeOK, OnAckMessage, OwedBy
<1>2. ASSUME NEW h \in handlers, HandlerForward(h) PROVE TInv'
  <2>1. h \in Handlers /\ h.ack \in Acks
    BY DEF TInv, ConsumerBusy, TypeOK, Handlers
  <2>2. [h EXCEPT !.pc = "apply"] \in Handlers
    BY <2>1 DEF Handlers
  <2>3. /\ ackLog' \in Seq(Acks)
        /\ Len(ackLog') = Len(ackLog) + 1
    BY <1>2, <2>1 DEF TInv, ConsumerBusy, TypeOK, HandlerForward
  <2>4. handlers' \in SUBSET Handlers
    BY <1>2, <2>2 DEF TInv, TypeOK, HandlerForward
  <2>5. UNCHANGED <<devVars, api, rowVars, commandLog, dispatchVars, toDevice, ackPos,
                    ackCommitted, scan, eventVars, restarts>>
    BY <1>2 DEF HandlerForward
  <2> QED BY <1>0, <2>3, <2>4, <2>5 DEF TInv, ConsumerBusy, TypeOK, OwedBy, NoOffset
<1>3. ASSUME NEW h \in handlers, HandlerApply(h) PROVE TInv'
  <2>1. h.ack \in Acks
    BY DEF TInv, ConsumerBusy, TypeOK, Handlers
  <2>2. ApplyAck(h.ack, "handler") /\ "handler" \in Settlers
    BY <1>3 DEF HandlerApply, Settlers
  <2> QED BY <1>3, <2>1, <2>2, ApplyAckTypeOK DEF TInv, ConsumerBusy, TypeOK, HandlerApply
<1>4. ASSUME NEW h \in handlers, HandlerDrops(h) PROVE TInv'
  BY <1>4 DEF TInv, ConsumerBusy, TypeOK, HandlerDrops, OwedBy
<1>5. ASSUME NEW e \in owed, HandlerAnnounce(e) PROVE TInv'
  BY <1>5, PublishTypeOK DEF TInv, ConsumerBusy, TypeOK, HandlerAnnounce
<1>6. ASSUME NEW e \in owed, HandlerAnnounceFails(e) PROVE TInv'
  BY <1>6 DEF TInv, ConsumerBusy, TypeOK, HandlerAnnounceFails, OwedBy
<1>7. CASE ConsumeAck
  <2> DEFINE a == ackLog[ackPos + 1]
  <2>1. a \in Acks /\ ackPos < Len(ackLog)
    BY <1>7 DEF TInv, ConsumerBusy, TypeOK, ConsumeAck
  <2>2. ApplyAck(a, "consumer") /\ "consumer" \in Settlers
    BY <1>7 DEF ConsumeAck, Settlers
  <2>3. /\ OwedBy("consumer") = {}
        /\ ackPos' = IF Applies(a) THEN ackPos ELSE ackPos + 1
        /\ UNCHANGED <<devVars, api, sentAt, commandLog, dispatchVars, toDevice, handlers,
                       ackLog, ackCommitted, scan, eventLog, restarts>>
    BY <1>7 DEF ConsumeAck
  <2> HIDE DEF a
  <2>4. /\ status' \in [Commands -> Statuses \cup {"absent"}]
        /\ ackedAt' \in [Commands -> AckTimes \cup {0}]
        /\ owed' \in SUBSET Owed
        /\ ~Applies(a) => owed' = owed
        /\ \A e, f \in OwedBy("consumer")' : e = f
    BY <2>1, <2>2, <2>3, ApplyAckTypeOK
  <2>5. /\ ackPos' \in 0..Len(ackLog)
        /\ OwedBy("consumer")' # {} => ackPos' < Len(ackLog)
    BY <1>0, <2>1, <2>3, <2>4 DEF TInv, ConsumerBusy, TypeOK, OwedBy
  <2> QED BY <2>3, <2>4, <2>5 DEF TInv, ConsumerBusy, TypeOK
<1>8. ASSUME NEW e \in owed, ConsumerAnnounce(e) PROVE TInv'
  <2>1. ackPos < Len(ackLog)
    BY <1>8 DEF TInv, ConsumerBusy, TypeOK, ConsumerAnnounce
  <2>2. OwedBy("consumer")' = {}
    BY <1>8 DEF TInv, ConsumerBusy, ConsumerAnnounce, Publish, OwedBy
  <2> QED BY <1>0, <1>8, <2>1, <2>2, PublishTypeOK DEF TInv, ConsumerBusy, TypeOK, ConsumerAnnounce
<1>9. ASSUME NEW e \in owed, ConsumerAnnounceFails(e) PROVE TInv'
  BY <1>9 DEF TInv, ConsumerBusy, TypeOK, ConsumerAnnounceFails, OwedBy
<1>10. CASE AckCommitOffsets
  BY <1>0, <1>10 DEF TInv, ConsumerBusy, TypeOK, AckCommitOffsets, OwedBy
<1>11. CASE ReceiverRestart
  <2>1. ResumeAt(ackCommitted, ackLog) \in 0..Len(ackLog)
    BY <1>0 DEF TInv, ConsumerBusy, TypeOK, ResumeAt, NoOffset
  <2>2. restarts' \in [dispatcher : 0..MaxRestarts, receiver : 0..MaxRestarts]
    <3>1. restarts \in [dispatcher : 0..MaxRestarts, receiver : 0..MaxRestarts]
      BY DEF TInv, TypeOK
    <3>2. restarts.dispatcher + restarts.receiver < MaxRestarts
      BY <1>11 DEF ReceiverRestart, MayRestart
    <3> QED BY <1>11, <3>1, <3>2, BoundsAssumption, RestartCounted DEF ReceiverRestart
  <2>3. OwedBy("consumer")' = {}
    BY <1>11 DEF ReceiverRestart, OwedBy
  <2> QED BY <1>11, <2>1, <2>2, <2>3 DEF TInv, ConsumerBusy, TypeOK, ReceiverRestart
<1> QED BY <1>1, <1>2, <1>3, <1>4, <1>5, <1>6, <1>7, <1>8, <1>9, <1>10, <1>11 DEF AckReceiver

LEMMA TimeoutTInv == ASSUME TInv, TimeoutWorker PROVE TInv'
<1> USE DEF devVars, rowVars, dispatchVars, ackVars, eventVars
<1>1. ASSUME NEW S \in SUBSET Commands, TimeoutScan(S) PROVE TInv'
  BY <1>1 DEF TInv, ConsumerBusy, TypeOK, TimeoutScan, OwedBy
<1>2. ASSUME NEW c \in Commands, TimeoutVisit(c) PROVE TInv'
  <2>1. CASE status[c] = "sent"
    <3> DEFINE e == [by |-> "timeout", cmd |-> c, outcome |-> "timeout"]
    <3>1. status' \in [Commands -> Statuses \cup {"absent"}]
      BY <1>2, <2>1 DEF TInv, TypeOK, TimeoutVisit, Statuses, Outcomes
    <3>2. owed' = owed \cup {e}
      BY <1>2, <2>1 DEF TimeoutVisit
    <3>3. e \in Owed /\ e.by # "consumer"
      BY DEF Owed, Settlers, Outcomes
    <3> HIDE DEF e
    <3>4. OwedBy("consumer")' = OwedBy("consumer")
      BY <3>2, <3>3 DEF OwedBy
    <3> QED BY <1>2, <3>1, <3>2, <3>3, <3>4 DEF TInv, ConsumerBusy, TypeOK, TimeoutVisit
  <2>2. CASE status[c] # "sent"
    BY <1>2, <2>2 DEF TInv, ConsumerBusy, TypeOK, TimeoutVisit, OwedBy
  <2> QED BY <2>1, <2>2
<1>3. ASSUME NEW e \in owed, TimeoutAnnounce(e) PROVE TInv'
  BY <1>3, PublishTypeOK DEF TInv, ConsumerBusy, TypeOK, TimeoutAnnounce
<1>4. CASE TimeoutAbort
  BY <1>4 DEF TInv, ConsumerBusy, TypeOK, TimeoutAbort, OwedBy
<1> QED BY <1>1, <1>2, <1>3, <1>4 DEF TimeoutWorker

LEMMA NextTInv == TInv /\ [Next]_vars => TInv'
<1>1. ASSUME TInv, UNCHANGED vars PROVE TInv'
  BY <1>1 DEF TInv, ConsumerBusy, TypeOK, vars, OwedBy
<1> QED BY <1>1, ApiTInv, DispatcherTInv, ReceiverTInv, TimeoutTInv DEF Next

(* The pipeline's variables stay within their types: positions stay within *)
(* their topics, across errors and restarts, in every instance.            *)
THEOREM TypeCorrect == Spec => []TypeOK
  BY InitTInv, NextTInv, PTL DEF Spec, TInv
-----------------------------------------------------------------------------
(***************************************************************************)
(* The pipeline implements CommandLifecycle.  The mapping is the identity  *)
(* on the row's status, the events owed and the events published; what it  *)
(* needs beyond types is that a row is visible exactly when its request    *)
(* has committed, and that the dispatcher only handles visible rows.       *)
(***************************************************************************)
Visible ==
    /\ \A c \in Commands : status[c] = "absent" <=> api[c] # "committed"
    /\ dispatch # "fetch" => status[Current] # "absent"

RInv == TInv /\ Visible

LEMMA InitRInv == Init => RInv
  BY InitTInv DEF Init, RInv, Visible

(* A message once in a topic stays where it is.                            *)
LEMMA CurrentStays ==
  ASSUME TInv, NEW c \in Commands, commandLog' = Append(commandLog, c) \/ UNCHANGED commandLog,
         HasMessage, UNCHANGED dispatchPos
  PROVE  Current' = Current
  BY DEF TInv, TypeOK, HasMessage, Current

LEMMA BusyDispatcher ==
  ASSUME TInv, dispatch # "fetch"
  PROVE  HasMessage /\ Current \in Commands
  BY CurrentCommand DEF TInv, TypeOK, HasMessage

-----------------------------------------------------------------------------
(* The API: only COMMIT touches the row, and it issues the command.        *)
LEMMA ApiStep ==
  ASSUME RInv, Api
  PROVE  Visible' /\ [Lifecycle!Next]_(Lifecycle!vars)
<1> USE DEF devVars, rowVars, dispatchVars, ackVars, eventVars
<1> DEFINE Goal == Visible' /\ [Lifecycle!Next]_(Lifecycle!vars)
<1>1. ASSUME NEW c \in Commands, ApiCheckDevice(c) PROVE Goal
  BY <1>1 DEF RInv, TInv, TypeOK, Visible, Current, ApiCheckDevice, Lifecycle!vars
<1>2. ASSUME NEW c \in Commands, ApiPublish(c) PROVE Goal
  <2>1. dispatch # "fetch" => Current' = Current
    BY <1>2, BusyDispatcher, CurrentStays DEF RInv, ApiPublish
  <2> QED BY <1>2, <2>1 DEF RInv, TInv, TypeOK, Visible, ApiPublish, Lifecycle!vars
<1>3. ASSUME NEW c \in Commands, ApiCommit(c) PROVE Goal
  <2>1. status[c] = "absent"
    BY <1>3 DEF RInv, Visible, ApiCommit
  <2>2. Lifecycle!Issue(c)
    BY <1>3, <2>1 DEF ApiCommit, Lifecycle!Issue
  <2>3. dispatch # "fetch" => Current \in Commands
    BY BusyDispatcher DEF RInv
  <2>4. Visible'
    BY <1>3, <2>3 DEF RInv, TInv, TypeOK, Visible, Current, ApiCommit
  <2> QED BY <2>2, <2>4 DEF Lifecycle!Next
<1>4. ASSUME NEW c \in Commands, ApiRollback(c) PROVE Goal
  BY <1>4 DEF RInv, TInv, TypeOK, Visible, Current, ApiRollback, Lifecycle!vars
<1>5. ASSUME NEW d \in Devices, Revoke(d) \/ Reactivate(d) PROVE Goal
  BY <1>5 DEF RInv, Visible, Current, Revoke, Reactivate, Lifecycle!vars
<1> QED BY <1>1, <1>2, <1>3, <1>4, <1>5 DEF Api

(* The dispatcher: a recorded publish sends the command, a revoked device  *)
(* cancels it, and nothing else touches the row.                           *)
LEMMA DispatcherStep ==
  ASSUME RInv, Dispatcher
  PROVE  Visible' /\ [Lifecycle!Next]_(Lifecycle!vars)
<1> USE DEF devVars, rowVars, dispatchVars, ackVars, eventVars
<1> DEFINE Goal == Visible' /\ [Lifecycle!Next]_(Lifecycle!vars)
<1>1. CASE DispatchMissing
  BY <1>1 DEF RInv, Visible, DispatchMissing, Lifecycle!vars
<1>2. CASE DispatchLookup
  BY <1>2 DEF RInv, Visible, Current, DispatchLookup, Lifecycle!vars
<1>3. CASE DispatchCancel
  <2>1. /\ Current \in Commands
        /\ status[Current] # "absent"
    BY <1>3, BusyDispatcher DEF RInv, Visible, DispatchCancel
  <2>2. Visible'
    BY <1>3, <2>1 DEF RInv, TInv, TypeOK, Visible, DispatchCancel
  <2>3. CASE status[Current] = "acked"
    BY <1>3, <2>2, <2>3 DEF DispatchCancel, Lifecycle!vars
  <2>4. CASE status[Current] # "acked"
    <3>1. Lifecycle!Cancel(Current)
      BY <1>3, <2>1, <2>4 DEF DispatchCancel, Lifecycle!Cancel
    <3> QED BY <2>1, <2>2, <3>1 DEF Lifecycle!Next
  <2> QED BY <2>3, <2>4
<1>4. CASE DispatchPublish
  BY <1>4 DEF RInv, Visible, Current, DispatchPublish, Lifecycle!vars
<1>5. CASE DispatchRecord
  <2>1. /\ Current \in Commands
        /\ status[Current] # "absent"
    BY <1>5, BusyDispatcher DEF RInv, Visible, DispatchRecord
  <2>2. Visible'
    BY <1>5, <2>1 DEF RInv, TInv, TypeOK, Visible, DispatchRecord
  <2>3. CASE status[Current] = "queued"
    <3>1. Lifecycle!Send(Current)
      BY <1>5, <2>3 DEF RInv, TInv, TypeOK, DispatchRecord, Lifecycle!Send
    <3> QED BY <2>1, <2>2, <3>1 DEF Lifecycle!Next
  <2>4. CASE status[Current] # "queued"
    <3>1. status' = status
      BY <1>5, <2>1, <2>4 DEF RInv, TInv, TypeOK, DispatchRecord
    <3> QED BY <1>5, <2>2, <3>1 DEF DispatchRecord, Lifecycle!vars
  <2> QED BY <2>3, <2>4
<1>6. CASE DispatchError
  BY <1>6 DEF RInv, Visible, DispatchError, Lifecycle!vars
<1>7. CASE DispatchCommitOffsets
  BY <1>7 DEF RInv, Visible, DispatchCommitOffsets, Lifecycle!vars
<1>8. CASE DispatcherRestart
  BY <1>8 DEF RInv, Visible, DispatcherRestart, Lifecycle!vars
<1> QED BY <1>1, <1>2, <1>3, <1>4, <1>5, <1>6, <1>7, <1>8 DEF Dispatcher

(* An acknowledgement that takes effect settles its command; otherwise the *)
(* row, the debts and the events stay as they are.                         *)
LEMMA ApplyAckStep ==
  ASSUME RInv, NEW a \in Acks, NEW p \in Settlers, ApplyAck(a, p), UNCHANGED eventLog
  PROVE  /\ [Lifecycle!Next]_(Lifecycle!vars)
         /\ \A c \in Commands : status'[c] = "absent" <=> status[c] = "absent"
<1>1. a.cmd \in Commands /\ a.status \in AckStatuses
  BY DEF Acks
<1>2. CASE Applies(a)
  <2>1. Lifecycle!Settle(p, a.cmd, a.status)
    BY <1>1, <1>2 DEF ApplyAck, Applies, Lifecycle!Settle, Lifecycle!Open, Open, AckStatuses
  <2>2. a.status \in Lifecycle!Outcomes
    BY <1>1 DEF AckStatuses, Lifecycle!Outcomes
  <2>3. \A c \in Commands : status'[c] = "absent" <=> status[c] = "absent"
    BY <1>1, <1>2 DEF ApplyAck, Applies, Open, AckStatuses, RInv, TInv, TypeOK
  <2> QED BY <1>1, <2>1, <2>2, <2>3 DEF Lifecycle!Next
<1>3. CASE ~Applies(a)
  BY <1>3 DEF ApplyAck, Lifecycle!vars
<1> QED BY <1>2, <1>3

(* A publish announces what was owed.                                      *)
LEMMA PublishStep ==
  ASSUME NEW e \in owed, Publish(e), UNCHANGED status
  PROVE  Lifecycle!Next
  BY DEF Publish, Lifecycle!Announce, Lifecycle!Next

(* A failure before the publish loses what was owed.                       *)
LEMMA LoseStep ==
  ASSUME NEW S \in SUBSET owed, owed' = owed \ S, UNCHANGED <<status, eventLog>>
  PROVE  Lifecycle!Next
  BY DEF Lifecycle!Lose, Lifecycle!Next

(* The dispatcher's message and what is visible of it are left alone by    *)
(* the steps of the other services, which never hide a row.                *)
LEMMA VisibleStays ==
  ASSUME RInv, UNCHANGED <<api, commandLog, dispatchVars>>,
         \A c \in Commands : status'[c] = "absent" <=> status[c] = "absent"
  PROVE  Visible'
  BY BusyDispatcher DEF RInv, Visible, Current, dispatchVars

LEMMA ReceiverStep ==
  ASSUME RInv, AckReceiver
  PROVE  Visible' /\ [Lifecycle!Next]_(Lifecycle!vars)
<1> USE DEF devVars, rowVars, ackVars, eventVars
<1> DEFINE Goal == Visible' /\ [Lifecycle!Next]_(Lifecycle!vars)
<1>1. ASSUME NEW c \in Commands, NEW s \in AckStatuses, NEW t \in AckTimes \cup {Untrusted},
             NEW now \in AckTimes, OnAckMessage(c, s, t, now)
      PROVE  Goal
  BY <1>1, VisibleStays DEF OnAckMessage, Lifecycle!vars
<1>2. ASSUME NEW h \in handlers, HandlerForward(h) \/ HandlerDrops(h) PROVE Goal
  BY <1>2, VisibleStays DEF HandlerForward, HandlerDrops, Lifecycle!vars
<1>3. ASSUME NEW h \in handlers, HandlerApply(h) PROVE Goal
  <2>1. h.ack \in Acks /\ "handler" \in Settlers
    BY DEF RInv, TInv, TypeOK, Handlers, Settlers
  <2> QED BY <1>3, <2>1, ApplyAckStep, VisibleStays DEF HandlerApply
<1>4. ASSUME NEW e \in owed, HandlerAnnounce(e) \/ ConsumerAnnounce(e) PROVE Goal
  BY <1>4, PublishStep, VisibleStays DEF HandlerAnnounce, ConsumerAnnounce
<1>5. ASSUME NEW e \in owed, HandlerAnnounceFails(e) \/ ConsumerAnnounceFails(e) PROVE Goal
  <2>1. {e} \in SUBSET owed
    OBVIOUS
  <2> QED BY <1>5, <2>1, LoseStep, VisibleStays DEF HandlerAnnounceFails, ConsumerAnnounceFails
<1>6. CASE ConsumeAck
  <2>1. ackLog[ackPos + 1] \in Acks /\ "consumer" \in Settlers
    BY <1>6 DEF RInv, TInv, TypeOK, ConsumeAck, Settlers
  <2> QED BY <1>6, <2>1, ApplyAckStep, VisibleStays DEF ConsumeAck
<1>7. CASE AckCommitOffsets
  BY <1>7, VisibleStays DEF AckCommitOffsets, Lifecycle!vars
<1>8. CASE ReceiverRestart
  <2>1. (OwedBy("handler") \cup OwedBy("consumer")) \in SUBSET owed
    BY DEF OwedBy
  <2> QED BY <1>8, <2>1, LoseStep, VisibleStays DEF ReceiverRestart
<1> QED BY <1>1, <1>2, <1>3, <1>4, <1>5, <1>6, <1>7, <1>8 DEF AckReceiver

LEMMA TimeoutStep ==
  ASSUME RInv, TimeoutWorker
  PROVE  Visible' /\ [Lifecycle!Next]_(Lifecycle!vars)
<1> USE DEF devVars, rowVars, ackVars, eventVars
<1> DEFINE Goal == Visible' /\ [Lifecycle!Next]_(Lifecycle!vars)
<1>1. ASSUME NEW S \in SUBSET Commands, TimeoutScan(S) PROVE Goal
  BY <1>1, VisibleStays DEF TimeoutScan, Lifecycle!vars
<1>2. ASSUME NEW c \in Commands, TimeoutVisit(c) PROVE Goal
  <2>1. CASE status[c] = "sent"
    <3>1. Lifecycle!Settle("timeout", c, "timeout")
      BY <1>2, <2>1 DEF TimeoutVisit, Lifecycle!Settle, Lifecycle!Open
    <3>2. Lifecycle!Next
      BY <3>1 DEF Lifecycle!Next, Settlers, Lifecycle!Outcomes
    <3>3. \A d \in Commands : status'[d] = "absent" <=> status[d] = "absent"
      BY <1>2, <2>1 DEF TimeoutVisit, RInv, TInv, TypeOK
    <3> QED BY <1>2, <3>2, <3>3, VisibleStays DEF TimeoutVisit
  <2>2. CASE status[c] # "sent"
    BY <1>2, <2>2, VisibleStays DEF TimeoutVisit, Lifecycle!vars
  <2> QED BY <2>1, <2>2
<1>3. ASSUME NEW e \in owed, TimeoutAnnounce(e) PROVE Goal
  BY <1>3, PublishStep, VisibleStays DEF TimeoutAnnounce
<1>4. CASE TimeoutAbort
  <2>1. OwedBy("timeout") \in SUBSET owed
    BY DEF OwedBy
  <2> QED BY <1>4, <2>1, LoseStep, VisibleStays DEF TimeoutAbort
<1> QED BY <1>1, <1>2, <1>3, <1>4 DEF TimeoutWorker
-----------------------------------------------------------------------------
LEMMA NextStep ==
  ASSUME RInv, [Next]_vars
  PROVE  RInv' /\ [Lifecycle!Next]_(Lifecycle!vars)
<1>1. TInv'
  BY NextTInv DEF RInv
<1>2. ASSUME UNCHANGED vars PROVE Visible' /\ [Lifecycle!Next]_(Lifecycle!vars)
  BY <1>2, VisibleStays DEF vars, dispatchVars, Lifecycle!vars
<1>3. ASSUME Next PROVE Visible' /\ [Lifecycle!Next]_(Lifecycle!vars)
  BY <1>3, ApiStep, DispatcherStep, ReceiverStep, TimeoutStep DEF Next
<1> QED BY <1>1, <1>2, <1>3 DEF RInv

LEMMA InitLifecycle == Init => Lifecycle!Init
  BY DEF Init, Lifecycle!Init

(* Every behaviour of the pipeline is a behaviour of the abstract          *)
(* lifecycle: whatever the order of handlers, redeliveries, errors and     *)
(* restarts, a row moves and is announced only as CommandLifecycle allows. *)
THEOREM PipelineImplementsLifecycle == Spec => ImplementsLifecycle
<1>1. Init => RInv /\ Lifecycle!Init
  BY InitRInv, InitLifecycle
<1>2. RInv /\ [Next]_vars => RInv' /\ [Lifecycle!Next]_(Lifecycle!vars)
  BY NextStep
<1> QED BY <1>1, <1>2, PTL DEF Spec, ImplementsLifecycle, Lifecycle!Spec
-----------------------------------------------------------------------------
(***************************************************************************)
(* What a row of device_commands says of the world outside Postgres: that  *)
(* its message is in Kafka, that the broker has taken it, that the device  *)
(* has answered.  One more inductive invariant follows a command through   *)
(* the dispatcher and an acknowledgement through the handlers and Kafka.   *)
(***************************************************************************)
(* A request that may yet commit, or has, is past its publish.             *)
Messages ==
    \A c \in Commands : api[c] \in {"published", "committed"} =>
        \E i \in DOMAIN commandLog : commandLog[i] = c

(* The dispatcher records what it has published, and an acknowledgement,   *)
(* wherever it is on its way, is for a command the broker had taken.       *)
Taken ==
    /\ dispatch = "record" => Current \in toDevice
    /\ \A h \in handlers : h.ack.cmd \in toDevice
    /\ \A i \in DOMAIN ackLog : ackLog[i].cmd \in toDevice

Rows == SentWasPublished /\ AckTimeMeansAnswer

WInv == RInv /\ Messages /\ Taken /\ Rows

LEMMA InitWInv == Init => WInv
  BY InitRInv DEF Init, WInv, Messages, Taken, Rows, SentWasPublished, AckTimeMeansAnswer,
                  Outcomes, AckStatuses
-----------------------------------------------------------------------------
(* What a step that leaves the rows alone owes the invariant.              *)
LEMMA RowsStay ==
  ASSUME Rows, UNCHANGED rowVars, toDevice \subseteq toDevice'
  PROVE  Rows'
  BY DEF Rows, SentWasPublished, AckTimeMeansAnswer, rowVars

(* What a step of another service leaves of the requests, the dispatcher   *)
(* and the acknowledgements.                                               *)
LEMMA MessagesStay ==
  ASSUME Messages, UNCHANGED <<api, commandLog>>
  PROVE  Messages'
  BY DEF Messages

LEMMA TakenStays ==
  ASSUME TInv, Taken, toDevice \subseteq toDevice', UNCHANGED <<commandLog, dispatchVars, ackLog>>,
         handlers' \subseteq handlers
  PROVE  Taken'
  BY DEF Taken, Current, dispatchVars

LEMMA ApiRows ==
  ASSUME WInv, Api
  PROVE  Messages' /\ Taken' /\ Rows'
<1> USE DEF devVars, ackVars, eventVars
<1> DEFINE Goal == Messages' /\ Taken' /\ Rows'
<1>0. TInv /\ Messages /\ Taken /\ Rows /\ Visible
  BY DEF WInv, RInv
<1>1. ASSUME NEW c \in Commands, ApiCheckDevice(c) PROVE Goal
  <2>1. Messages'
    BY <1>0, <1>1 DEF Messages, ApiCheckDevice, TInv, TypeOK
  <2> QED BY <1>0, <1>1, <2>1, TakenStays, RowsStay DEF ApiCheckDevice
<1>2. ASSUME NEW c \in Commands, ApiPublish(c) PROVE Goal
  <2>1. /\ commandLog' = Append(commandLog, c)
        /\ api' = [api EXCEPT ![c] = "published"]
        /\ commandLog \in Seq(Commands)
        /\ api \in [Commands -> {"idle", "refused", "inserted", "published",
                                 "committed", "rolledback"}]
    BY <1>0, <1>2 DEF ApiPublish, TInv, TypeOK
  <2>2. \A i \in DOMAIN commandLog : i \in DOMAIN commandLog' /\ commandLog'[i] = commandLog[i]
    BY <2>1
  <2>3. Len(commandLog') \in DOMAIN commandLog' /\ commandLog'[Len(commandLog')] = c
    BY <2>1
  <2>4. Messages'
    BY <1>0, <2>1, <2>2, <2>3 DEF Messages
  <2>5. dispatch # "fetch" => Current' = Current
    BY <1>0, <1>2, BusyDispatcher, CurrentStays DEF ApiPublish, dispatchVars
  <2>6. Taken'
    BY <1>0, <1>2, <2>5 DEF Taken, ApiPublish, dispatchVars
  <2> QED BY <1>0, <1>2, <2>4, <2>6, RowsStay DEF ApiPublish
<1>3. ASSUME NEW c \in Commands, ApiCommit(c) PROVE Goal
  <2>1. Messages'
    BY <1>0, <1>3 DEF Messages, ApiCommit, TInv, TypeOK
  <2>2. Taken'
    BY <1>0, <1>3, TakenStays DEF ApiCommit
  <2>3. status[c] = "absent" /\ ackedAt[c] = 0
    BY <1>0, <1>3 DEF Visible, ApiCommit, Rows, AckTimeMeansAnswer, AckStatuses
  <2>4. Rows'
    BY <1>0, <1>3, <2>3 DEF Rows, SentWasPublished, AckTimeMeansAnswer, ApiCommit,
                            Outcomes, AckStatuses, TInv, TypeOK
  <2> QED BY <2>1, <2>2, <2>4
<1>4. ASSUME NEW c \in Commands, ApiRollback(c) PROVE Goal
  <2>1. Messages'
    BY <1>0, <1>4 DEF Messages, ApiRollback, TInv, TypeOK
  <2> QED BY <1>0, <1>4, <2>1, TakenStays, RowsStay DEF ApiRollback
<1>5. ASSUME NEW d \in Devices, Revoke(d) \/ Reactivate(d) PROVE Goal
  BY <1>0, <1>5, MessagesStay, TakenStays, RowsStay DEF Revoke, Reactivate
<1> QED BY <1>1, <1>2, <1>3, <1>4, <1>5 DEF Api

LEMMA DispatcherRows ==
  ASSUME WInv, Dispatcher
  PROVE  Messages' /\ Taken' /\ Rows'
<1> USE DEF devVars, ackVars, eventVars
<1> DEFINE Goal == Messages' /\ Taken' /\ Rows'
<1>0. TInv /\ Messages /\ Taken /\ Rows /\ Visible
  BY DEF WInv, RInv
<1>1. Messages'
  BY <1>0, MessagesStay
  DEF Dispatcher, DispatchMissing, DispatchLookup, DispatchCancel, DispatchPublish,
      DispatchRecord, DispatchError, DispatchCommitOffsets, DispatcherRestart
<1>2. CASE DispatchMissing \/ DispatchLookup \/ DispatchError \/ DispatchCommitOffsets
           \/ DispatcherRestart
  <2>1. toDevice \subseteq toDevice' /\ UNCHANGED rowVars
    BY <1>2 DEF DispatchMissing, DispatchLookup, DispatchError, DispatchCommitOffsets,
                DispatcherRestart
  <2>2. Taken'
    BY <1>0, <1>2 DEF Taken, Current, DispatchMissing, DispatchLookup, DispatchError,
                      DispatchCommitOffsets, DispatcherRestart
  <2> QED BY <1>0, <1>1, <2>1, <2>2, RowsStay
<1>3. CASE DispatchCancel
  <2>1. Taken'
    BY <1>0, <1>3 DEF Taken, DispatchCancel
  <2>2. Current \in Commands
    BY <1>0, <1>3, BusyDispatcher DEF DispatchCancel
  <2>3. Rows'
    BY <1>0, <1>3, <2>2 DEF Rows, SentWasPublished, AckTimeMeansAnswer, DispatchCancel,
                            Outcomes, AckStatuses, TInv, TypeOK
  <2> QED BY <1>1, <2>1, <2>3
<1>4. CASE DispatchPublish
  <2>1. Taken'
    BY <1>0, <1>4 DEF Taken, Current, DispatchPublish
  <2> QED BY <1>0, <1>1, <1>4, <2>1, RowsStay DEF DispatchPublish
<1>5. CASE DispatchRecord
  <2>1. Taken'
    BY <1>0, <1>5 DEF Taken, DispatchRecord
  <2>2. Current \in Commands /\ Current \in toDevice
    BY <1>0, <1>5, BusyDispatcher DEF Taken, DispatchRecord
  <2>3. SentBefore \in Nat
    <3>1. IsFiniteSet({c \in Commands : sentAt[c] # 0})
      BY CommandsAssumption, FS_Subset
    <3> QED BY <3>1, FS_CardinalityType DEF SentBefore
  <2>4. Rows'
    BY <1>0, <1>5, <2>2, <2>3 DEF Rows, SentWasPublished, AckTimeMeansAnswer,
                                  DispatchRecord, Outcomes, AckStatuses, TInv, TypeOK
  <2> QED BY <1>1, <2>1, <2>4
<1> QED BY <1>2, <1>3, <1>4, <1>5 DEF Dispatcher
-----------------------------------------------------------------------------
(* An acknowledgement of a command the broker had taken settles its row    *)
(* and sets acked_at, or changes nothing.                                  *)
LEMMA ApplyAckRows ==
  ASSUME TInv, Rows, NEW a \in Acks, NEW p, a.cmd \in toDevice, ApplyAck(a, p),
         UNCHANGED <<sentAt, toDevice>>
  PROVE  Rows'
<1>1. a.cmd \in Commands /\ a.status \in AckStatuses /\ a.ts \in AckTimes /\ a.ts # 0
  BY AckTimesAssumption DEF Acks
<1>2. CASE Applies(a)
  BY <1>1, <1>2 DEF ApplyAck, Rows, SentWasPublished, AckTimeMeansAnswer, Outcomes,
                    AckStatuses, TInv, TypeOK
<1>3. CASE ~Applies(a)
  BY <1>3, RowsStay DEF ApplyAck, rowVars
<1> QED BY <1>2, <1>3

LEMMA ReceiverRows ==
  ASSUME WInv, AckReceiver
  PROVE  Messages' /\ Taken' /\ Rows'
<1> USE DEF devVars, ackVars, eventVars
<1> DEFINE Goal == Messages' /\ Taken' /\ Rows'
<1>0. TInv /\ Messages /\ Taken /\ Rows
  BY DEF WInv, RInv
<1>1. ASSUME NEW c \in Commands, NEW s \in AckStatuses, NEW t \in AckTimes \cup {Untrusted},
             NEW now \in AckTimes, OnAckMessage(c, s, t, now)
      PROVE  Goal
  <2> DEFINE a == NormalizeAckTimestamp([cmd |-> c, status |-> s, ts |-> t], now)
  <2>1. a.cmd = c
    BY DEF NormalizeAckTimestamp
  <2>2. c \in toDevice /\ handlers' = handlers \cup {[ack |-> a, pc |-> "forward"]}
    BY <1>1 DEF OnAckMessage
  <2>3. UNCHANGED <<api, rowVars, commandLog, dispatchVars, toDevice, ackLog>>
    BY <1>1 DEF OnAckMessage
  <2> HIDE DEF a
  <2>4. Taken'
    BY <1>0, <2>1, <2>2, <2>3 DEF Taken, Current, dispatchVars
  <2> QED BY <1>0, <2>3, <2>4, MessagesStay, RowsStay
<1>2. ASSUME NEW h \in handlers, HandlerForward(h) PROVE Goal
  <2>1. h \in Handlers /\ h.ack \in Acks /\ h.ack.cmd \in toDevice
    BY <1>0 DEF TInv, TypeOK, Handlers, Taken
  <2>2. /\ ackLog' = Append(ackLog, h.ack)
        /\ handlers' = (handlers \ {h}) \cup {[h EXCEPT !.pc = "apply"]}
        /\ UNCHANGED <<api, rowVars, commandLog, dispatchVars, toDevice>>
    BY <1>2 DEF HandlerForward
  <2>3. \A g \in handlers' : g.ack.cmd \in toDevice
    BY <1>0, <2>1, <2>2 DEF Taken, Handlers
  <2>4. \A i \in DOMAIN ackLog' : ackLog'[i].cmd \in toDevice
    BY <1>0, <2>1, <2>2 DEF Taken, TInv, TypeOK
  <2>5. Taken'
    BY <1>0, <2>2, <2>3, <2>4 DEF Taken, Current, dispatchVars
  <2> QED BY <1>0, <2>2, <2>5, MessagesStay, RowsStay
<1>3. ASSUME NEW h \in handlers, HandlerApply(h) PROVE Goal
  <2>1. h.ack \in Acks /\ h.ack.cmd \in toDevice
    BY <1>0 DEF TInv, TypeOK, Handlers, Taken
  <2> QED BY <1>0, <1>3, <2>1, ApplyAckRows, MessagesStay, TakenStays DEF HandlerApply
<1>4. ASSUME NEW h \in handlers, HandlerDrops(h) PROVE Goal
  BY <1>0, <1>4, MessagesStay, TakenStays, RowsStay DEF HandlerDrops
<1>5. ASSUME NEW e \in owed, \/ HandlerAnnounce(e) \/ HandlerAnnounceFails(e)
                             \/ ConsumerAnnounce(e) \/ ConsumerAnnounceFails(e)
      PROVE  Goal
  BY <1>0, <1>5, MessagesStay, TakenStays, RowsStay
  DEF HandlerAnnounce, HandlerAnnounceFails, ConsumerAnnounce, ConsumerAnnounceFails
<1>6. CASE ConsumeAck
  <2>1. ackLog[ackPos + 1] \in Acks /\ ackLog[ackPos + 1].cmd \in toDevice
    BY <1>0, <1>6 DEF TInv, TypeOK, ConsumeAck, Taken
  <2> QED BY <1>0, <1>6, <2>1, ApplyAckRows, MessagesStay, TakenStays DEF ConsumeAck
<1>7. CASE AckCommitOffsets \/ ReceiverRestart
  BY <1>0, <1>7, MessagesStay, TakenStays, RowsStay DEF AckCommitOffsets, ReceiverRestart
<1> QED BY <1>1, <1>2, <1>3, <1>4, <1>5, <1>6, <1>7 DEF AckReceiver

LEMMA TimeoutRows ==
  ASSUME WInv, TimeoutWorker
  PROVE  Messages' /\ Taken' /\ Rows'
<1> USE DEF devVars, ackVars, eventVars
<1> DEFINE Goal == Messages' /\ Taken' /\ Rows'
<1>0. TInv /\ Messages /\ Taken /\ Rows
  BY DEF WInv, RInv
<1>1. ASSUME NEW S \in SUBSET Commands, TimeoutScan(S) PROVE Goal
  BY <1>0, <1>1, MessagesStay, TakenStays, RowsStay DEF TimeoutScan
<1>2. ASSUME NEW c \in Commands, TimeoutVisit(c) PROVE Goal
  <2>1. Messages' /\ Taken'
    BY <1>0, <1>2, MessagesStay, TakenStays DEF TimeoutVisit
  <2>2. Rows'
    BY <1>0, <1>2 DEF Rows, SentWasPublished, AckTimeMeansAnswer, TimeoutVisit, Outcomes,
                      AckStatuses, TInv, TypeOK
  <2> QED BY <2>1, <2>2
<1>3. ASSUME NEW e \in owed, TimeoutAnnounce(e) PROVE Goal
  BY <1>0, <1>3, MessagesStay, TakenStays, RowsStay DEF TimeoutAnnounce
<1>4. CASE TimeoutAbort
  BY <1>0, <1>4, MessagesStay, TakenStays, RowsStay DEF TimeoutAbort
<1> QED BY <1>1, <1>2, <1>3, <1>4 DEF TimeoutWorker
-----------------------------------------------------------------------------
LEMMA NextWInv == WInv /\ [Next]_vars => WInv'
<1> SUFFICES ASSUME WInv, [Next]_vars PROVE WInv'
  OBVIOUS
<1>1. RInv'
  BY NextStep DEF WInv
<1>2. ASSUME UNCHANGED vars PROVE Messages' /\ Taken' /\ Rows'
  BY <1>2, MessagesStay, TakenStays, RowsStay DEF WInv, RInv, vars, dispatchVars, rowVars
<1>3. ASSUME Next PROVE Messages' /\ Taken' /\ Rows'
  BY <1>3, ApiRows, DispatcherRows, ReceiverRows, TimeoutRows DEF Next
<1> QED BY <1>1, <1>2, <1>3 DEF WInv

(* In every instance a visible row has its Kafka message, whatever becomes *)
(* of other requests: the dispatcher can find every command it owes.       *)
THEOREM PipelineRowHasItsMessage == Spec => []RowHasItsMessage
<1>1. WInv => RowHasItsMessage
  BY DEF WInv, RInv, Visible, Messages, RowHasItsMessage
<1> QED BY <1>1, InitWInv, NextWInv, PTL DEF Spec

(* In every instance a command recorded sent, timed out or answered was    *)
(* taken by the broker, through every redelivery, error and restart.       *)
THEOREM PipelineSentWasPublished == Spec => []SentWasPublished
<1>1. WInv => SentWasPublished
  BY DEF WInv, Rows
<1> QED BY <1>1, InitWInv, NextWInv, PTL DEF Spec

(* In every instance acked_at is set exactly while the device's answer     *)
(* decides the row: the comparison of ack_ts in applyAckToPostgres never   *)
(* refuses an acknowledgement.                                             *)
THEOREM PipelineAckTimeMeansAnswer == Spec => []AckTimeMeansAnswer
<1>1. WInv => AckTimeMeansAnswer
  BY DEF WInv, Rows
<1> QED BY <1>1, InitWInv, NextWInv, PTL DEF Spec
-----------------------------------------------------------------------------
(***************************************************************************)
(* The safety proved of the abstract lifecycle carries over.               *)
(***************************************************************************)
Path == INSTANCE CommandPathProofs

LEMMA SameInit == Lifecycle!Init => Path!Init
  BY DEF Lifecycle!Init, Path!Init

LEMMA SameNext == [Lifecycle!Next]_(Lifecycle!vars) => [Path!Next]_(Path!vars)
  BY DEF Lifecycle!Next, Lifecycle!vars, Lifecycle!Issue, Lifecycle!Send, Lifecycle!Cancel,
         Lifecycle!Settle, Lifecycle!Announce, Lifecycle!Lose, Lifecycle!Open,
         Lifecycle!Outcomes, Path!Next, Path!vars, Path!Issue, Path!Send,
         Path!Cancel, Path!Settle, Path!Announce, Path!Lose, Path!Open,
         Path!Outcomes

LEMMA SameSafety ==
  Path!IInv => OneOutcomePerCommand /\ EventMatchesRow
  BY DEF Path!IInv, Path!OneOutcomePerCommand, Path!EventMatchesRow,
         Path!Agrees, OneOutcomePerCommand, EventMatchesRow,
         Lifecycle!OneOutcomePerCommand, Lifecycle!EventMatchesRow, Lifecycle!Agrees

(* In every instance, no command is ever announced with two outcomes, and  *)
(* what is announced is what the row says or said before a cancellation.   *)
THEOREM PipelineSafety == Spec => [](OneOutcomePerCommand /\ EventMatchesRow)
<1>1. Init => RInv /\ Path!IInv
  BY InitRInv, InitLifecycle, SameInit, Path!InitIInv
<1>2. RInv /\ Path!IInv /\ [Next]_vars => RInv' /\ Path!IInv'
  BY NextStep, SameNext, Path!NextIInv
<1> QED BY <1>1, <1>2, SameSafety, PTL DEF Spec

(* In every instance, what is announced is what the row kept, unless a     *)
(* revocation canceled the row later.                                      *)
THEOREM PipelineEventMatchesRow == Spec => []EventMatchesRow
<1>1. OneOutcomePerCommand /\ EventMatchesRow => EventMatchesRow
  OBVIOUS
<1> QED BY <1>1, PipelineSafety, PTL

(* In every instance, an outcome changes only into a cancellation, and an  *)
(* acknowledged or canceled command never changes again.                   *)
THEOREM PipelineOutcomeIsFinal == Spec => OutcomeIsFinal
<1> DEFINE Step == \A c \in Commands :
        /\ status[c] \in Outcomes => status'[c] \in {status[c], "canceled"}
        /\ status[c] \in {"acked", "canceled"} => status'[c] = status[c]
<1>1. Init => RInv /\ Path!IInv
  BY InitRInv, InitLifecycle, SameInit, Path!InitIInv
<1>2. RInv /\ Path!IInv /\ [Next]_vars => RInv' /\ Path!IInv'
  BY NextStep, SameNext, Path!NextIInv
<1>3. RInv /\ Path!IInv /\ [Next]_vars => Step
  BY NextStep, SameNext, Path!NextOutcomeIsFinal
     DEF Path!OutcomeIsFinalStep, Path!Outcomes, Outcomes, AckStatuses
<1> HIDE DEF Step
<1>4. Spec => [][Step]_vars
  BY <1>1, <1>2, <1>3, PTL DEF Spec
<1> QED BY <1>4 DEF OutcomeIsFinal, Step
-----------------------------------------------------------------------------
(***************************************************************************)
(* The services together: the pipeline and the two workers of              *)
(* CommandEvents, which share only the topic of lifecycle events.          *)
(***************************************************************************)
ServicesInit == Init /\ Path!Readers!Init

ServicesNext ==
    \/ Next /\ UNCHANGED Path!readerVars
    \/ Path!Readers!ReadersNext /\ UNCHANGED vars

ServicesSpec == ServicesInit /\ [][ServicesNext]_<<vars, Path!readerVars>>

LEMMA InitServices == ServicesInit => RInv /\ Path!PathInit
  BY InitRInv, InitLifecycle, SameInit DEF ServicesInit, Path!PathInit

LEMMA StepServices ==
  ASSUME RInv, [ServicesNext]_<<vars, Path!readerVars>>
  PROVE  RInv' /\ [Path!PathNext]_(Path!pathVars)
<1>1. ASSUME [Next]_vars, UNCHANGED Path!readerVars
      PROVE  RInv' /\ [Path!PathNext]_(Path!pathVars)
  <2>1. RInv' /\ [Path!Next]_(Path!vars)
    BY <1>1, NextStep, SameNext
  <2> QED BY <1>1, <2>1 DEF Path!PathNext, Path!pathVars
<1>2. ASSUME Path!Readers!ReadersNext, UNCHANGED vars
      PROVE  RInv' /\ [Path!PathNext]_(Path!pathVars)
  <2>1. RInv'
    BY <1>2, NextStep
  <2>2. UNCHANGED Path!vars
    BY <1>2 DEF vars, Path!vars
  <2> QED BY <1>2, <2>1, <2>2 DEF Path!PathNext
<1> QED BY <1>1, <1>2 DEF ServicesNext

(* Every behaviour of the services of the command pipeline together is a   *)
(* behaviour of CommandPath, whose pipeline is the abstract lifecycle.     *)
THEOREM ServicesImplementPath == ServicesSpec => Path!PathSpec
  BY InitServices, StepServices, PTL DEF ServicesSpec, Path!PathSpec

(* Through redelivered commands, acknowledgements and events, failed       *)
(* publishes and restarts of the dispatcher, the receiver and both         *)
(* readers, a command is notified at most once, and the notification says  *)
(* what its row says or said before a cancellation.                        *)
THEOREM ServicesNotifyOnce ==
  ServicesSpec => [](Path!OneNotificationPerCommand /\ Path!NotificationIsTrue)
<1>1. ServicesInit => RInv /\ Path!PathInv
  BY InitServices, Path!InitPathInv
<1>2. /\ RInv /\ Path!PathInv /\ [ServicesNext]_<<vars, Path!readerVars>>
      => RInv' /\ Path!PathInv'
  BY StepServices, Path!NextPathInv
<1>3. Path!PathInv => Path!OneNotificationPerCommand /\ Path!NotificationIsTrue
  BY Path!PathInvImplies
<1> QED BY <1>1, <1>2, <1>3, PTL DEF ServicesSpec
=============================================================================
