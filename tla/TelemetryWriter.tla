--------------------------- MODULE TelemetryWriter ---------------------------
(***************************************************************************)
(* telemetry-writer: one partition of telemetry.raw.v1 is read batch by    *)
(* batch; each message is refused into telemetry.dlq.v1 or kept in memory  *)
(* until a flush inserts what is pending into ClickHouse, merges it into   *)
(* the shadows in Postgres and resolves the offsets.                       *)
(*                                                                         *)
(* Messages are known by their position in the log, which is their offset  *)
(* plus one, so that "resolved up to p" and "message p" use one number.    *)
(***************************************************************************)
EXTENDS SequencePolicy, Sequences, FiniteSets

CONSTANTS
    Devices,           \* devices that report on this partition
    Settings,          \* the circumstances to choose from, see below
    Unset,             \* a map has no entry for the device
    MaxLog             \* bound: messages produced

(* A setting: the messages that may be produced, what may fail,            *)
(* config.batchMaxMessages, and a bound on restarts of the writer.         *)
FaultKinds == {"outage", "data", "read", "shadow", "batch"}

(* The states of a device, made of messages of a set.                      *)
States(S) == [seq : Nat \cup {NoSeq}, up : Nat \cup {NoUptime}, at : Nat,
              field : BOOLEAN, smoke : BOOLEAN, from : SUBSET S]

ASSUME WriterAssumption ==
    /\ \A set \in Settings :
        /\ DOMAIN set = {"inputs", "faults", "batchMax", "restarts"}
        /\ \A m \in set.inputs :
            /\ DOMAIN m = {"dev", "kind", "seq", "up", "at", "field", "smoke"}
            /\ m.dev \in Devices
            /\ m.kind \in {"bad", "over", "ok"}
            /\ m.seq \in Nat \cup {NoSeq} /\ m.up \in Nat \cup {NoUptime}
            /\ m.at \in Nat \ {0}
            /\ m.field \in BOOLEAN /\ m.smoke \in BOOLEAN
        /\ set.faults \subseteq FaultKinds
        /\ set.batchMax \in Nat \ {0}
        /\ set.restarts \in Nat
    /\ MaxLog \in Nat
    /\ Unset \notin States(Nat)

VARIABLES
    setting,      \* of this behaviour, one of Settings
    log,          \* topic telemetry.raw.v1
    pos,          \* resolved position of the running consumer, never committed
    passed,       \* history: messages that restarts passed over
    pc,           \* where eachBatch is
    batchEnd,     \* the flush under way is the one at the end of the batch
    next, end,    \* messages of the batch handled so far, its last message
    pending,      \* messages waiting to be inserted
    latestSeq,    \* latestSeqByDeviceId
    latestState,  \* latestShadowStateByDeviceId
    deviceState,  \* deviceStateByDeviceId
    isolated,     \* pending messages the isolation has tried
    updates,      \* shadowUpdates of the isolation
    stored,       \* messages with rows in ClickHouse
    dlq,          \* messages refused, with the reason
    shadow,       \* device_state
    restarts

cacheVars == <<latestSeq, latestState, deviceState>>
isoVars   == <<isolated, updates>>
batchVars == <<next, end, batchEnd>>
stopVars  == <<restarts, passed>>
sinkVars  == <<stored, dlq, shadow>>
vars == <<setting, log, pos, pc, batchEnd, next, end, pending, latestSeq, latestState,
          deviceState, isolated, updates, stored, dlq, shadow, restarts, passed>>

Faults == setting.faults

NoMap   == [d \in Devices |-> Unset]
Reasons == {"schema", "sequence", "budget", "insert", "error"}

Init ==
    /\ setting \in Settings
    /\ log = <<>> /\ pos = 0
    /\ pc = "idle" /\ batchEnd = FALSE /\ next = 0 /\ end = 0
    /\ pending = <<>>
    /\ latestSeq = NoMap /\ latestState = NoMap /\ deviceState = NoMap
    /\ isolated = 0 /\ updates = NoMap
    /\ stored = {} /\ dlq = {}
    /\ shadow = [d \in Devices |-> Blank]
    /\ restarts = 0 /\ passed = {}

Waiting == {pending[k] : k \in DOMAIN pending}
Last(s) == s[Len(s)]

Produce(m) ==
    /\ Len(log) < MaxLog
    /\ log' = Append(log, m)
    /\ UNCHANGED <<pos, pc, batchVars, pending, cacheVars, isoVars,
                   sinkVars, stopVars>>

(* Mutants: the map of numbers, or of states, outlives the batch.          *)
ForgetKeepsSeq ==
    /\ pending' = <<>> /\ isolated' = 0 /\ updates' = NoMap
    /\ latestSeq' = latestSeq /\ latestState' = NoMap /\ deviceState' = NoMap
ForgetKeepsState ==
    /\ pending' = <<>> /\ isolated' = 0 /\ updates' = NoMap
    /\ latestSeq' = NoMap /\ latestState' = NoMap /\ deviceState' = deviceState

(* Maps and pending messages live in eachBatch: every batch starts empty.  *)
Forget ==
    /\ pending' = <<>>
    /\ latestSeq' = NoMap /\ latestState' = NoMap /\ deviceState' = NoMap
    /\ isolated' = 0 /\ updates' = NoMap

(* eachBatch returns or throws; the next fetch starts where pos is.        *)
LeaveBatch ==
    /\ pc' = "idle"
    /\ next' = 0 /\ end' = 0 /\ batchEnd' = FALSE

(* A batch is any stretch of the log from the resolved position on.        *)
FetchBatch ==
    /\ pc = "idle" /\ pos < Len(log)
    /\ next' = pos
    /\ end' \in (pos + 1)..Len(log)
    /\ pc' = "loop"
    /\ UNCHANGED <<log, pos, batchEnd, pending, cacheVars, isoVars,
                   sinkVars, stopVars>>
-----------------------------------------------------------------------------
(***************************************************************************)
(* One message of the batch.                                               *)
(***************************************************************************)
Handling == pc = "loop" /\ next < end
Message  == log[next + 1]
Device   == Message.dev

(* The message goes to the dead letters and its offset is resolved, though *)
(* earlier messages may still be pending.                                  *)
Refuse(reason) ==
    /\ dlq' = dlq \cup {[msg |-> next + 1, reason |-> reason]}
    /\ pos' = next + 1
    /\ next' = next + 1

(* Too large, not JSON, or not the schema.                                 *)
RefuseMalformed ==
    /\ Handling /\ Message.kind = "bad"
    /\ Refuse("schema")
    /\ UNCHANGED <<log, pc, end, batchEnd, pending, cacheVars, isoVars,
                   stored, shadow, stopVars>>

(* The maps hold a device from its first message on until a flush.         *)
StateOf(d) == IF latestState[d] = Unset THEN shadow[d] ELSE latestState[d]
SeqOf(d)   == IF latestSeq[d] = Unset THEN shadow[d].seq ELSE latestSeq[d]

(* Postgres fails while the shadow is read, or its last_seq after it: the  *)
(* message is refused as if it were not JSON.                              *)
RefuseUnread ==
    /\ "read" \in Faults
    /\ Handling /\ Message.kind # "bad"
    /\ \/ latestState[Device] = Unset /\ UNCHANGED latestState
       \/ /\ Message.seq # NoSeq /\ latestSeq[Device] = Unset
          /\ latestState' = [latestState EXCEPT ![Device] = StateOf(Device)]
    /\ Refuse("error")
    /\ UNCHANGED <<log, pc, end, batchEnd, pending, latestSeq,
                   deviceState, isoVars, stored, shadow, stopVars>>

(* Not newer than the last number seen, and no sign of a restart.          *)
IsRepeat ==
    /\ RolledBack(Message, SeqOf(Device))
    /\ ~EvaluateSequenceReset(Message, StateOf(Device))

RefuseRepeat ==
    /\ Handling /\ Message.kind # "bad" /\ IsRepeat
    /\ Refuse("sequence")
    /\ latestState' = [latestState EXCEPT ![Device] = StateOf(Device)]
    /\ latestSeq' = [latestSeq EXCEPT ![Device] = SeqOf(Device)]
    /\ UNCHANGED <<log, pc, end, batchEnd, pending, deviceState, isoVars,
                   stored, shadow, stopVars>>

RememberSeq ==
    latestSeq' = IF Message.seq = NoSeq THEN latestSeq
                 ELSE [latestSeq EXCEPT ![Device] = Message.seq]

(* Over the high-frequency budget: its number has been remembered.         *)
RefuseOverBudget ==
    /\ Handling /\ Message.kind = "over" /\ ~IsRepeat
    /\ Refuse("budget")
    /\ RememberSeq
    /\ latestState' = [latestState EXCEPT ![Device] = StateOf(Device)]
    /\ UNCHANGED <<log, pc, end, batchEnd, pending, deviceState, isoVars,
                   stored, shadow, stopVars>>

(* Kept for the next flush, which the limit on messages forces and the     *)
(* limits on rows and on time may call for.  A message received before one *)
(* that is already merged leaves the state alone.                          *)
Accept ==
    /\ Handling /\ Message.kind = "ok" /\ ~IsRepeat
    /\ pending' = Append(pending, next + 1)
    /\ next' = next + 1
    /\ RememberSeq
    /\ LET merged == deviceState[Device]
           state  == BuildShadowState(next + 1, Message,
                         IF merged = Unset THEN StateOf(Device) ELSE merged)
       IN IF merged = Unset \/ merged.at <= Message.at
          THEN /\ deviceState' = [deviceState EXCEPT ![Device] = state]
               /\ latestState' = [latestState EXCEPT ![Device] = state]
          ELSE UNCHANGED <<deviceState, latestState>>
    /\ pc' \in {"loop", "flush"}
    /\ Len(pending') >= setting.batchMax => pc' = "flush"
    /\ UNCHANGED <<log, pos, end, batchEnd, isoVars, sinkVars, stopVars>>

(* A heartbeat or the publication of a dead letter throws: the batch is    *)
(* given up, and the consumer fetches from the resolved position.          *)
BatchFails ==
    /\ "batch" \in Faults
    /\ pc = "loop"
    /\ LeaveBatch
    /\ Forget
    /\ UNCHANGED <<log, pos, sinkVars, stopVars>>
-----------------------------------------------------------------------------
(***************************************************************************)
(* The flush, in the middle or at the end of a batch.                      *)
(***************************************************************************)
AtBatchEnd ==
    /\ pc = "loop" /\ next = end
    /\ batchEnd' = TRUE
    /\ pc' = "flush"
    /\ UNCHANGED <<log, pos, next, end, pending, cacheVars, isoVars,
                   sinkVars, stopVars>>

AfterFlush ==
    IF batchEnd THEN LeaveBatch ELSE pc' = "loop" /\ UNCHANGED batchVars

(* The shadows of some devices are written, all of them unless Postgres    *)
(* fails.  A row is not overwritten by a state received earlier.           *)
WriteShadows(states) ==
    LET given == {d \in Devices : states[d] # Unset}
    IN \E D \in SUBSET given :
        /\ "shadow" \in Faults \/ D = given
        /\ shadow' = [d \in Devices |->
               IF d \in D /\ states[d].at >= shadow[d].at THEN states[d] ELSE shadow[d]]

FlushNothing ==
    /\ pc = "flush" /\ pending = <<>>
    /\ AfterFlush
    /\ Forget
    /\ UNCHANGED <<log, pos, sinkVars, stopVars>>

FlushInsert ==
    /\ pc = "flush" /\ pending # <<>>
    /\ stored' = stored \cup Waiting
    /\ pc' = "inserted"
    /\ UNCHANGED <<log, pos, batchVars, pending, cacheVars, isoVars, dlq,
                   shadow, stopVars>>

(* Mutant: the end of the batch is resolved, not what was inserted.        *)
FlushDoneResolvesBatch ==
    /\ pc = "inserted"
    /\ WriteShadows(deviceState)
    /\ pos' = end
    /\ Forget
    /\ AfterFlush
    /\ UNCHANGED <<log, stored, dlq, stopVars>>

(* Shadows are written, and each offset pending is resolved in turn.       *)
FlushDone ==
    /\ pc = "inserted"
    /\ WriteShadows(deviceState)
    /\ pos' = Last(pending)
    /\ Forget
    /\ AfterFlush
    /\ UNCHANGED <<log, stored, dlq, stopVars>>

(* What an error out of a flush does.  At the end of the batch the batch is*)
(* given up; in the middle the message just accepted is refused and        *)
(* resolved, and the loop goes on with everything still pending.           *)
FlushThrows ==
    IF batchEnd
    THEN /\ LeaveBatch
         /\ Forget
         /\ UNCHANGED <<pos, dlq>>
    ELSE /\ pc' = "loop"
         /\ dlq' = dlq \cup {[msg |-> next, reason |-> "error"]}
         /\ pos' = next
         /\ isolated' = 0 /\ updates' = NoMap
         /\ UNCHANGED <<batchVars, pending, cacheVars>>

(* ClickHouse stays unreachable through the retries, and may have kept the *)
(* rows of an attempt whose answer was lost.                               *)
FlushFails ==
    /\ "outage" \in Faults
    /\ pc = "flush" /\ pending # <<>>
    /\ stored' \in {stored, stored \cup Waiting}
    /\ FlushThrows
    /\ UNCHANGED <<log, shadow, stopVars>>

(* The error looks like bad data: the messages are inserted one by one.    *)
FlushIsolates ==
    /\ "data" \in Faults
    /\ pc = "flush" /\ pending # <<>>
    /\ pc' = "isolate"
    /\ UNCHANGED <<log, pos, batchVars, pending, cacheVars, isoVars,
                   sinkVars, stopVars>>

Isolating == pc = "isolate" /\ isolated < Len(pending)
Isolated  == pending[isolated + 1]

(* Mutant: the shadow is built on the row, not on the latest state.        *)
IsolateInsertOnRow ==
    /\ Isolating
    /\ stored' = stored \cup {Isolated}
    /\ LET m == log[Isolated]
       IN updates' = [updates EXCEPT ![m.dev] = BuildShadowState(Isolated, m, shadow[m.dev])]
    /\ pos' = Isolated
    /\ isolated' = isolated + 1
    /\ UNCHANGED <<log, pc, batchVars, pending, cacheVars, dlq, shadow, stopVars>>

(* Its shadow is built on the latest state, which later messages and those *)
(* ClickHouse refuses are already part of.                                 *)
IsolateInsert ==
    /\ Isolating
    /\ stored' = stored \cup {Isolated}
    /\ LET m == log[Isolated]
       IN updates' = [updates EXCEPT ![m.dev] = BuildShadowState(Isolated, m, StateOf(m.dev))]
    /\ pos' = Isolated
    /\ isolated' = isolated + 1
    /\ UNCHANGED <<log, pc, batchVars, pending, cacheVars, dlq, shadow, stopVars>>

(* Mutant: a message ClickHouse refuses makes the batch start again.       *)
IsolateRefuseRetries ==
    /\ Isolating
    /\ LeaveBatch
    /\ Forget
    /\ UNCHANGED <<log, pos, sinkVars, stopVars>>

IsolateRefuse ==
    /\ Isolating
    /\ dlq' = dlq \cup {[msg |-> Isolated, reason |-> "insert"]}
    /\ pos' = Isolated
    /\ isolated' = isolated + 1
    /\ UNCHANGED <<log, pc, batchVars, pending, cacheVars, updates, stored,
                   shadow, stopVars>>

IsolateThrows ==
    /\ Faults \cap {"outage", "batch"} # {}
    /\ Isolating
    /\ FlushThrows
    /\ UNCHANGED <<log, stored, shadow, stopVars>>

IsolateDone ==
    /\ pc = "isolate" /\ isolated = Len(pending)
    /\ WriteShadows(updates)
    /\ Forget
    /\ AfterFlush
    /\ UNCHANGED <<log, pos, stored, dlq, stopVars>>

(* The writer stops anywhere, or its group rebalances, and it resumes at   *)
(* the end of the log: the subscription is not from the beginning, and     *)
(* commitOffsetsIfNecessary commits only when an interval or a threshold is*)
(* set, which none is, and autoCommit is off.  Whatever the log holds then *)
(* that is not resolved, or is resolved and waits, is passed over.         *)
Restart ==
    /\ restarts < setting.restarts
    /\ restarts' = restarts + 1
    /\ pos' = Len(log)
    /\ passed' = passed \cup ((pos + 1)..Len(log)) \cup Waiting
    /\ LeaveBatch
    /\ Forget
    /\ UNCHANGED <<log, sinkVars>>
-----------------------------------------------------------------------------
Handle ==
    RefuseMalformed \/ RefuseUnread \/ RefuseRepeat \/ RefuseOverBudget \/ Accept

Flush ==
    \/ AtBatchEnd \/ FlushNothing \/ FlushInsert \/ FlushDone
    \/ FlushFails \/ FlushIsolates
    \/ IsolateInsert \/ IsolateRefuse \/ IsolateThrows \/ IsolateDone

Step ==
    \/ \E m \in setting.inputs : Produce(m)
    \/ FetchBatch \/ Handle \/ BatchFails \/ Flush \/ Restart

Next == Step /\ UNCHANGED setting

Spec == Init /\ [][Next]_vars

(* The writer keeps fetching and handling.  Nothing is assumed of the      *)
(* producers, and a fault that may occur need not.                         *)
Work == (FetchBatch \/ Handle \/ Flush) /\ UNCHANGED setting
FairSpec == Spec /\ WF_vars(Work)
-----------------------------------------------------------------------------
Shadows == States(1..Len(log))

TypeOK ==
    /\ setting \in Settings
    /\ log \in Seq(setting.inputs)
    /\ pos \in 0..Len(log) /\ passed \in SUBSET (1..Len(log))
    /\ pc \in {"idle", "loop", "flush", "inserted", "isolate"}
    /\ batchEnd \in BOOLEAN
    /\ next \in 0..end /\ end \in 0..Len(log)
    /\ pending \in Seq(1..Len(log))
    /\ latestSeq \in [Devices -> Nat \cup {NoSeq, Unset}]
    /\ latestState \in [Devices -> Shadows \cup {Unset}]
    /\ deviceState \in [Devices -> Shadows \cup {Unset}]
    /\ isolated \in 0..Len(pending)
    /\ updates \in [Devices -> Shadows \cup {Unset}]
    /\ stored \in SUBSET (1..Len(log))
    /\ dlq \in SUBSET [msg : 1..Len(log), reason : Reasons]
    /\ shadow \in [Devices -> Shadows]
    /\ restarts \in 0..setting.restarts

(* A message is settled when its rows are in ClickHouse or it is in the    *)
(* dead letters.                                                           *)
Settled == stored \cup {d.msg : d \in dlq}

(* No message is skipped: whatever the consumer has resolved is stored, in *)
(* the dead letters, or still waiting in memory.                           *)
NothingSkipped == \A i \in 1..pos : i \in Settled \cup Waiting

(* Every message behind the resolved position is accounted for: it is      *)
(* stored, in the dead letters or waiting, or a restart passed over it.    *)
(* The handling itself skips none, as long as no flush and no batch is     *)
(* given up with messages pending behind a refused one, whatever messages  *)
(* ClickHouse refuses, reads of Postgres fail or shadows are not written.  *)
Accounted ==
    Faults \cap {"outage", "batch"} = {} =>
        \A i \in 1..pos : i \in Settled \cup Waiting \cup passed

(* A message refused as a repeat follows one of its device with the same   *)
(* or a higher number that is stored, waiting, over budget or refused by   *)
(* ClickHouse itself: what a failed batch or an earlier process remembered *)
(* never makes the writer refuse a message that it has yet to store.       *)
Rejected == {d.msg : d \in {e \in dlq : e.reason \in {"budget", "insert"}}}
Answers(i, j) == log[j].dev = log[i].dev /\ log[j].seq >= log[i].seq
RefusesOnlyRepeats ==
    [][\A d \in dlq' \ dlq : d.reason = "sequence" =>
          \E j \in stored \cup Waiting \cup Rejected : Answers(d.msg, j)]_vars

(* What the console reads as the current value can be found in ClickHouse: *)
(* the shadow never shows a message that was refused, lost with a failed   *)
(* batch, or not inserted yet.  The one exception is a message whose rows  *)
(* ClickHouse refused: the isolation builds the shadows of the others on a *)
(* state it is already part of.                                            *)
ShadowIsBacked ==
    \A d \in Devices : \A i \in shadow[d].from :
        i \in stored \/ [msg |-> i, reason |-> "insert"] \in dlq

(* A sparse message never erases an earlier one from the shadow: if the    *)
(* messages were received in order and none is a smoke test, what is       *)
(* stored and resolved is in the shadow once its flush is done, also when  *)
(* that had to insert message by message, unless it was refused as well or *)
(* the writer stopped before the end of the flush.  The settings that lose *)
(* messages or shadow writes are left aside.                               *)
ReceivedInOrder ==
    /\ \A i, j \in DOMAIN log : i < j => log[i].at <= log[j].at
    /\ \A i \in DOMAIN log : ~log[i].smoke
LeftOut == {d.msg : d \in dlq} \cup passed
ShadowKeepsReadings ==
    Faults \subseteq {"data"} /\ ReceivedInOrder =>
        \A i \in stored \ (LeftOut \cup Waiting) :
            i <= pos => i \in shadow[log[i].dev].from

(* Every message is settled in the end, however many messages ClickHouse   *)
(* refuses, unless a restart passes over it, or an outage or a failed batch*)
(* loses it.                                                               *)
EveryMessageSettles ==
    \A i \in 1..MaxLog :
        (i <= Len(log) /\ Faults \subseteq {"data"}) ~> (i \in Settled \cup passed)
=============================================================================
