------------------------ MODULE TelemetryWriterProofs ------------------------
(***************************************************************************)
(* The writer skips no message, refuses none it has yet to store, and      *)
(* shows none in a shadow that is not stored, for any log, any batches and *)
(* any restarts.                                                           *)
(***************************************************************************)
EXTENDS TelemetryWriter, TLAPS

USE DEF States

LEMMA InputType ==
    ASSUME setting \in Settings, NEW m \in setting.inputs
    PROVE  /\ m.dev \in Devices /\ m.at \in Nat
           /\ m.seq \in Nat \cup {NoSeq} /\ m.up \in Nat \cup {NoUptime}
           /\ m.field \in BOOLEAN /\ m.smoke \in BOOLEAN
  BY WriterAssumption

(* The message at hand is one of the log.                                  *)
LEMMA MessageType ==
    ASSUME TypeOK, Handling
    PROVE  /\ Message \in setting.inputs /\ Device \in Devices
           /\ Message.seq \in Nat \cup {NoSeq}
           /\ next + 1 \in 1..Len(log) /\ next + 1 <= end
<1>1. next \in Nat /\ end \in Nat /\ next + 1 \in 1..Len(log) /\ next + 1 <= end
  BY DEF TypeOK, Handling
<1>2. Message \in setting.inputs
  BY <1>1 DEF TypeOK, Message
<1>3. QED
  BY <1>1, <1>2, InputType DEF TypeOK, Device

(* Merging a message into a shadow gives a shadow.                         *)
LEMMA BuildType ==
    ASSUME TypeOK, NEW i \in 1..Len(log), NEW m \in setting.inputs, NEW s \in Shadows
    PROVE  BuildShadowState(i, m, s) \in Shadows
<1>1. Blank \in Shadows
  BY DEF Blank, Shadows, NoSeq, NoUptime
<1>2. QED
  BY <1>1, InputType DEF TypeOK, BuildShadowState, Shadows

LEMMA StateType ==
    ASSUME TypeOK, NEW d \in Devices
    PROVE  StateOf(d) \in Shadows /\ SeqOf(d) \in Nat \cup {NoSeq}
  BY DEF TypeOK, StateOf, SeqOf, Shadows

LEMMA WriteType ==
    ASSUME TypeOK, NEW states \in [Devices -> Shadows \cup {Unset}], WriteShadows(states)
    PROVE  shadow' \in [Devices -> Shadows]
  BY DEF TypeOK, WriteShadows

LEMMA ForgetType ==
    ASSUME Forget
    PROVE  /\ pending' = <<>> /\ isolated' = 0
           /\ latestSeq' \in [Devices -> Nat \cup {NoSeq, Unset}]
           /\ latestState' \in [Devices -> Shadows \cup {Unset}]
           /\ deviceState' \in [Devices -> Shadows \cup {Unset}]
           /\ updates' \in [Devices -> Shadows \cup {Unset}]
           /\ pending' \in Seq(1..Len(log)) /\ isolated' \in 0..Len(pending')
<1>1. <<>> \in Seq(1..Len(log)) /\ Len(<<>>) = 0
  OBVIOUS
<1>2. NoMap \in [Devices -> {Unset}]
  BY DEF NoMap
<1>3. QED
  BY <1>1, <1>2 DEF Forget

(* The types, of a step that produces nothing.                             *)
LEMMA TypeOfStep ==
    ASSUME TypeOK, UNCHANGED <<setting, log>>,
           pos' \in 0..Len(log), passed' \subseteq 1..Len(log),
           pc' \in {"idle", "loop", "flush", "inserted", "isolate"}, batchEnd' \in BOOLEAN,
           end' \in 0..Len(log), next' \in 0..end',
           pending' \in Seq(1..Len(log)), isolated' \in 0..Len(pending'),
           latestSeq' \in [Devices -> Nat \cup {NoSeq, Unset}],
           latestState' \in [Devices -> Shadows \cup {Unset}],
           deviceState' \in [Devices -> Shadows \cup {Unset}],
           updates' \in [Devices -> Shadows \cup {Unset}],
           stored' \subseteq 1..Len(log),
           dlq' \subseteq [msg : 1..Len(log), reason : Reasons],
           shadow' \in [Devices -> Shadows], restarts' \in 0..setting.restarts
    PROVE  TypeOK'
<1>1. Shadows' = Shadows
  BY DEF Shadows
<1>2. QED
  BY <1>1 DEF TypeOK

(* What a flush is about: it has messages to insert, or the batch ends, or *)
(* a message has just been accepted.                                       *)
FlushHasCause ==
    /\ pc \in {"inserted", "isolate"} => pending # <<>>
    /\ pc \in {"flush", "inserted", "isolate"} => batchEnd \/ next > 0

TInv == TypeOK /\ FlushHasCause

LEMMA LogType ==
    ASSUME TInv, NEW i \in 1..Len(log)
    PROVE  log[i] \in setting.inputs /\ log[i].dev \in Devices /\ log[i].at \in Nat
<1>1. log[i] \in setting.inputs /\ setting \in Settings
  BY DEF TInv, TypeOK
<1> QED BY <1>1, InputType

LEMMA Counts ==
    ASSUME TInv
    PROVE  /\ Len(log) \in Nat /\ DOMAIN log = 1..Len(log)
           /\ pos \in Nat /\ next \in Nat /\ end \in Nat
           /\ Len(pending) \in Nat /\ DOMAIN pending = 1..Len(pending)
           /\ \A k \in DOMAIN pending : pending[k] \in 1..Len(log)
           /\ isolated \in 0..Len(pending) /\ isolated \in Nat
  BY DEF TInv, TypeOK

LEMMA RefuseType ==
    ASSUME TypeOK, Handling, NEW reason \in Reasons, Refuse(reason)
    PROVE  /\ pos' \in 0..Len(log) /\ next' \in 0..end
           /\ dlq' \subseteq [msg : 1..Len(log), reason : Reasons]
  BY MessageType DEF TypeOK, Refuse

LEMMA LeaveType ==
    ASSUME TypeOK, LeaveBatch
    PROVE  /\ pc' = "idle" /\ batchEnd' = FALSE
           /\ end' \in 0..Len(log) /\ next' \in 0..end'
  BY DEF TypeOK, LeaveBatch

LEMMA AfterFlushType ==
    ASSUME TypeOK, AfterFlush
    PROVE  /\ pc' \in {"idle", "loop"} /\ batchEnd' \in BOOLEAN
           /\ end' \in 0..Len(log) /\ next' \in 0..end'
  BY LeaveType DEF TypeOK, AfterFlush, batchVars

LEMMA ThrowType ==
    ASSUME TypeOK, batchEnd \/ next > 0, FlushThrows
    PROVE  /\ pc' \in {"idle", "loop"} /\ batchEnd' \in BOOLEAN
           /\ end' \in 0..Len(log) /\ next' \in 0..end' /\ pos' \in 0..Len(log)
           /\ dlq' \subseteq [msg : 1..Len(log), reason : Reasons]
           /\ pending' \in Seq(1..Len(log))
           /\ isolated' = 0 /\ isolated' \in 0..Len(pending')
           /\ latestSeq' \in [Devices -> Nat \cup {NoSeq, Unset}]
           /\ latestState' \in [Devices -> Shadows \cup {Unset}]
           /\ deviceState' \in [Devices -> Shadows \cup {Unset}]
           /\ updates' \in [Devices -> Shadows \cup {Unset}]
<1>1. CASE batchEnd
  BY <1>1, LeaveType, ForgetType DEF TypeOK, FlushThrows
<1>2. CASE ~batchEnd
  <2>1. [msg |-> next, reason |-> "error"] \in [msg : 1..Len(log), reason : Reasons]
    BY <1>2 DEF TypeOK, Reasons
  <2>2. NoMap \in [Devices -> Shadows \cup {Unset}]
    BY DEF NoMap
  <2>3. QED
    BY <1>2, <2>1, <2>2 DEF TypeOK, FlushThrows, batchVars, cacheVars
<1>3. QED
  BY <1>1, <1>2 DEF TypeOK

LEMMA TypeInitial == Init => TInv
<1>1. Blank \in [seq : Nat \cup {NoSeq}, up : Nat \cup {NoUptime}, at : Nat,
                 field : BOOLEAN, smoke : BOOLEAN, from : SUBSET (1..Len(log))]
  BY DEF Blank, NoSeq, NoUptime
<1>2. SUFFICES ASSUME Init PROVE TInv
  OBVIOUS
<1>3. setting.restarts \in Nat
  BY <1>2, WriterAssumption DEF Init
<1>4. Blank \in Shadows
  BY <1>1 DEF Shadows
<1>5. /\ log \in Seq(setting.inputs) /\ Len(log) = 0
      /\ pending \in Seq(1..Len(log)) /\ isolated \in 0..Len(pending)
  BY <1>2 DEF Init
<1>6. /\ shadow \in [Devices -> Shadows]
      /\ latestSeq \in [Devices -> Nat \cup {NoSeq, Unset}]
      /\ latestState \in [Devices -> Shadows \cup {Unset}]
      /\ deviceState \in [Devices -> Shadows \cup {Unset}]
      /\ updates \in [Devices -> Shadows \cup {Unset}]
  BY <1>2, <1>4 DEF Init, NoMap
<1>7. /\ setting \in Settings /\ pc = "idle" /\ batchEnd \in BOOLEAN
      /\ stored = {} /\ dlq = {}
  BY <1>2 DEF Init
<1>8. /\ pos \in 0..Len(log) /\ passed \in SUBSET (1..Len(log))
      /\ next \in 0..end /\ end \in 0..Len(log)
  BY <1>2, <1>5 DEF Init
<1>9. restarts \in 0..setting.restarts
  BY <1>2, <1>3 DEF Init
<1>10. stored \in SUBSET (1..Len(log)) /\ dlq \in SUBSET [msg : 1..Len(log), reason : Reasons]
  BY <1>7
<1>11. TypeOK
  BY <1>5, <1>6, <1>7, <1>10, <1>8, <1>9 DEF TypeOK
<1>12. QED
  BY <1>7, <1>11 DEF TInv, FlushHasCause

LEMMA TypeStep == TInv /\ [Next]_vars => TInv'
<1> SUFFICES ASSUME TInv, [Next]_vars PROVE TInv'
  OBVIOUS
<1> USE DEF TInv
<1>1. CASE UNCHANGED vars
  BY <1>1 DEF TypeOK, vars, Shadows, FlushHasCause
<1>2. CASE Next
  <2>0. setting' = setting
    BY <1>2 DEF Next
  <2>1. ASSUME NEW m \in setting.inputs, Produce(m) PROVE TInv'
    <3>1. log' \in Seq(setting.inputs) /\ Len(log') = Len(log) + 1
      BY <2>1 DEF TypeOK, Produce
    <3>2. Shadows \subseteq Shadows'
      BY <3>1 DEF TypeOK, Shadows
    <3>3. /\ latestState \in [Devices -> Shadows' \cup {Unset}]
          /\ deviceState \in [Devices -> Shadows' \cup {Unset}]
          /\ updates \in [Devices -> Shadows' \cup {Unset}]
          /\ shadow \in [Devices -> Shadows']
      BY <3>2 DEF TypeOK
    <3>4. pending \in Seq(1..Len(log')) /\ stored \subseteq 1..Len(log')
          /\ dlq \subseteq [msg : 1..Len(log'), reason : Reasons]
      BY <3>1 DEF TypeOK
    <3>5. /\ UNCHANGED <<setting, pos, passed, pc, next, end, batchEnd, pending, latestSeq,
                        latestState, deviceState, isolated, updates, stored, dlq, shadow>>
          /\ restarts' = restarts
      BY <2>0, <2>1 DEF Produce, batchVars, cacheVars, isoVars, sinkVars, stopVars
    <3>6. /\ pos' \in 0..Len(log') /\ passed' \in SUBSET (1..Len(log'))
          /\ next' \in 0..end' /\ end' \in 0..Len(log')
      BY <3>1, <3>5 DEF TypeOK
    <3>7. TypeOK'
      BY <3>1, <3>3, <3>4, <3>5, <3>6 DEF TypeOK
    <3>8. QED
      BY <3>5, <3>7 DEF FlushHasCause
  <2>2. CASE FetchBatch
    <3>1. /\ end' \in 0..Len(log) /\ next' \in 0..end' /\ pc' = "loop"
      BY <2>2, Counts DEF FetchBatch
    <3>2. UNCHANGED <<log, pos, passed, batchEnd, pending, latestSeq, latestState, deviceState,
                      isolated, updates, stored, dlq, shadow, restarts>>
      BY <2>2 DEF FetchBatch, cacheVars, isoVars, sinkVars, stopVars
    <3>3. TypeOK'
      BY <2>0, <3>1, <3>2, TypeOfStep DEF TypeOK
    <3>4. QED
      BY <3>1, <3>3 DEF FlushHasCause
  <2>3. CASE RefuseMalformed
    BY <2>0, <2>3, TypeOfStep, RefuseType
       DEF TypeOK, stopVars, RefuseMalformed, cacheVars, isoVars, Reasons, FlushHasCause, Handling
  <2>4. CASE RefuseUnread
    <3>1. latestState' \in [Devices -> Shadows \cup {Unset}]
      BY <2>4, MessageType, StateType DEF TypeOK, RefuseUnread
    <3>2. QED
      BY <2>0, <2>4, <3>1, TypeOfStep, RefuseType
         DEF TypeOK, stopVars, RefuseUnread, isoVars, Reasons, FlushHasCause, Handling
  <2>5. CASE RefuseRepeat
    <3>1. /\ latestState' \in [Devices -> Shadows \cup {Unset}]
          /\ latestSeq' \in [Devices -> Nat \cup {NoSeq, Unset}]
      BY <2>5, MessageType, StateType DEF TypeOK, RefuseRepeat
    <3>2. QED
      BY <2>0, <2>5, <3>1, TypeOfStep, RefuseType
         DEF TypeOK, stopVars, RefuseRepeat, isoVars, Reasons, FlushHasCause, Handling
  <2>6. CASE RefuseOverBudget
    <3>1. /\ latestState' \in [Devices -> Shadows \cup {Unset}]
          /\ latestSeq' \in [Devices -> Nat \cup {NoSeq, Unset}]
      BY <2>6, MessageType, StateType DEF TypeOK, RefuseOverBudget, RememberSeq
    <3>2. QED
      BY <2>0, <2>6, <3>1, TypeOfStep, RefuseType
         DEF TypeOK, stopVars, RefuseOverBudget, isoVars, Reasons, FlushHasCause, Handling
  <2>7. CASE Accept
    <3>1. /\ latestState' \in [Devices -> Shadows \cup {Unset}]
          /\ deviceState' \in [Devices -> Shadows \cup {Unset}]
      <4> DEFINE merged == deviceState[Device]
                 state  == BuildShadowState(next + 1, Message,
                               IF merged = Unset THEN StateOf(Device) ELSE merged)
      <4>1. state \in Shadows
        <5>1. (IF merged = Unset THEN StateOf(Device) ELSE merged) \in Shadows
          BY <2>7, MessageType, StateType DEF TypeOK, stopVars, Accept
        <5>2. QED
          BY <2>7, <5>1, MessageType, BuildType DEF Accept
      <4>2. \/ UNCHANGED <<deviceState, latestState>>
            \/ /\ deviceState' = [deviceState EXCEPT ![Device] = state]
               /\ latestState' = [latestState EXCEPT ![Device] = state]
        BY <2>7 DEF Accept
      <4> HIDE DEF state
      <4>3. QED
        BY <4>1, <4>2 DEF TypeOK
    <3>2. latestSeq' \in [Devices -> Nat \cup {NoSeq, Unset}]
      BY <2>7, MessageType DEF TypeOK, stopVars, Accept, RememberSeq
    <3>3. /\ pending' \in Seq(1..Len(log)) /\ isolated \in 0..Len(pending')
          /\ next' \in 0..end /\ next' > 0
      <4>1. /\ pending' = Append(pending, next + 1) /\ next' = next + 1
            /\ next + 1 \in 1..Len(log) /\ next + 1 <= end
        BY <2>7, MessageType DEF Accept
      <4>2. /\ pending \in Seq(1..Len(log)) /\ isolated \in 0..Len(pending)
            /\ next \in Nat /\ end \in Nat
        BY DEF TypeOK
      <4>3. QED
        BY <4>1, <4>2
    <3>4. QED
      BY <2>0, <2>7, <3>1, <3>2, <3>3, TypeOfStep
         DEF TypeOK, stopVars, Accept, isoVars, sinkVars, FlushHasCause
  <2>8. CASE BatchFails
    BY <2>0, <2>8, ForgetType, LeaveType, TypeOfStep DEF TypeOK, stopVars, BatchFails, sinkVars, FlushHasCause
  <2>9. CASE AtBatchEnd
    BY <2>0, <2>9, TypeOfStep DEF TypeOK, stopVars, AtBatchEnd, cacheVars, isoVars, sinkVars, FlushHasCause
  <2>10. CASE FlushNothing
    BY <2>0, <2>10, ForgetType, AfterFlushType, TypeOfStep
       DEF TypeOK, stopVars, sinkVars, FlushNothing, FlushHasCause
  <2>11. CASE FlushInsert
    <3>1. Waiting \subseteq 1..Len(log)
      BY DEF TypeOK, Waiting
    <3>2. QED
      BY <2>0, <2>11, <3>1, TypeOfStep
         DEF TypeOK, stopVars, FlushInsert, batchVars, cacheVars, isoVars, FlushHasCause
  <2>12. CASE FlushDone
    <3>1. pos' \in 0..Len(log)
      BY <2>12 DEF TypeOK, stopVars, FlushDone, FlushHasCause, Last
    <3>2. deviceState \in [Devices -> Shadows \cup {Unset}]
      BY DEF TypeOK
    <3>3. shadow' \in [Devices -> Shadows]
      BY <2>12, <3>2, WriteType DEF FlushDone
    <3>4. QED
      BY <2>0, <2>12, <3>1, <3>3, ForgetType, AfterFlushType, TypeOfStep
         DEF TypeOK, stopVars, FlushDone, FlushHasCause
  <2>13. CASE FlushFails
    <3>1. Waiting \subseteq 1..Len(log)
      BY DEF TypeOK, Waiting
    <3>2. QED
      BY <2>0, <2>13, <3>1, ThrowType, TypeOfStep DEF TypeOK, stopVars, FlushFails, FlushHasCause
  <2>14. CASE FlushIsolates
    BY <2>0, <2>14, TypeOfStep
       DEF TypeOK, stopVars, FlushIsolates, batchVars, cacheVars, isoVars, sinkVars, FlushHasCause
  <2>15. CASE IsolateInsert
    <3>1. Isolated \in 1..Len(log) /\ isolated' \in 0..Len(pending)
      BY <2>15 DEF TypeOK, stopVars, IsolateInsert, Isolating, Isolated
    <3>2. log[Isolated] \in setting.inputs /\ log[Isolated].dev \in Devices
      BY <3>1, InputType DEF TypeOK
    <3>3. updates' \in [Devices -> Shadows \cup {Unset}]
      BY <2>15, <3>1, <3>2, StateType, BuildType DEF TypeOK, stopVars, IsolateInsert
    <3>4. stored' \subseteq 1..Len(log) /\ pos' \in 0..Len(log)
      BY <2>15, <3>1 DEF TypeOK, stopVars, IsolateInsert
    <3>5. QED
      BY <2>0, <2>15, <3>1, <3>3, <3>4, TypeOfStep
         DEF TypeOK, stopVars, IsolateInsert, batchVars, cacheVars, FlushHasCause
  <2>16. CASE IsolateRefuse
    <3>1. Isolated \in 1..Len(log) /\ isolated' \in 0..Len(pending)
      BY <2>16 DEF TypeOK, stopVars, IsolateRefuse, Isolating, Isolated
    <3>2. dlq' \subseteq [msg : 1..Len(log), reason : Reasons] /\ pos' \in 0..Len(log)
      BY <2>16, <3>1 DEF TypeOK, stopVars, IsolateRefuse, Reasons
    <3>3. QED
      BY <2>0, <2>16, <3>1, <3>2, TypeOfStep
         DEF TypeOK, stopVars, IsolateRefuse, batchVars, cacheVars, FlushHasCause
  <2>17. CASE IsolateThrows
    BY <2>0, <2>17, ThrowType, TypeOfStep DEF TypeOK, stopVars, IsolateThrows, Isolating, FlushHasCause
  <2>18. CASE IsolateDone
    <3>1. updates \in [Devices -> Shadows \cup {Unset}]
      BY DEF TypeOK
    <3>2. shadow' \in [Devices -> Shadows]
      BY <2>18, <3>1, WriteType DEF IsolateDone
    <3>3. QED
      BY <2>0, <2>18, <3>2, ForgetType, AfterFlushType, TypeOfStep
         DEF TypeOK, stopVars, IsolateDone, FlushHasCause
  <2>19. CASE Restart
    <3>1. restarts' \in 0..setting.restarts
      BY <2>19, WriterAssumption DEF TypeOK, Restart
    <3>2. pos' \in 0..Len(log) /\ passed' \subseteq 1..Len(log)
      <4>1. Waiting \subseteq 1..Len(log)
        BY DEF TypeOK, Waiting
      <4>2. /\ pos' = Len(log) /\ Len(log) \in Nat /\ pos \in 0..Len(log)
            /\ passed' = passed \cup ((pos + 1)..Len(log)) \cup Waiting /\ passed \subseteq 1..Len(log)
        BY <2>19 DEF TypeOK, Restart
      <4>3. (pos + 1)..Len(log) \subseteq 1..Len(log)
        BY <4>2
      <4>4. pos' \in 0..Len(log)
        BY <4>2
      <4>5. passed' \subseteq 1..Len(log)
        BY <4>1, <4>2, <4>3, Zenon
      <4>6. QED
        BY <4>4, <4>5
    <3>3. QED
      BY <2>0, <2>19, <3>1, <3>2, ForgetType, LeaveType, TypeOfStep
         DEF TypeOK, Restart, sinkVars, FlushHasCause
  <2>20. QED
    BY <1>2, <2>1, <2>2, <2>3, <2>4, <2>5, <2>6, <2>7, <2>8, <2>9, <2>10, <2>11, <2>12,
       <2>13, <2>14, <2>15, <2>16, <2>17, <2>18, <2>19 DEF Next, Step, Handle, Flush
<1>3. QED
  BY <1>1, <1>2

(* Types: whatever is resolved, passed over or waiting is in the log.      *)
THEOREM WriterTypeCorrect == Spec => []TypeOK
<1>1. TInv => TypeOK
  BY DEF TInv
<1>2. QED
  BY <1>1, TypeInitial, TypeStep, PTL DEF Spec
-----------------------------------------------------------------------------
(***************************************************************************)
(* Where each message is.                                                  *)
(***************************************************************************)

(* In ClickHouse, or refused by it.                                        *)
Backed == stored \cup {d.msg : d \in {e \in dlq : e.reason = "insert"}}

LEMMA SinksGrow ==
    ASSUME stored \subseteq stored', dlq \subseteq dlq'
    PROVE  Settled \subseteq Settled' /\ Backed \subseteq Backed' /\ Rejected \subseteq Rejected'
  BY DEF Settled, Backed, Rejected

LEMMA BackedIsSettled == Backed \subseteq Settled
  BY DEF Backed, Settled

LEMMA OnlyGrows ==
    ASSUME Next
    PROVE  stored \subseteq stored' /\ dlq \subseteq dlq' /\ passed \subseteq passed'
  BY DEF Next, Step, Handle, Flush, Produce, FetchBatch, RefuseMalformed, RefuseUnread,
     RefuseRepeat, RefuseOverBudget, Refuse, Accept, BatchFails, AtBatchEnd, FlushNothing,
     FlushInsert, FlushDone, FlushFails, FlushThrows, FlushIsolates,
     IsolateInsert, IsolateRefuse, IsolateThrows, IsolateDone, Restart, sinkVars, stopVars

(* Nothing waits that the batch has not reached; what a flush has done.    *)
Progress ==
    /\ \A k \in DOMAIN pending : pending[k] <= next
    /\ pc = "idle" => pending = <<>>
    /\ pc # "idle" => pos <= next
    /\ pc = "inserted" => Waiting \subseteq stored
    /\ pc = "isolate" => \A k \in 1..isolated : pending[k] \in Backed
    /\ pc # "isolate" => isolated = 0

LEMMA ForgottenProgress ==
    ASSUME Forget, pc' \in {"idle", "loop"}, pc' = "loop" => pos' <= next'
    PROVE  Progress'
  BY DEF Forget, Progress

LEMMA ThrowProgress ==
    ASSUME TInv, Progress, FlushThrows
    PROVE  Progress'
<1>1. CASE batchEnd
  BY <1>1, ForgottenProgress DEF FlushThrows, LeaveBatch
<1>2. CASE ~batchEnd
  BY <1>2 DEF FlushThrows, Progress, batchVars, TInv, TypeOK
<1>3. QED
  BY <1>1, <1>2 DEF TInv, TypeOK

LEMMA LastIsReached ==
    ASSUME TInv, Progress, pc = "inserted"
    PROVE  Last(pending) <= next /\ Last(pending) \in Waiting /\ Last(pending) \in Nat
  BY DEF TInv, TypeOK, FlushHasCause, Progress, Last, Waiting

LEMMA ProgressStep == TInv /\ TInv' /\ Progress /\ [Next]_vars => Progress'
<1> SUFFICES ASSUME TInv, TInv', Progress, [Next]_vars PROVE Progress'
  OBVIOUS
<1>1. CASE UNCHANGED vars
  BY <1>1 DEF Progress, vars, Waiting, Backed
<1>2. CASE Next
  <2>0. Backed \subseteq Backed'
    BY <1>2, OnlyGrows, SinksGrow
  <2>1. ASSUME NEW m \in setting.inputs, Produce(m) PROVE Progress'
    BY <2>1 DEF Produce, Progress, Waiting, Backed, batchVars, isoVars, sinkVars
  <2>2. CASE FetchBatch
    BY <2>2 DEF FetchBatch, Progress, TInv, TypeOK
  <2>3. CASE RefuseMalformed \/ RefuseUnread \/ RefuseRepeat \/ RefuseOverBudget
    <3>1. /\ pc = "loop" /\ UNCHANGED <<pc, pending, isolated>>
          /\ next' = next + 1 /\ pos' = next + 1
      BY <2>3 DEF RefuseMalformed, RefuseUnread, RefuseRepeat, RefuseOverBudget, Refuse,
         Handling, isoVars
    <3>2. QED
      BY <3>1 DEF Progress, TInv, TypeOK
  <2>4. CASE Accept
    BY <2>4 DEF Accept, Handling, isoVars, Progress, TInv, TypeOK
  <2>5. CASE BatchFails \/ Restart
    BY <2>5, ForgottenProgress DEF BatchFails, Restart, LeaveBatch
  <2>6. CASE AtBatchEnd
    BY <2>6 DEF AtBatchEnd, isoVars, Progress
  <2>7. CASE FlushNothing
    BY <2>7, ForgottenProgress DEF FlushNothing, AfterFlush, LeaveBatch, batchVars, Progress
  <2>8. CASE FlushInsert
    BY <2>8 DEF FlushInsert, batchVars, isoVars, Progress, Waiting
  <2>9. CASE FlushDone
    BY <2>9, LastIsReached, ForgottenProgress DEF FlushDone, AfterFlush, LeaveBatch, batchVars
  <2>10. CASE FlushFails \/ IsolateThrows
    BY <2>10, ThrowProgress DEF FlushFails, IsolateThrows
  <2>11. CASE FlushIsolates
    <3>1. /\ pc = "flush" /\ pc' = "isolate" /\ UNCHANGED <<pending, next, pos, isolated>>
      BY <2>11 DEF FlushIsolates, batchVars, isoVars
    <3>2. 1..isolated = {}
      BY <3>1 DEF Progress
    <3>3. QED
      BY <3>1, <3>2 DEF Progress
  <2>12. CASE IsolateInsert \/ IsolateRefuse
    <3>1. Isolated \in Backed'
      <4>1. Isolated \in stored' \/ [msg |-> Isolated, reason |-> "insert"] \in dlq'
        BY <2>12 DEF IsolateInsert, IsolateRefuse
      <4>2. QED
        BY <4>1 DEF Backed
    <3>2. /\ pc = "isolate" /\ UNCHANGED <<pc, pending, next>> /\ pos' = Isolated
          /\ isolated' = isolated + 1 /\ isolated < Len(pending)
      BY <2>12 DEF IsolateInsert, IsolateRefuse, Isolating, batchVars
    <3>3. isolated + 1 \in DOMAIN pending
      BY <3>2, Counts
    <3>4. pos' <= next
      BY <3>2, <3>3 DEF Progress, Isolated
    <3>5. \A k \in 1..(isolated + 1) : k \in 1..isolated \/ k = isolated + 1
      BY Counts
    <3>6. \A k \in 1..isolated' : pending'[k] \in Backed'
      BY <2>0, <3>1, <3>2, <3>5 DEF Progress, Isolated
    <3>7. QED
      BY <3>2, <3>4, <3>6 DEF Progress
  <2>14. CASE IsolateDone
    BY <2>14, ForgottenProgress DEF IsolateDone, AfterFlush, LeaveBatch, batchVars, Progress
  <2>15. QED
    BY <1>2, <2>1, <2>2, <2>3, <2>4, <2>5, <2>6, <2>7, <2>8, <2>9, <2>10, <2>11, <2>12,
       <2>14 DEF Next, Step, Handle, Flush
<1>3. QED
  BY <1>1, <1>2

LEMMA ProgressInitial == Init => Progress
  BY DEF Init, Progress

(* Up to where the consumer or its batch has come every message is settled,*)
(* waiting, or was passed over.                                            *)
NoLoss  == Faults \cap {"outage", "batch"} = {}
Reached == IF pc = "idle" THEN pos ELSE next
Met     == Settled \cup passed
Taken   == NoLoss => \A i \in 1..Len(log) : i <= Reached => i \in Met \cup Waiting

(* What has been resolved is, once the waiting messages are settled too.   *)
LEMMA ForgottenTaken ==
    ASSUME TInv, TInv', Progress, Taken, UNCHANGED <<setting, log>>, Forget,
           Met \subseteq Met', Waiting \subseteq Settled',
           pos' <= Reached, pc' # "idle" => next' <= Reached
    PROVE  Taken'
<1>1. Reached \in Nat
  BY DEF TInv, TypeOK, Reached
<1>2. SUFFICES ASSUME NoLoss, NEW i \in 1..Len(log), i <= Reached'
               PROVE  i \in Met'
  BY DEF Taken, NoLoss, Faults
<1>3. i <= Reached => i \in Met'
  BY <1>2 DEF Taken, Met
<1>4. /\ pos' \in Nat /\ next' \in Nat /\ i \in Nat
      /\ Reached' \in Nat /\ Reached' <= Reached
  <2>1. pos' \in Nat /\ next' \in Nat /\ i \in Nat
    BY DEF TInv, TypeOK
  <2>2. QED
    BY <2>1 DEF Reached
<1>5. QED
  BY <1>1, <1>2, <1>3, <1>4

LEMMA WaitingGrows ==
    ASSUME TInv, pending' = Append(pending, next + 1)
    PROVE  Waiting' = Waiting \cup {next + 1}
<1>1. Len(pending) \in Nat /\ DOMAIN pending = 1..Len(pending)
  BY DEF TInv, TypeOK
<1>2. /\ DOMAIN pending' = 1..(Len(pending) + 1)
      /\ \A k \in 1..Len(pending) : pending'[k] = pending[k]
      /\ pending'[Len(pending) + 1] = next + 1
  BY DEF TInv, TypeOK
<1>3. \A k \in 1..(Len(pending) + 1) : k \in 1..Len(pending) \/ k = Len(pending) + 1
  BY <1>1
<1>4. QED
  BY <1>1, <1>2, <1>3 DEF Waiting

(* A message the batch reaches is settled or waits from then on.           *)
LEMMA StillTaken ==
    ASSUME TInv, Taken, UNCHANGED <<setting, log>>,
           Met \cup Waiting \subseteq Met' \cup Waiting',
           Reached' = Reached \/ (Reached' = Reached + 1 /\ Reached' \in Met' \cup Waiting')
    PROVE  Taken'
<1>1. Reached \in Nat
  BY DEF TInv, TypeOK, Reached
<1>2. SUFFICES ASSUME NoLoss, NEW i \in 1..Len(log), i <= Reached'
               PROVE  i \in Met' \cup Waiting'
  BY DEF Taken, NoLoss, Faults
<1>3. i <= Reached => i \in Met' \cup Waiting'
  BY <1>2 DEF Taken
<1>4. i <= Reached \/ i = Reached'
  BY <1>1, <1>2
<1>5. QED
  BY <1>2, <1>3, <1>4

LEMMA TakenStep ==
    TInv /\ TInv' /\ Progress /\ Taken /\ [Next]_vars => Taken'
<1> SUFFICES ASSUME TInv, TInv', Progress, Taken, [Next]_vars PROVE Taken'
  OBVIOUS
<1>1. CASE UNCHANGED vars
  BY <1>1 DEF Taken, NoLoss, Faults, Reached, Met, Settled, Waiting, vars
<1>2. CASE Next
  <2>0. /\ setting' = setting /\ Met \subseteq Met'
        /\ Settled \subseteq Settled' /\ Backed \subseteq Backed'
    BY <1>2, OnlyGrows, SinksGrow DEF Next, Met
  <2>1. ASSUME NEW m \in setting.inputs, Produce(m) PROVE Taken'
    <3>1. Len(log') = Len(log) + 1 /\ Len(log) \in Nat
      BY <2>1 DEF TInv, TypeOK, Produce
    <3>2. /\ UNCHANGED <<pos, next, pc, passed, pending, stored, dlq>>
      BY <2>1 DEF Produce, batchVars, sinkVars, stopVars
    <3>3. Reached \in 0..Len(log)
      BY DEF TInv, TypeOK, Reached
    <3>4. QED
      BY <2>0, <3>1, <3>2, <3>3 DEF Taken, NoLoss, Faults, Reached, Met, Settled, Waiting
  <2>2. CASE FetchBatch
    BY <2>0, <2>2, StillTaken DEF FetchBatch, Reached, Waiting
  <2>3. CASE RefuseMalformed \/ RefuseUnread \/ RefuseRepeat \/ RefuseOverBudget
    <3>1. PICK reason \in Reasons : Refuse(reason)
      BY <2>3 DEF RefuseMalformed, RefuseUnread, RefuseRepeat, RefuseOverBudget, Reasons
    <3>2. next + 1 \in Met'
      <4>1. [msg |-> next + 1, reason |-> reason] \in dlq'
        BY <3>1 DEF Refuse
      <4>2. QED
        BY <4>1 DEF Met, Settled
    <3>3. /\ pc = "loop" /\ UNCHANGED <<log, pc, pending>> /\ next' = next + 1
      BY <2>3 DEF RefuseMalformed, RefuseUnread, RefuseRepeat, RefuseOverBudget, Refuse,
         Handling
    <3>4. QED
      BY <2>0, <3>2, <3>3, StillTaken DEF Reached, Waiting
  <2>4. CASE Accept
    <3>1. Waiting' = Waiting \cup {next + 1}
      BY <2>4, WaitingGrows DEF Accept
    <3>2. /\ pc = "loop" /\ pc' # "idle" /\ next' = next + 1
          /\ log' = log
      BY <2>4 DEF Accept, Handling
    <3>3. QED
      BY <2>0, <3>1, <3>2, StillTaken DEF Reached
  <2>5. CASE BatchFails
    BY <2>0, <2>5 DEF BatchFails, Taken, NoLoss, Faults
  <2>6. CASE AtBatchEnd
    BY <2>0, <2>6, StillTaken DEF AtBatchEnd, Reached, Waiting
  <2>7. CASE FlushNothing
    <3>1. Waiting = {}
      BY <2>7 DEF FlushNothing, Waiting
    <3>2. pos' <= Reached
      BY <2>7 DEF FlushNothing, Progress, Reached, TInv, TypeOK
    <3>3. pc' # "idle" => next' <= Reached
      BY <2>7 DEF FlushNothing, AfterFlush, LeaveBatch, batchVars, Reached, TInv, TypeOK
    <3>4. QED
      BY <2>0, <2>7, <3>1, <3>2, <3>3, ForgottenTaken DEF FlushNothing
  <2>8. CASE FlushInsert
    BY <2>0, <2>8, StillTaken DEF FlushInsert, Reached, Waiting, batchVars
  <2>9. CASE FlushDone
    <3>1. Waiting \subseteq Settled'
      BY <2>0, <2>9 DEF FlushDone, Progress, Settled
    <3>2. pos' <= Reached
      BY <2>9, LastIsReached DEF FlushDone, Reached
    <3>3. pc' # "idle" => next' <= Reached
      BY <2>9 DEF FlushDone, AfterFlush, LeaveBatch, batchVars, Reached, TInv, TypeOK
    <3>4. QED
      BY <2>0, <2>9, <3>1, <3>2, <3>3, ForgottenTaken DEF FlushDone
  <2>10. CASE FlushFails \/ IsolateThrows
    BY <2>0, <2>10 DEF FlushFails, IsolateThrows, Taken, NoLoss, Faults
  <2>11. CASE FlushIsolates
    BY <2>0, <2>11, StillTaken DEF FlushIsolates, Reached, Waiting, batchVars
  <2>12. CASE IsolateInsert \/ IsolateRefuse
    BY <2>0, <2>12, StillTaken
       DEF IsolateInsert, IsolateRefuse, Isolating, Reached, Waiting, batchVars
  <2>13. CASE IsolateDone
    <3>1. Waiting \subseteq Settled'
      BY <2>0, <2>13, BackedIsSettled DEF IsolateDone, Progress, Waiting, TInv, TypeOK
    <3>2. pos' <= Reached
      BY <2>13 DEF IsolateDone, Progress, Reached, TInv, TypeOK
    <3>3. pc' # "idle" => next' <= Reached
      BY <2>13 DEF IsolateDone, AfterFlush, LeaveBatch, batchVars, Reached, TInv, TypeOK
    <3>4. QED
      BY <2>0, <2>13, <3>1, <3>2, <3>3, ForgottenTaken DEF IsolateDone
  <2>14. CASE Restart
    <3>1. /\ pc' = "idle" /\ pos' = Len(log) /\ UNCHANGED <<log, stored, dlq>>
          /\ passed' = passed \cup ((pos + 1)..Len(log)) \cup Waiting
      BY <2>14 DEF Restart, LeaveBatch, sinkVars
    <3>2. SUFFICES ASSUME NoLoss, NEW i \in 1..Len(log) PROVE i \in Met'
      BY <2>0, <3>1 DEF Taken, NoLoss, Faults
    <3>3. pos \in Nat /\ pos <= Reached
      BY DEF Progress, Reached, TInv, TypeOK
    <3>4. CASE i <= pos
      BY <2>0, <3>1, <3>2, <3>3, <3>4 DEF Taken, Met, Settled, Reached, TInv, TypeOK
    <3>5. CASE ~(i <= pos)
      BY <3>1, <3>2, <3>3, <3>5 DEF Met
    <3>6. QED
      BY <3>4, <3>5
  <2>15. QED
    BY <1>2, <2>1, <2>2, <2>3, <2>4, <2>5, <2>6, <2>7, <2>8, <2>9, <2>10, <2>11, <2>12,
       <2>13, <2>14 DEF Next, Step, Handle, Flush
<1>3. QED
  BY <1>1, <1>2

(* While no flush and no batch is given up, only a restart passes over a   *)
(* message: whatever ClickHouse refuses, the handling resolves an offset   *)
(* only for what is stored, in the dead letters or pending.                *)
THEOREM WriterAccounted == Spec => []Accounted
<1>1. Init => TInv /\ Progress /\ Taken
  BY TypeInitial, ProgressInitial DEF Init, Taken, Reached
<1>2. TInv /\ Progress /\ Taken /\ [Next]_vars => (TInv /\ Progress /\ Taken)'
  BY TypeStep, ProgressStep, TakenStep
<1>3. TInv /\ Progress /\ Taken => Accounted
  BY DEF TInv, TypeOK, Progress, Taken, NoLoss, Reached, Met, Accounted
<1>4. QED
  BY <1>1, <1>2, <1>3, PTL DEF Spec
-----------------------------------------------------------------------------
(***************************************************************************)
(* What the maps and the shadows are made of.                              *)
(***************************************************************************)

(* The number of a state is that of a message merged into it,              *)
Numbered(l, d, state) ==
    state.seq # NoSeq => \E j \in state.from : l[j].dev = d /\ l[j].seq = state.seq

(* and these messages are to be found.                                     *)
Sound(l, d, state, S) == state.from \subseteq S /\ Numbered(l, d, state)

SoundMap(l, M, S) == \A d \in Devices : M[d] # Unset => Sound(l, d, M[d], S)

(* A number remembered is that of a message known, not of one forgotten.   *)
Sourced(l, d, n, S) == n # NoSeq => \E j \in S : l[j].dev = d /\ l[j].seq = n

Found == Backed \cup Waiting
Known == stored \cup Waiting \cup Rejected

StatesAreSound ==
    /\ SoundMap(log, latestState, Found)
    /\ SoundMap(log, deviceState, Found)
    /\ SoundMap(log, updates, Found)

ShadowsAreSound == \A d \in Devices : Sound(log, d, shadow[d], Backed)

NumbersAreSourced ==
    \A d \in Devices : latestSeq[d] # Unset => Sourced(log, d, latestSeq[d], Known)

Sources == StatesAreSound /\ ShadowsAreSound /\ NumbersAreSourced

LEMMA FoundIsKnown == Backed \subseteq Found /\ Found \subseteq Known
  BY DEF Backed, Found, Known, Rejected

LEMMA StateIsSound ==
    ASSUME Sources, NEW d \in Devices
    PROVE  Sound(log, d, StateOf(d), Found)
  BY FoundIsKnown DEF Sources, StatesAreSound, ShadowsAreSound, SoundMap, Sound, StateOf

LEMMA SeqIsSourced ==
    ASSUME Sources, NEW d \in Devices
    PROVE  Sourced(log, d, SeqOf(d), Known)
<1>1. CASE latestSeq[d] = Unset
  BY <1>1, FoundIsKnown DEF Sources, ShadowsAreSound, Sound, Numbered, Sourced, SeqOf
<1>2. CASE latestSeq[d] # Unset
  BY <1>2 DEF Sources, NumbersAreSourced, SeqOf
<1>3. QED
  BY <1>1, <1>2

LEMMA BuildIsSound ==
    ASSUME NEW l, NEW i, NEW state, NEW S, Sound(l, l[i].dev, state, S)
    PROVE  Sound(l, l[i].dev, BuildShadowState(i, l[i], state), S \cup {i})
  BY DEF Sound, Numbered, BuildShadowState, Blank

LEMMA MapLasts ==
    ASSUME NEW l, NEW k, NEW M, NEW S, NEW T, S \subseteq T, SoundMap(l, M, S),
           \A j \in S : k[j] = l[j]
    PROVE  SoundMap(k, M, T)
  BY DEF SoundMap, Sound, Numbered

(* Nothing is merged, and what was found and known stays so.               *)
LEMMA SourcesLast ==
    ASSUME TInv, Sources, UNCHANGED <<log, shadow>>,
           stored \subseteq stored', dlq \subseteq dlq', Waiting \subseteq Waiting',
           deviceState' = deviceState, updates' \in {updates, NoMap},
           \A d \in Devices : latestState'[d] \in {latestState[d], StateOf(d)},
           \A d \in Devices : latestSeq'[d] \in {latestSeq[d], SeqOf(d)}
    PROVE  Sources'
<1>1. Backed \subseteq Backed' /\ Found \subseteq Found' /\ Known \subseteq Known'
  BY SinksGrow DEF Found, Known
<1>2. SoundMap(log, latestState', Found') /\ SoundMap(log, deviceState', Found')
  BY <1>1, StateIsSound DEF Sources, StatesAreSound, SoundMap, Sound
<1>3. SoundMap(log, updates', Found')
  BY <1>1 DEF Sources, StatesAreSound, SoundMap, Sound, NoMap
<1>4. \A d \in Devices : latestSeq'[d] # Unset => Sourced(log, d, latestSeq'[d], Known')
  BY <1>1, SeqIsSourced DEF Sources, NumbersAreSourced, Sourced
<1>5. \A d \in Devices : Sound(log, d, shadow[d], Backed')
  BY <1>1 DEF Sources, ShadowsAreSound, Sound
<1>6. QED
  BY <1>2, <1>3, <1>4, <1>5 DEF Sources, StatesAreSound, ShadowsAreSound, NumbersAreSourced

(* The maps are forgotten, and the shadows written from states whose       *)
(* messages are all backed by now.                                         *)
LEMMA SourcesForgotten ==
    ASSUME TInv, Sources, log' = log, Forget, Backed \subseteq Backed',
           \A d \in Devices : shadow'[d] = shadow[d] \/ Sound(log, d, shadow'[d], Backed')
    PROVE  Sources'
<1>1. /\ SoundMap(log, latestState', Found') /\ SoundMap(log, deviceState', Found')
      /\ SoundMap(log, updates', Found')
  BY DEF Forget, NoMap, SoundMap
<1>2. \A d \in Devices : latestSeq'[d] # Unset => Sourced(log, d, latestSeq'[d], Known')
  BY DEF Forget, NoMap
<1>3. \A d \in Devices : Sound(log, d, shadow'[d], Backed')
  BY DEF Sources, ShadowsAreSound, Sound
<1>4. QED
  BY <1>1, <1>2, <1>3 DEF Sources, StatesAreSound, ShadowsAreSound, NumbersAreSourced

LEMMA WrittenIsSound ==
    ASSUME NEW states, WriteShadows(states), SoundMap(log, states, Found), Found \subseteq Backed',
           NEW d \in Devices
    PROVE  shadow'[d] = shadow[d] \/ Sound(log, d, shadow'[d], Backed')
  BY DEF WriteShadows, SoundMap, Sound

LEMMA ThrowSources ==
    ASSUME TInv, Sources, FlushThrows, log' = log, shadow' = shadow, stored \subseteq stored'
    PROVE  Sources'
<1>1. dlq \subseteq dlq'
  BY DEF FlushThrows
<1>2. CASE batchEnd
  BY <1>1, <1>2, SinksGrow, SourcesForgotten DEF FlushThrows
<1>3. CASE ~batchEnd
  BY <1>1, <1>3, SourcesLast DEF FlushThrows, Waiting, cacheVars
<1>4. QED
  BY <1>2, <1>3 DEF TInv, TypeOK

LEMMA SourcesStep == TInv /\ TInv' /\ Progress /\ Sources /\ [Next]_vars => Sources'
<1> SUFFICES ASSUME TInv, TInv', Progress, Sources, [Next]_vars PROVE Sources'
  OBVIOUS
<1>1. CASE UNCHANGED vars
  BY <1>1 DEF Sources, StatesAreSound, ShadowsAreSound, NumbersAreSourced, Found, Known,
     Backed, Waiting, Rejected, vars
<1>2. CASE Next
  <2>0. /\ stored \subseteq stored' /\ dlq \subseteq dlq' /\ Backed \subseteq Backed'
        /\ Rejected \subseteq Rejected'
    BY <1>2, OnlyGrows, SinksGrow
  <2>1. ASSUME NEW m \in setting.inputs, Produce(m) PROVE Sources'
    <3>1. \A j \in 1..Len(log) : log'[j] = log[j]
      BY <2>1 DEF Produce, TInv, TypeOK
    <3>2. Found \subseteq 1..Len(log) /\ Known \subseteq 1..Len(log) /\ Backed \subseteq 1..Len(log)
      <4>1. TypeOK
        BY DEF TInv
      <4>2. Waiting \subseteq 1..Len(log)
        BY <4>1 DEF TypeOK, Waiting
      <4>3. stored \subseteq 1..Len(log) /\ \A e \in dlq : e.msg \in 1..Len(log)
        BY <4>1 DEF TypeOK
      <4>4. QED
        BY <4>2, <4>3 DEF Found, Known, Backed, Rejected
    <3>3. /\ UNCHANGED <<latestSeq, latestState, deviceState, updates, shadow>>
          /\ Found' = Found /\ Known' = Known /\ Backed' = Backed
      BY <2>1 DEF Produce, cacheVars, isoVars, sinkVars, Found, Known, Backed, Waiting, Rejected
    <3>4. /\ SoundMap(log', latestState, Found) /\ SoundMap(log', deviceState, Found)
          /\ SoundMap(log', updates, Found)
      <4>1. /\ SoundMap(log, latestState, Found) /\ SoundMap(log, deviceState, Found)
            /\ SoundMap(log, updates, Found)
        BY DEF Sources, StatesAreSound
      <4>2. \A j \in Found : log'[j] = log[j]
        BY <3>1, <3>2
      <4>3. QED
        BY <4>1, <4>2, MapLasts
    <3>5. \A d \in Devices : Sound(log', d, shadow[d], Backed)
      <4>1. SUFFICES ASSUME NEW d \in Devices PROVE Sound(log', d, shadow[d], Backed)
        OBVIOUS
      <4>2. Sound(log, d, shadow[d], Backed)
        BY DEF Sources, ShadowsAreSound
      <4>3. \A j \in shadow[d].from : log'[j] = log[j]
        BY <3>1, <3>2, <4>2 DEF Sound
      <4>4. QED
        BY <4>2, <4>3 DEF Sound, Numbered
    <3>6. \A d \in Devices : latestSeq[d] # Unset => Sourced(log', d, latestSeq[d], Known)
      BY <3>1, <3>2 DEF Sources, NumbersAreSourced, Sourced
    <3>7. QED
      BY <3>3, <3>4, <3>5, <3>6
         DEF Sources, StatesAreSound, ShadowsAreSound, NumbersAreSourced
  <2>2. CASE FetchBatch
    BY <2>0, <2>2, SourcesLast DEF FetchBatch, cacheVars, isoVars, sinkVars, Waiting
  <2>3. CASE RefuseMalformed
    BY <2>0, <2>3, SourcesLast DEF RefuseMalformed, cacheVars, isoVars, Waiting
  <2>4. CASE RefuseUnread
    BY <2>0, <2>4, SourcesLast, MessageType DEF RefuseUnread, isoVars, Waiting, TInv, TypeOK
  <2>5. CASE RefuseRepeat
    BY <2>0, <2>5, SourcesLast, MessageType DEF RefuseRepeat, isoVars, Waiting, TInv, TypeOK
  <2>6. CASE RefuseOverBudget
    <3>1. next + 1 \in Rejected' /\ log[next + 1] = Message
      <4>1. [msg |-> next + 1, reason |-> "budget"] \in dlq'
        BY <2>6 DEF RefuseOverBudget, Refuse
      <4>2. QED
        BY <4>1 DEF Rejected, Message
    <3>2. /\ UNCHANGED <<log, pending, deviceState, updates, stored, shadow>>
          /\ latestState' = [latestState EXCEPT ![Device] = StateOf(Device)]
          /\ RememberSeq /\ Device \in Devices
      BY <2>6, MessageType DEF RefuseOverBudget, isoVars, TInv
    <3>3. Found \subseteq Found' /\ Known \subseteq Known'
      BY <2>0, <3>2 DEF Found, Known, Waiting
    <3>4. SoundMap(log, latestState', Found')
      BY <3>2, <3>3, StateIsSound DEF Sources, StatesAreSound, SoundMap, Sound, TInv, TypeOK
    <3>5. SoundMap(log, deviceState, Found') /\ SoundMap(log, updates, Found')
      BY <3>3 DEF Sources, StatesAreSound, SoundMap, Sound
    <3>6. \A d \in Devices : latestSeq'[d] # Unset => Sourced(log, d, latestSeq'[d], Known')
      BY <3>1, <3>2, <3>3
         DEF Sources, NumbersAreSourced, Sourced, RememberSeq, Device, Known, TInv, TypeOK
    <3>7. \A d \in Devices : Sound(log, d, shadow[d], Backed')
      BY <2>0 DEF Sources, ShadowsAreSound, Sound
    <3>8. QED
      BY <3>2, <3>4, <3>5, <3>6, <3>7
         DEF Sources, StatesAreSound, ShadowsAreSound, NumbersAreSourced
  <2>7. CASE Accept
    <3> DEFINE merged == deviceState[Device]
               base   == IF merged = Unset THEN StateOf(Device) ELSE merged
               state  == BuildShadowState(next + 1, Message, base)
    <3>1. /\ UNCHANGED <<log, updates, stored, dlq, shadow>> /\ RememberSeq
          /\ Device \in Devices /\ log[next + 1] = Message /\ Message.dev = Device
      BY <2>7, MessageType DEF Accept, isoVars, sinkVars, TInv, Message, Device
    <3>2. Waiting' = Waiting \cup {next + 1}
      BY <2>7, WaitingGrows DEF Accept
    <3>3. Backed' = Backed /\ Found' = Found \cup {next + 1} /\ Known' = Known \cup {next + 1}
      BY <3>1, <3>2 DEF Backed, Found, Known, Rejected
    <3>4. Sound(log, Device, base, Found)
      BY <3>1, StateIsSound DEF Sources, StatesAreSound, SoundMap
    <3>5. Sound(log, Device, state, Found')
      BY <3>1, <3>3, <3>4, BuildIsSound
    <3>6. \/ UNCHANGED <<deviceState, latestState>>
          \/ /\ deviceState' = [deviceState EXCEPT ![Device] = state]
             /\ latestState' = [latestState EXCEPT ![Device] = state]
      BY <2>7 DEF Accept
    <3> HIDE DEF state
    <3>7. SoundMap(log, latestState', Found') /\ SoundMap(log, deviceState', Found')
      BY <3>1, <3>3, <3>5, <3>6 DEF Sources, StatesAreSound, SoundMap, Sound, TInv, TypeOK
    <3>8. SoundMap(log, updates, Found')
      BY <3>3 DEF Sources, StatesAreSound, SoundMap, Sound
    <3>9. \A d \in Devices : latestSeq'[d] # Unset => Sourced(log, d, latestSeq'[d], Known')
      BY <3>1, <3>3 DEF Sources, NumbersAreSourced, Sourced, RememberSeq, TInv, TypeOK
    <3>10. QED
      BY <3>1, <3>3, <3>7, <3>8, <3>9
         DEF Sources, StatesAreSound, ShadowsAreSound, NumbersAreSourced
  <2>8. CASE BatchFails \/ Restart
    BY <2>0, <2>8, SourcesForgotten DEF BatchFails, Restart, sinkVars
  <2>9. CASE AtBatchEnd
    BY <2>0, <2>9, SourcesLast DEF AtBatchEnd, cacheVars, isoVars, sinkVars, Waiting
  <2>10. CASE FlushNothing
    BY <2>0, <2>10, SourcesForgotten DEF FlushNothing, sinkVars
  <2>11. CASE FlushInsert
    BY <2>0, <2>11, SourcesLast DEF FlushInsert, cacheVars, isoVars, Waiting
  <2>12. CASE FlushDone
    <3>1. Found \subseteq Backed'
      BY <2>0, <2>12 DEF FlushDone, Progress, Found, Backed
    <3>2. \A d \in Devices : shadow'[d] = shadow[d] \/ Sound(log, d, shadow'[d], Backed')
      BY <2>12, <3>1, WrittenIsSound DEF FlushDone, Sources, StatesAreSound
    <3>3. QED
      BY <2>0, <2>12, <3>2, SourcesForgotten DEF FlushDone
  <2>13. CASE FlushFails \/ IsolateThrows
    BY <2>0, <2>13, ThrowSources DEF FlushFails, IsolateThrows
  <2>14. CASE FlushIsolates
    BY <2>0, <2>14, SourcesLast DEF FlushIsolates, cacheVars, isoVars, sinkVars, Waiting
  <2>15. CASE IsolateInsert
    <3> DEFINE m == log[Isolated]
               state == BuildShadowState(Isolated, m, StateOf(m.dev))
    <3>1. Isolated \in Waiting /\ m.dev \in Devices
      <4>1. Isolated \in Waiting /\ Isolated \in 1..Len(log)
        BY <2>15, Counts DEF IsolateInsert, Isolating, Isolated, Waiting
      <4>2. QED
        BY <4>1, LogType
    <3>2. /\ UNCHANGED <<log, pending, latestSeq, latestState, deviceState, shadow>>
          /\ updates' = [updates EXCEPT ![m.dev] = state]
      BY <2>15 DEF IsolateInsert, cacheVars
    <3>3. Found \subseteq Found' /\ Known \subseteq Known' /\ Isolated \in Found'
      BY <2>0, <3>1, <3>2 DEF Found, Known, Waiting
    <3>4. Sound(log, m.dev, state, Found')
      <4>1. Sound(log, m.dev, StateOf(m.dev), Found)
        BY <3>1, StateIsSound
      <4>2. Sound(log, m.dev, state, Found \cup {Isolated})
        BY <4>1, BuildIsSound
      <4>3. QED
        BY <3>3, <4>2 DEF Sound
    <3> HIDE DEF state
    <3>5. SoundMap(log, updates', Found')
      BY <3>1, <3>2, <3>3, <3>4 DEF Sources, StatesAreSound, SoundMap, Sound, TInv, TypeOK
    <3>6. SoundMap(log, latestState, Found') /\ SoundMap(log, deviceState, Found')
      BY <3>3 DEF Sources, StatesAreSound, SoundMap, Sound
    <3>7. \A d \in Devices : latestSeq[d] # Unset => Sourced(log, d, latestSeq[d], Known')
      BY <3>3 DEF Sources, NumbersAreSourced, Sourced
    <3>8. \A d \in Devices : Sound(log, d, shadow[d], Backed')
      BY <2>0 DEF Sources, ShadowsAreSound, Sound
    <3>9. QED
      BY <3>2, <3>5, <3>6, <3>7, <3>8
         DEF Sources, StatesAreSound, ShadowsAreSound, NumbersAreSourced
  <2>16. CASE IsolateRefuse
    BY <2>0, <2>16, SourcesLast DEF IsolateRefuse, cacheVars, Waiting
  <2>17. CASE IsolateDone
    <3>1. Found \subseteq Backed'
      BY <2>0, <2>17 DEF IsolateDone, Progress, Found, Waiting, TInv, TypeOK
    <3>2. \A d \in Devices : shadow'[d] = shadow[d] \/ Sound(log, d, shadow'[d], Backed')
      BY <2>17, <3>1, WrittenIsSound DEF IsolateDone, Sources, StatesAreSound
    <3>3. QED
      BY <2>0, <2>17, <3>2, SourcesForgotten DEF IsolateDone
  <2>18. QED
    BY <1>2, <2>1, <2>2, <2>3, <2>4, <2>5, <2>6, <2>7, <2>8, <2>9, <2>10, <2>11, <2>12,
       <2>13, <2>14, <2>15, <2>16, <2>17 DEF Next, Step, Handle, Flush
<1>3. QED
  BY <1>1, <1>2

IInv == TInv /\ Progress /\ Sources

LEMMA IInvInitial == Init => IInv
<1>1. Init => Sources
  BY DEF Init, Sources, StatesAreSound, ShadowsAreSound, NumbersAreSourced, SoundMap, Sound,
     Numbered, NoMap, Blank
<1>2. QED
  BY <1>1, TypeInitial, ProgressInitial DEF IInv

LEMMA IInvStep == IInv /\ [Next]_vars => IInv'
  BY TypeStep, ProgressStep, SourcesStep DEF IInv

(* The console's current value is backed by ClickHouse, whatever fails: a  *)
(* shadow is only written from messages that have been inserted, or that   *)
(* ClickHouse itself refused.                                              *)
THEOREM WriterShadowIsBacked == Spec => []ShadowIsBacked
<1>1. IInv => ShadowIsBacked
  <2>1. SUFFICES ASSUME IInv, NEW d \in Devices, NEW i \in shadow[d].from
                 PROVE  i \in stored \/ [msg |-> i, reason |-> "insert"] \in dlq
    BY DEF ShadowIsBacked
  <2>2. i \in Backed
    BY <2>1 DEF IInv, Sources, ShadowsAreSound, Sound
  <2>3. ASSUME NEW e \in dlq, e.reason = "insert" PROVE [msg |-> e.msg, reason |-> "insert"] = e
    BY <2>1, <2>3 DEF IInv, TInv, TypeOK
  <2>4. QED
    BY <2>2, <2>3 DEF Backed
<1>2. QED
  BY <1>1, IInvInitial, IInvStep, PTL DEF Spec

(* No number outlives the message it came from: a message refused as a     *)
(* repeat follows one that is stored, waiting, or was itself refused.      *)
THEOREM WriterRefusesOnlyRepeats == Spec => RefusesOnlyRepeats
<1>1. IInv /\ [Next]_vars =>
        [\A d \in dlq' \ dlq : d.reason = "sequence" =>
            \E j \in stored \cup Waiting \cup Rejected : Answers(d.msg, j)]_vars
  <2>1. SUFFICES ASSUME IInv, Next, NEW d \in dlq' \ dlq, d.reason = "sequence"
                 PROVE  \E j \in Known : Answers(d.msg, j)
    BY DEF Known
  <2>2. RefuseRepeat
    BY <2>1 DEF Next, Step, Handle, Flush, Produce, FetchBatch, RefuseMalformed, RefuseUnread,
       RefuseOverBudget, Refuse, Accept, BatchFails, AtBatchEnd, FlushNothing,
       FlushInsert, FlushDone, FlushFails, FlushThrows, FlushIsolates,
       IsolateInsert, IsolateRefuse, IsolateThrows, IsolateDone, Restart, sinkVars
  <2>3. d.msg = next + 1 /\ log[d.msg] = Message
    BY <2>1, <2>2 DEF RefuseRepeat, Refuse, Message
  <2>4. /\ Device \in Devices /\ SeqOf(Device) # NoSeq /\ Message.seq <= SeqOf(Device)
        /\ SeqOf(Device) \in Nat /\ Message.seq \in Nat
    BY <2>1, <2>2, MessageType, StateType DEF RefuseRepeat, IsRepeat, RolledBack, IInv, TInv
  <2>5. PICK j \in Known : log[j].dev = Device /\ log[j].seq = SeqOf(Device)
    BY <2>1, <2>4, SeqIsSourced DEF IInv, Sourced
  <2>6. QED
    BY <2>3, <2>4, <2>5 DEF Answers, Device
<1>2. QED
  BY <1>1, IInvInitial, IInvStep, PTL DEF Spec, RefusesOnlyRepeats
-----------------------------------------------------------------------------
(***************************************************************************)
(* What a shadow keeps, while ClickHouse refuses single messages and the   *)
(* writer restarts, and messages arrive in order.                          *)
(***************************************************************************)
Calm == Faults \subseteq {"data"} /\ ReceivedInOrder

Of(d)   == {i \in Waiting : log[i].dev = d}

(* What the batch has come to was left out, waits, or is in its shadow.    *)
Placed ==
    \A i \in 1..Reached : i \in LeftOut \/ i \in Waiting \/ i \in shadow[log[i].dev].from

(* What waits does so in the order of the log.                             *)
InOrder == \A k, l \in DOMAIN pending : k < l => pending[k] < pending[l]

(* A state that may replace the shadow: it has all that the shadow has and *)
(* all that waits,                                                         *)
Includes(state, d) ==
    /\ ~state.smoke
    /\ shadow[d].from \subseteq state.from
    /\ Of(d) \subseteq state.from

(* and the time of a message that waits.                                   *)
Timely(state, d) == \E k \in Of(d) : state.at = log[k].at

MapsKeep == \A d \in Devices :
    /\ Includes(StateOf(d), d)
    /\ deviceState[d] = Unset => Of(d) = {}
    /\ deviceState[d] # Unset =>
          /\ Includes(deviceState[d], d) /\ Timely(deviceState[d], d)
          /\ \A i \in Of(d) : log[i].at <= deviceState[d].at
    /\ updates[d] # Unset =>
          pc = "isolate" /\ Includes(updates[d], d) /\ Timely(updates[d], d)

(* What the isolation has inserted is in an update that is not older.      *)
Updated(i) == updates[log[i].dev] # Unset /\ log[i].at <= updates[log[i].dev].at
IsolationKeeps == \A k \in 1..isolated : pending[k] \in LeftOut \/ Updated(pending[k])

(* A shadow has everything older than itself that was not left out, so that*)
(* nothing is missed where a state is older than the shadow, which the     *)
(* guard of the upsert then does not write.                                *)
ShadowsKeep == \A d \in Devices :
    /\ ~shadow[d].smoke
    /\ shadow[d].at = 0 \/ \E j \in 1..Len(log) : shadow[d].at = log[j].at
    /\ \A i \in 1..Len(log) :
          log[i].dev = d /\ log[i].at < shadow[d].at => i \in LeftOut \/ i \in shadow[d].from

Keeps == Placed /\ InOrder /\ MapsKeep /\ IsolationKeeps /\ ShadowsKeep

LEMMA WaitingType ==
    ASSUME TInv
    PROVE  /\ Waiting \subseteq 1..Len(log)
           /\ \A d \in Devices : Of(d) \subseteq 1..Len(log)
           /\ pos \in Nat /\ Reached \in 0..Len(log)
  BY DEF TInv, TypeOK, Waiting, Of, Reached

(* Order was kept so far if it is kept now.                                *)
LEMMA CalmBefore ==
    ASSUME TInv, Next, Calm'
    PROVE  Calm
<1>1. setting' = setting /\ Faults \subseteq {"data"}
  BY DEF Next, Calm, Faults
<1>2. Len(log) \in Nat /\ DOMAIN log = 1..Len(log)
  BY DEF TInv, TypeOK
<1>3. DOMAIN log \subseteq DOMAIN log' /\ \A i \in DOMAIN log : log'[i] = log[i]
  <2>1. CASE log' = log
    BY <2>1
  <2>2. CASE \E m \in setting.inputs : log' = Append(log, m)
    BY <2>2, <1>2 DEF TInv, TypeOK
  <2> QED
    BY <2>1, <2>2 DEF Next, Step, Handle, Flush, Produce, FetchBatch, RefuseMalformed,
       RefuseUnread, RefuseRepeat, RefuseOverBudget, Accept, BatchFails, AtBatchEnd,
       FlushNothing, FlushInsert, FlushDone, FlushFails, FlushIsolates, IsolateInsert,
       IsolateRefuse, IsolateThrows, IsolateDone, Restart
<1> QED BY <1>1, <1>3 DEF Calm, ReceivedInOrder

(* Merging keeps what was merged, and takes the time of the message.       *)
LEMMA BuildKeeps ==
    ASSUME NEW i, NEW m, NEW s, ~m.smoke, ~s.smoke
    PROVE  /\ ~BuildShadowState(i, m, s).smoke
           /\ BuildShadowState(i, m, s).from = s.from \cup {i}
           /\ BuildShadowState(i, m, s).at = m.at
  BY DEF BuildShadowState, ShouldDiscardSyntheticShadow

(* A step that merges nothing and comes to nothing but a message left out. *)
LEMMA KeepsLast ==
    ASSUME TInv, TInv', Keeps,
           UNCHANGED <<log, pending, deviceState, updates, shadow>>,
           dlq \subseteq dlq', passed \subseteq passed',
           \A d \in Devices : latestState'[d] \in {latestState[d], StateOf(d)},
           pc = "isolate" => pc' = "isolate",
           \/ Reached' = Reached
           \/ Reached' = Reached + 1 /\ Reached' \in LeftOut',
           \/ isolated' = isolated
           \/ isolated' = isolated + 1 /\ pending[isolated'] \in LeftOut'
    PROVE  Keeps'
<1>1. LeftOut \subseteq LeftOut' /\ Waiting' = Waiting
  BY DEF LeftOut, Waiting
<1>2. \A d \in Devices : StateOf(d)' = StateOf(d) /\ Of(d)' = Of(d)
  BY <1>1 DEF StateOf, Of
<1>3. Placed'
  <2>1. SUFFICES ASSUME NEW i \in 1..Reached'
                 PROVE  i \in LeftOut' \/ i \in Waiting' \/ i \in shadow'[log'[i].dev].from
    BY DEF Placed
  <2>2. i \in 1..Reached \/ i \in LeftOut'
    BY <2>1, WaitingType
  <2> QED BY <2>2, <1>1 DEF Placed, Keeps
<1>4. InOrder'
  BY <1>1 DEF Keeps, InOrder
<1>5. MapsKeep'
  <2>1. SUFFICES ASSUME NEW d \in Devices
                 PROVE  /\ Includes(StateOf(d), d)'
                        /\ deviceState'[d] = Unset => Of(d)' = {}
                        /\ deviceState'[d] # Unset =>
                              /\ Includes(deviceState[d], d)' /\ Timely(deviceState[d], d)'
                              /\ \A i \in Of(d)' : log'[i].at <= deviceState'[d].at
                        /\ updates'[d] # Unset =>
                              /\ pc' = "isolate" /\ Includes(updates[d], d)'
                              /\ Timely(updates[d], d)'
    BY DEF MapsKeep
  <2> QED BY <1>2 DEF Keeps, MapsKeep, Includes, Timely
<1>6. IsolationKeeps'
  <2>1. SUFFICES ASSUME NEW k \in 1..isolated'
                 PROVE  pending[k] \in LeftOut' \/ Updated(pending[k])
    BY DEF IsolationKeeps, Updated
  <2>2. isolated \in Nat
    BY DEF TInv, TypeOK
  <2>3. k \in 1..isolated \/ (k = isolated + 1 /\ k = isolated')
    BY <2>1, <2>2
  <2>4. k \in 1..isolated \/ pending[k] \in LeftOut'
    BY <2>3, <2>2
  <2> QED BY <2>4, <1>1 DEF Keeps, IsolationKeeps
<1>7. ShadowsKeep'
  BY <1>1 DEF Keeps, ShadowsKeep
<1> QED BY <1>3, <1>4, <1>5, <1>6, <1>7 DEF Keeps

(* The batch, or a part of it, is done or forgotten.                       *)
LEMMA KeepsForgotten ==
    ASSUME TInv, TInv', Forget,
           \A i \in 1..Reached' : i \in LeftOut' \/ i \in shadow'[log'[i].dev].from,
           ShadowsKeep'
    PROVE  Keeps'
<1>1. Waiting' = {} /\ \A d \in Devices : Of(d)' = {} /\ StateOf(d)' = shadow'[d]
  BY DEF Forget, Waiting, Of, StateOf, NoMap
<1>2. Placed'
  BY DEF Placed
<1>3. InOrder'
  BY <1>1 DEF InOrder, Forget
<1>4. \A d \in Devices : deviceState'[d] = Unset /\ updates'[d] = Unset
  BY DEF Forget, NoMap
<1>5. MapsKeep'
  BY <1>1, <1>4 DEF MapsKeep, Includes, ShadowsKeep
<1>6. IsolationKeeps'
  BY DEF IsolationKeeps, Forget
<1> QED BY <1>2, <1>3, <1>5, <1>6 DEF Keeps
(* The states given are written: the shadow of a device is replaced, and   *)
(* then has all that waited, or it is newer and had that already.          *)
LEMMA WrittenKeeps ==
    ASSUME TInv, TInv', Progress, Calm, Keeps, log' = log, LeftOut \subseteq LeftOut',
           NEW states, WriteShadows(states),
           \A d \in Devices : states[d] # Unset => Includes(states[d], d) /\ Timely(states[d], d),
           \A i \in Waiting :
               \/ i \in LeftOut
               \/ states[log[i].dev] # Unset /\ log[i].at <= states[log[i].dev].at
    PROVE  /\ ShadowsKeep'
           /\ \A i \in 1..Reached : i \in LeftOut' \/ i \in shadow'[log[i].dev].from
<1>1. /\ \A d \in Devices : \/ shadow'[d] = shadow[d]
                            \/ states[d] # Unset /\ shadow'[d] = states[d]
      /\ \A d \in Devices : states[d] # Unset =>
            \/ shadow'[d] = states[d]
            \/ shadow'[d] = shadow[d] /\ ~(states[d].at >= shadow[d].at)
  BY DEF WriteShadows, Calm
<1>2. \A d \in Devices : shadow[d].from \subseteq shadow'[d].from /\ ~shadow'[d].smoke
  BY <1>1 DEF Keeps, ShadowsKeep, Includes
<1>3. \A d \in Devices : shadow[d].at \in Nat
  BY DEF TInv, TypeOK, Shadows
<1>4. ASSUME NEW i \in 1..Reached
      PROVE  i \in LeftOut' \/ i \in shadow'[log[i].dev].from
  <2> DEFINE d == log[i].dev
  <2>1. i \in 1..Len(log) /\ d \in Devices /\ log[i].at \in Nat
    BY <1>4, WaitingType, LogType
  <2>2. SUFFICES ASSUME i \in Waiting, i \notin LeftOut PROVE i \in shadow'[d].from
    BY <1>2, <2>1 DEF Keeps, Placed
  <2>3. states[d] # Unset /\ log[i].at <= states[d].at /\ i \in Of(d)
    BY <2>2 DEF Of
  <2>4. i \in states[d].from
    BY <2>1, <2>3 DEF Includes
  <2>5. PICK k \in Of(d) : states[d].at = log[k].at
    BY <2>1, <2>3 DEF Timely
  <2>6. states[d].at \in Nat
    BY <2>1, <2>5, WaitingType, LogType
  <2>7. CASE shadow'[d] = states[d]
    BY <2>4, <2>7
  <2>8. CASE shadow'[d] = shadow[d] /\ ~(states[d].at >= shadow[d].at)
    <3>1. log[i].at < shadow[d].at
      BY <1>3, <2>1, <2>3, <2>6, <2>8
    <3> QED BY <2>1, <2>2, <2>8, <3>1 DEF Keeps, ShadowsKeep
  <2> QED BY <1>1, <2>1, <2>3, <2>7, <2>8
<1>5. ShadowsKeep'
  <2>1. SUFFICES ASSUME NEW d \in Devices
                 PROVE  /\ shadow'[d].at = 0 \/ \E j \in 1..Len(log) : shadow'[d].at = log[j].at
                        /\ \A i \in 1..Len(log) :
                              log[i].dev = d /\ log[i].at < shadow'[d].at =>
                                  i \in LeftOut' \/ i \in shadow'[d].from
    BY <1>2 DEF ShadowsKeep
  <2>2. CASE shadow'[d] = shadow[d]
    BY <2>2 DEF Keeps, ShadowsKeep
  <2>3. CASE states[d] # Unset /\ shadow'[d] = states[d]
    <3>1. PICK k \in Of(d) : shadow'[d].at = log[k].at
      BY <2>3 DEF Timely
    <3>2. k \in 1..Reached /\ k \in 1..Len(log) /\ log[k].at \in Nat
      <4>1. k \in 1..Len(log) /\ k \in Waiting
        BY WaitingType DEF Of
      <4>2. k <= Reached
        BY <4>1, Counts DEF Progress, Waiting, Reached
      <4> QED BY <4>1, <4>2, WaitingType, LogType
    <3>3. ASSUME NEW i \in 1..Len(log), log[i].dev = d, log[i].at < shadow'[d].at
          PROVE  i \in LeftOut' \/ i \in shadow'[d].from
      <4>1. ~(k < i) /\ i # k
        <5>1. DOMAIN log = 1..Len(log)
          BY Counts
        <5>2. log[i].at \in Nat /\ log[i].at < log[k].at
          BY <3>1, <3>3, LogType
        <5>3. k < i => log[k].at <= log[i].at
          BY <3>2, <3>3, <5>1 DEF Calm, ReceivedInOrder
        <5> QED BY <3>2, <5>2, <5>3
      <4>2. i \in 1..Reached
        BY <3>2, <4>1, WaitingType
      <4> QED BY <1>4, <3>3, <4>2
    <3> QED BY <3>1, <3>2, <3>3
  <2> QED BY <1>1, <2>2, <2>3
<1> QED BY <1>4, <1>5

LEMMA KeepsStep ==
    TInv /\ TInv' /\ Progress /\ (Calm => Keeps) /\ [Next]_vars => (Calm => Keeps)'
<1> SUFFICES ASSUME TInv, TInv', Progress, Calm => Keeps, [Next]_vars, Calm' PROVE Keeps'
  OBVIOUS
<1>1. CASE UNCHANGED vars
  <2>1. UNCHANGED <<log, pending, deviceState, updates, shadow, dlq, pos, passed,
                    latestState, pc, next, isolated, setting>>
    BY <1>1 DEF vars
  <2>2. Calm /\ Reached' = Reached
    BY <2>1 DEF Calm, Faults, ReceivedInOrder, Reached
  <2> QED BY <2>1, <2>2, KeepsLast DEF Keeps, InOrder
<1>2. CASE Next
  <2>0. /\ Calm /\ Keeps /\ "shadow" \notin Faults
        /\ Faults \cap {"outage", "batch", "read"} = {} /\ dlq \subseteq dlq'
        /\ LeftOut \subseteq LeftOut' /\ passed \subseteq passed'
    <3>1. Calm /\ dlq \subseteq dlq' /\ passed \subseteq passed'
      BY <1>2, CalmBefore, OnlyGrows
    <3> QED BY <3>1 DEF Calm, LeftOut
  <2>a. Reached' <= Reached => 1..Reached' \subseteq 1..Reached
    <3>1. Reached \in Nat /\ Reached' \in Nat
      BY DEF Reached, TInv, TypeOK
    <3> QED BY <3>1
  <2>1. ASSUME NEW m \in setting.inputs, Produce(m) PROVE Keeps'
    <3> DEFINE n == Len(log) + 1
    <3>1. /\ Len(log) \in Nat /\ DOMAIN log = 1..Len(log) /\ DOMAIN log' = 1..n
          /\ Len(log') = n /\ \A i \in 1..Len(log) : log'[i] = log[i]
      BY <2>1 DEF Produce, TInv, TypeOK
    <3>2. /\ UNCHANGED <<pos, passed, pc, next, pending, deviceState, latestState, updates,
                         isolated, shadow, dlq>>
          /\ Waiting' = Waiting /\ LeftOut' = LeftOut /\ Reached' = Reached
      BY <2>1 DEF Produce, batchVars, cacheVars, isoVars, sinkVars, stopVars, Waiting, LeftOut,
         Reached
    <3>3. \A d \in Devices : StateOf(d)' = StateOf(d) /\ Of(d)' = Of(d)
      BY <3>1, <3>2, WaitingType DEF StateOf, Of
    <3>4. Placed'
      BY <2>0, <3>1, <3>2, WaitingType DEF Keeps, Placed
    <3>5. InOrder'
      BY <2>0, <3>2 DEF Keeps, InOrder
    <3>6. MapsKeep'
      BY <2>0, <3>1, <3>2, <3>3, WaitingType DEF Keeps, MapsKeep, Includes, Timely
    <3>7. IsolationKeeps'
      <4>1. pending \in Seq(1..Len(log)) /\ isolated \in 0..Len(pending)
        BY DEF TInv, TypeOK
      <4>2. \A k \in 1..isolated : pending[k] \in 1..Len(log)
        BY <4>1
      <4> QED BY <2>0, <3>1, <3>2, <4>2 DEF Keeps, IsolationKeeps, Updated
    <3>8. ShadowsKeep'
      <4>1. SUFFICES ASSUME NEW d \in Devices
            PROVE  /\ ~shadow[d].smoke
                   /\ shadow[d].at = 0 \/ \E j \in 1..n : shadow[d].at = log'[j].at
                   /\ \A i \in 1..n : log'[i].dev = d /\ log'[i].at < shadow[d].at
                         => i \in LeftOut \/ i \in shadow[d].from
        BY <3>1, <3>2 DEF ShadowsKeep
      <4>2. /\ ~shadow[d].smoke
            /\ shadow[d].at = 0 \/ \E j \in 1..Len(log) : shadow[d].at = log[j].at
            /\ \A i \in 1..Len(log) : log[i].dev = d /\ log[i].at < shadow[d].at
                  => i \in LeftOut \/ i \in shadow[d].from
        BY <2>0 DEF Keeps, ShadowsKeep
      <4>3. \A j \in 1..Len(log) : log[j].at <= log'[n].at
        BY <3>1 DEF Calm, ReceivedInOrder
      <4>4. log'[n].at \in Nat /\ shadow[d].at \in Nat
        <5>1. log'[n] = m
          BY <2>1 DEF Produce, TInv, TypeOK
        <5> QED BY <5>1, InputType DEF TInv, TypeOK, Shadows
      <4>5. ~(log'[n].at < shadow[d].at)
        BY <4>2, <4>3, <4>4
      <4>6. \A i \in 1..n : i \in 1..Len(log) \/ i = n
        BY <3>1
      <4>7. 1..Len(log) \subseteq 1..n
        BY <3>1
      <4> QED BY <3>1, <4>2, <4>5, <4>6, <4>7
    <3> QED BY <3>4, <3>5, <3>6, <3>7, <3>8 DEF Keeps
  <2>2. CASE FetchBatch
    <3>1. UNCHANGED <<log, pending, deviceState, updates, shadow, pos,
                      latestState, isolated>>
      BY <2>2 DEF FetchBatch, cacheVars, isoVars, sinkVars
    <3>2. Reached' = Reached /\ pc # "isolate"
      BY <2>2 DEF FetchBatch, Reached
    <3> QED BY <2>0, <3>1, <3>2, KeepsLast
  <2>3. CASE RefuseMalformed \/ RefuseRepeat \/ RefuseOverBudget
    <3>1. PICK reason \in Reasons : Refuse(reason)
      BY <2>3 DEF RefuseMalformed, RefuseRepeat, RefuseOverBudget, Reasons
    <3>2. next + 1 \in LeftOut' /\ next' = next + 1 /\ pos' = next + 1
      <4>1. [msg |-> next + 1, reason |-> reason] \in dlq'
        BY <3>1 DEF Refuse
      <4>2. next + 1 \in LeftOut'
        BY <4>1 DEF LeftOut
      <4> QED BY <3>1, <4>2 DEF Refuse
    <3>3. /\ UNCHANGED <<log, pending, deviceState, updates, shadow, isolated, pc>>
          /\ pc = "loop"
      BY <2>3 DEF RefuseMalformed, RefuseRepeat, RefuseOverBudget, Handling, cacheVars, isoVars
    <3>4. \A d \in Devices : latestState'[d] \in {latestState[d], StateOf(d)}
      <4>1. \/ latestState' = latestState
            \/ latestState' = [latestState EXCEPT ![Device] = StateOf(Device)]
        BY <2>3 DEF RefuseMalformed, RefuseRepeat, RefuseOverBudget, cacheVars
      <4> QED BY <4>1 DEF TInv, TypeOK
    <3> QED BY <2>0, <3>2, <3>3, <3>4, KeepsLast DEF Reached
  <2>4. CASE Accept
    <3>0. PICK d \in Devices : d = Device
      BY <2>4, MessageType DEF Accept, TInv
    <3> DEFINE merged == deviceState[d]
               base   == IF merged = Unset THEN StateOf(d) ELSE merged
               state  == BuildShadowState(next + 1, Message, base)
    <3>1. /\ next \in Nat /\ next + 1 \in DOMAIN log /\ log[next + 1] = Message
          /\ DOMAIN log = 1..Len(log) /\ Message \in setting.inputs /\ Message.at \in Nat
      BY <2>4, MessageType, InputType DEF Accept, TInv, TypeOK, Message
    <3>2. /\ UNCHANGED <<log, pos, passed, updates, isolated, shadow, dlq>>
          /\ pc = "loop" /\ pc' # "idle" /\ next' = next + 1
          /\ Waiting' = Waiting \cup {next + 1} /\ pending' = Append(pending, next + 1)
      BY <2>4, WaitingGrows DEF Accept, Handling, isoVars, sinkVars, stopVars
    <3>3. /\ ~base.smoke /\ shadow[d].from \subseteq base.from /\ Of(d) \subseteq base.from
          /\ base \in Shadows
      BY <2>0, <3>1, StateType DEF Keeps, MapsKeep, Includes, TInv, TypeOK
    <3>4. /\ ~state.smoke /\ state.from = base.from \cup {next + 1} /\ state.at = Message.at
      <4>1. ~Message.smoke
        BY <2>0, <3>1 DEF Calm, ReceivedInOrder
      <4> HIDE DEF base
      <4> QED BY <3>3, <4>1, BuildKeeps
    <3>5. state # Unset
      <4>1. state \in Shadows
        <5> HIDE DEF base
        <5> QED BY <3>1, <3>3, BuildType DEF TInv
      <4>2. Shadows \subseteq States(Nat)
        BY DEF Shadows
      <4> QED BY <4>1, <4>2, WriterAssumption
    <3>6. \A i \in Waiting : i <= next /\ i \in 1..Len(log) /\ log[i].at <= Message.at
      <4>1. \A i \in Waiting : i <= next /\ i \in 1..Len(log)
        BY WaitingType DEF Progress, Waiting
      <4>2. \A i \in Waiting : i < next + 1
        BY <3>1, <4>1
      <4> QED BY <2>0, <3>1, <4>1, <4>2 DEF Calm, ReceivedInOrder
    <3>7. /\ deviceState' = [deviceState EXCEPT ![d] = state]
          /\ latestState' = [latestState EXCEPT ![d] = state]
      <4>1. merged # Unset => merged.at <= Message.at
        BY <2>0, <3>1, <3>6 DEF Keeps, MapsKeep, Timely, Of
      <4> QED BY <2>4, <3>0, <4>1 DEF Accept
    <3>8. /\ \A c \in Devices : c # d => Of(c)' = Of(c) /\ StateOf(c)' = StateOf(c)
          /\ Of(d)' = Of(d) \cup {next + 1} /\ StateOf(d)' = state
      <4> HIDE DEF state
      <4>1. log[next + 1].dev = d
        BY <3>0, <3>1 DEF Device
      <4>2. \A c \in Devices : Of(c)' = IF c = d THEN Of(c) \cup {next + 1} ELSE Of(c)
        BY <3>2, <4>1 DEF Of
      <4>3. \A c \in Devices : latestState'[c] = IF c = d THEN state ELSE latestState[c]
        BY <3>7 DEF TInv, TypeOK
      <4> QED BY <3>2, <3>5, <4>2, <4>3 DEF StateOf
    <3>9. Placed'
      <4>1. Reached = next /\ Reached' = next + 1
        BY <3>2 DEF Reached
      <4>2. \A i \in 1..(next + 1) : i \in 1..next \/ i = next + 1
        BY <3>1
      <4>3. LeftOut' = LeftOut /\ UNCHANGED <<log, shadow>>
        BY <3>2 DEF LeftOut
      <4>4. \A i \in 1..next : i \in LeftOut \/ i \in Waiting \/ i \in shadow[log[i].dev].from
        BY <2>0, <4>1 DEF Keeps, Placed
      <4>5. Waiting' = Waiting \cup {next + 1}
        BY <3>2
      <4> HIDE DEF base, state
      <4>6. SUFFICES ASSUME NEW i \in 1..(next + 1)
                     PROVE  i \in LeftOut' \/ i \in Waiting' \/ i \in shadow'[log'[i].dev].from
        BY <4>1 DEF Placed
      <4>7. CASE i = next + 1
        BY <4>5, <4>7
      <4>8. CASE i \in 1..next
        BY <4>3, <4>4, <4>5, <4>8
      <4> QED BY <4>2, <4>7, <4>8
    <3>10. InOrder'
      <4>1. Len(pending) \in Nat /\ DOMAIN pending = 1..Len(pending)
        BY Counts
      <4>2. /\ DOMAIN pending' = 1..(Len(pending) + 1)
            /\ \A k \in 1..Len(pending) : pending'[k] = pending[k]
            /\ pending'[Len(pending) + 1] = next + 1
        BY <3>2 DEF TInv, TypeOK
      <4>3. \A k \in 1..Len(pending) : pending[k] < next + 1
        <5>1. \A k \in 1..Len(pending) : pending[k] \in Waiting
          BY <4>1 DEF Waiting
        <5>2. \A i \in Waiting : i < next + 1
          BY <3>1, <3>6
        <5> QED BY <5>1, <5>2
      <4>5. \A k, l \in 1..(Len(pending) + 1) :
                k < l => k \in 1..Len(pending) /\ (l \in 1..Len(pending) \/ l = Len(pending) + 1)
        BY <4>1
      <4>6. \A k, l \in 1..(Len(pending) + 1) : k < l => pending'[k] < pending'[l]
        BY <2>0, <4>1, <4>2, <4>3, <4>5 DEF Keeps, InOrder
      <4> QED BY <3>2, <4>2, <4>6 DEF InOrder
    <3>11. MapsKeep'
      <4>1. SUFFICES ASSUME NEW c \in Devices
                     PROVE  /\ Includes(StateOf(c), c)'
                            /\ deviceState'[c] = Unset => Of(c)' = {}
                            /\ deviceState'[c] # Unset =>
                                  /\ Includes(deviceState[c], c)' /\ Timely(deviceState[c], c)'
                                  /\ \A i \in Of(c)' : log'[i].at <= deviceState'[c].at
                            /\ updates'[c] # Unset =>
                                  /\ pc' = "isolate" /\ Includes(updates[c], c)'
                                  /\ Timely(updates[c], c)'
        BY DEF MapsKeep
      <4>2. updates'[c] = Unset
        BY <2>0, <3>2 DEF Keeps, MapsKeep
      <4>3. CASE c = d
        <5> HIDE DEF state, base
        <5>1. deviceState'[d] = state /\ deviceState'[d] # Unset
          BY <3>5, <3>7 DEF TInv, TypeOK
        <5>2. Includes(StateOf(d), d)' /\ Includes(deviceState[d], d)'
          BY <3>2, <3>3, <3>4, <3>8, <5>1 DEF Includes
        <5>3. Timely(deviceState[d], d)'
          BY <3>1, <3>2, <3>4, <3>8, <5>1 DEF Timely
        <5>4. \A i \in Of(d)' : log'[i].at <= deviceState'[d].at
          BY <3>1, <3>2, <3>4, <3>6, <3>8, <5>1 DEF Of
        <5> QED BY <4>2, <4>3, <5>1, <5>2, <5>3, <5>4
      <4>4. CASE c # d
        <5> HIDE DEF state, base
        <5>1. deviceState'[c] = deviceState[c]
          BY <3>7, <4>4 DEF TInv, TypeOK
        <5> QED BY <2>0, <3>2, <3>8, <4>2, <4>4, <5>1 DEF Keeps, MapsKeep, Includes, Timely
      <4> QED BY <4>3, <4>4
    <3>12. IsolationKeeps'
      BY <3>2 DEF IsolationKeeps, Progress
    <3>13. ShadowsKeep'
      BY <2>0, <3>2 DEF Keeps, ShadowsKeep
    <3> QED BY <3>9, <3>10, <3>11, <3>12, <3>13 DEF Keeps
  <2>5. CASE RefuseUnread \/ BatchFails \/ FlushFails \/ IsolateThrows
    BY <2>0, <2>5 DEF RefuseUnread, BatchFails, FlushFails, IsolateThrows
  <2>6. CASE AtBatchEnd \/ FlushInsert \/ FlushIsolates
    <3>1. /\ UNCHANGED <<log, pending, deviceState, updates, shadow, pos,
                         latestState, isolated, next>>
          /\ pc # "isolate"
      BY <2>6 DEF AtBatchEnd, FlushInsert, FlushIsolates, batchVars, cacheVars, isoVars, sinkVars
    <3>2. Reached' = Reached
      BY <2>6, <3>1 DEF AtBatchEnd, FlushInsert, FlushIsolates, Reached
    <3> QED BY <2>0, <3>1, <3>2, KeepsLast
  <2>7. CASE FlushNothing
    <3>1. /\ UNCHANGED <<log, pos, shadow>> /\ Forget /\ Waiting = {}
      BY <2>7 DEF FlushNothing, sinkVars, Waiting
    <3>2. Reached' <= Reached
      BY <2>7 DEF FlushNothing, AfterFlush, LeaveBatch, batchVars, Reached, Progress, TInv, TypeOK
    <3>3. \A i \in 1..Reached' : i \in LeftOut' \/ i \in shadow'[log'[i].dev].from
      BY <2>0, <2>a, <3>1, <3>2 DEF Keeps, Placed
    <3>4. ShadowsKeep'
      BY <2>0, <3>1 DEF Keeps, ShadowsKeep
    <3> QED BY <2>0, <3>1, <3>3, <3>4, WaitingType, KeepsForgotten
  <2>8. CASE FlushDone
    <3>1. /\ UNCHANGED log /\ WriteShadows(deviceState) /\ pos' = Last(pending) /\ Forget
          /\ pc = "inserted"
      BY <2>8 DEF FlushDone
    <3>2. /\ Last(pending) \in Waiting /\ Last(pending) <= Reached
          /\ Last(pending) \in Nat
      BY <3>1, LastIsReached DEF Reached
    <3>3. Reached' <= Reached
      BY <2>8, <3>1, <3>2
         DEF FlushDone, AfterFlush, LeaveBatch, batchVars, Reached, TInv, TypeOK
    <3>4. \A i \in Waiting : /\ deviceState[log[i].dev] # Unset
                             /\ log[i].at <= deviceState[log[i].dev].at
      <4>1. SUFFICES ASSUME NEW i \in Waiting
                     PROVE  /\ deviceState[log[i].dev] # Unset
                            /\ log[i].at <= deviceState[log[i].dev].at
        OBVIOUS
      <4>2. log[i].dev \in Devices /\ i \in Of(log[i].dev)
        BY WaitingType, LogType DEF Of
      <4> QED BY <2>0, <4>2 DEF Keeps, MapsKeep
    <3>5. \A d \in Devices : deviceState[d] # Unset =>
              Includes(deviceState[d], d) /\ Timely(deviceState[d], d)
      BY <2>0 DEF Keeps, MapsKeep
    <3>6. /\ ShadowsKeep'
          /\ \A i \in 1..Reached : i \in LeftOut' \/ i \in shadow'[log[i].dev].from
      BY <2>0, <3>1, <3>4, <3>5, WrittenKeeps
    <3>7. \A i \in 1..Reached' : i \in LeftOut' \/ i \in shadow'[log'[i].dev].from
      BY <2>a, <3>1, <3>3, <3>6
    <3> QED BY <3>1, <3>6, <3>7, KeepsForgotten
  <2>9. CASE IsolateInsert
    <3>0. /\ isolated + 1 \in DOMAIN pending /\ isolated \in Nat /\ pc = "isolate"
          /\ Isolated \in Waiting /\ Isolated \in 1..Len(log)
          /\ \A k \in 1..(isolated + 1) : k \in DOMAIN pending /\ pending[k] \in 1..Len(log)
      <4>1. /\ pending \in Seq(1..Len(log)) /\ isolated \in 0..Len(pending)
            /\ isolated < Len(pending) /\ pc = "isolate"
        <5>1. isolated < Len(pending) /\ pc = "isolate"
          BY <2>9 DEF IsolateInsert, Isolating
        <5> QED BY <5>1 DEF TInv, TypeOK
      <4>2. /\ isolated + 1 \in DOMAIN pending /\ isolated \in Nat
            /\ \A k \in 1..(isolated + 1) : k \in DOMAIN pending /\ pending[k] \in 1..Len(log)
        BY <4>1
      <4> QED BY <4>1, <4>2 DEF Isolated, Waiting
    <3> DEFINE m == log[Isolated]
               state == BuildShadowState(Isolated, m, StateOf(m.dev))
    <3>1. PICK i \in Waiting : i = Isolated /\ i = pending[isolated + 1]
      BY <3>0 DEF Isolated
    <3>2. PICK d \in Devices : d = m.dev
      BY <3>0, LogType
    <3>3. /\ UNCHANGED <<log, pc, next, pending, latestState, deviceState, dlq, shadow, passed>>
          /\ updates' = [updates EXCEPT ![d] = state] /\ pos' = i /\ isolated' = isolated + 1
      BY <2>9, <3>1, <3>2 DEF IsolateInsert, batchVars, cacheVars, stopVars
    <3>4. /\ Waiting' = Waiting /\ LeftOut' = LeftOut /\ Reached' = Reached
          /\ \A c \in Devices : Of(c)' = Of(c) /\ StateOf(c)' = StateOf(c)
      <4>1. UNCHANGED <<log, pc, next, pending, latestState, dlq, shadow, passed>>
        BY <3>3
      <4>2. Reached' = Reached
        BY <2>9, <4>1 DEF Reached, IsolateInsert, Isolating
      <4>3. Waiting' = Waiting /\ LeftOut' = LeftOut
        BY <4>1 DEF Waiting, LeftOut
      <4> QED BY <4>1, <4>2, <4>3 DEF Of, StateOf
    <3>5. /\ Includes(StateOf(d), d) /\ i \in Of(d) /\ ~m.smoke /\ m \in setting.inputs
      <4>1. DOMAIN log = 1..Len(log)
        BY Counts
      <4>2. m \in setting.inputs /\ ~m.smoke
        BY <2>0, <3>0, <4>1, LogType DEF Calm, ReceivedInOrder
      <4>3. i \in Of(d)
        BY <3>1, <3>2 DEF Of
      <4> QED BY <2>0, <4>2, <4>3 DEF Keeps, MapsKeep
    <3>6. ~state.smoke /\ state.from = StateOf(d).from \cup {i} /\ state.at = log[i].at
      <4>1. ~StateOf(d).smoke /\ state = BuildShadowState(i, m, StateOf(d)) /\ m = log[i]
        BY <3>1, <3>2, <3>5 DEF Includes
      <4> HIDE DEF state, m
      <4> QED BY <3>5, <4>1, BuildKeeps
    <3>7. state # Unset
      <4>1. state \in Shadows
        BY <3>0, <3>2, <3>5, StateType, BuildType DEF TInv
      <4>2. Shadows \subseteq States(Nat)
        BY DEF Shadows
      <4> QED BY <4>1, <4>2, WriterAssumption
    <3> HIDE DEF state, m
    <3>8. \A c \in Devices : updates'[c] = IF c = d THEN state ELSE updates[c]
      BY <3>3 DEF TInv, TypeOK
    <3>9. Placed'
      BY <2>0, <3>3, <3>4 DEF Keeps, Placed
    <3>10. InOrder'
      BY <2>0, <3>3, <3>4, WaitingType DEF Keeps, InOrder
    <3>11. MapsKeep'
      <4>1. SUFFICES ASSUME NEW c \in Devices
                     PROVE  updates'[c] # Unset =>
                                /\ Includes(updates[c], c)' /\ Timely(updates[c], c)'
        BY <2>0, <3>0, <3>3, <3>4 DEF Keeps, MapsKeep, Includes, Timely
      <4>2. CASE c = d
        BY <3>3, <3>4, <3>5, <3>6, <3>8, <4>2 DEF Includes, Timely
      <4>3. CASE c # d
        BY <2>0, <3>3, <3>4, <3>8, <4>3 DEF Keeps, MapsKeep, Includes, Timely
      <4> QED BY <4>2, <4>3
    <3>12. IsolationKeeps'
      <4>1. SUFFICES ASSUME NEW k \in 1..(isolated + 1)
                     PROVE  pending[k] \in LeftOut \/ Updated(pending[k])'
        BY <3>3, <3>4 DEF IsolationKeeps, Updated
      <4> DEFINE c == log[pending[k]].dev
      <4>2. pending[k] \in 1..Len(log) /\ c \in Devices /\ log[pending[k]].at \in Nat
        <5>1. pending[k] \in 1..Len(log)
          BY <3>0
        <5> QED BY <5>1, LogType
      <4>3. log[pending[k]].at <= log[i].at
        <5>1. CASE k = isolated + 1
          BY <3>1, <4>2, <5>1
        <5>2. CASE k # isolated + 1
          <6>1. k < isolated + 1 /\ k \in DOMAIN pending
            BY <3>0, <5>2
          <6>2. pending[k] < i /\ i \in DOMAIN log /\ pending[k] \in DOMAIN log
            <7>1. DOMAIN log = 1..Len(log)
              BY Counts
            <7> QED BY <2>0, <3>0, <3>1, <6>1, <7>1 DEF Keeps, InOrder
          <6> QED BY <2>0, <6>2 DEF Calm, ReceivedInOrder
        <5> QED BY <5>1, <5>2
      <4>4. CASE c = d
        BY <3>3, <3>6, <3>7, <3>8, <4>2, <4>3, <4>4 DEF Updated
      <4>5. CASE c # d
        <5>1. k # isolated + 1
          BY <3>1, <3>2, <4>5 DEF m
        <5>2. k \in 1..isolated
          BY <3>0, <5>1
        <5> QED BY <2>0, <3>3, <3>8, <4>2, <4>5, <5>2 DEF Keeps, IsolationKeeps, Updated
      <4> QED BY <4>4, <4>5
    <3>13. ShadowsKeep'
      BY <2>0, <3>3, <3>4 DEF Keeps, ShadowsKeep
    <3> QED BY <3>9, <3>10, <3>11, <3>12, <3>13 DEF Keeps
  <2>10. CASE IsolateRefuse
    <3>1. /\ UNCHANGED <<log, pending, deviceState, updates, shadow,
                         latestState, pc, next>>
          /\ isolated' = isolated + 1 /\ pos' = Isolated /\ isolated + 1 \in DOMAIN pending
      BY <2>10 DEF IsolateRefuse, Isolating, batchVars, cacheVars, TInv, TypeOK
    <3>2. pending[isolated'] \in LeftOut'
      <4>1. [msg |-> Isolated, reason |-> "insert"] \in dlq'
        BY <2>10 DEF IsolateRefuse
      <4> QED BY <3>1, <4>1 DEF LeftOut, Isolated
    <3>3. Reached' = Reached
      BY <3>1, <2>10 DEF Reached, IsolateRefuse, Isolating
    <3> QED BY <2>0, <3>1, <3>2, <3>3, KeepsLast
  <2>11. CASE IsolateDone
    <3>1. /\ UNCHANGED <<log, pos>> /\ WriteShadows(updates) /\ Forget
          /\ pc = "isolate" /\ isolated = Len(pending)
      BY <2>11 DEF IsolateDone
    <3>2. Reached' <= Reached
      BY <2>11, <3>1
         DEF IsolateDone, AfterFlush, LeaveBatch, batchVars, Reached, Progress, TInv, TypeOK
    <3>3. \A i \in Waiting : i \in LeftOut \/ Updated(i)
      BY <2>0, <3>1 DEF Keeps, IsolationKeeps, Waiting, TInv, TypeOK
    <3>4. \A d \in Devices : updates[d] # Unset => Includes(updates[d], d) /\ Timely(updates[d], d)
      BY <2>0 DEF Keeps, MapsKeep
    <3>5. /\ ShadowsKeep'
          /\ \A i \in 1..Reached : i \in LeftOut' \/ i \in shadow'[log[i].dev].from
      BY <2>0, <3>1, <3>3, <3>4, WrittenKeeps DEF Updated
    <3>6. \A i \in 1..Reached' : i \in LeftOut' \/ i \in shadow'[log'[i].dev].from
      BY <2>a, <3>1, <3>2, <3>5
    <3> QED BY <2>0, <3>1, <3>5, <3>6, WaitingType, KeepsForgotten
  <2>12. CASE Restart
    <3>1. /\ UNCHANGED <<log, shadow>> /\ pos' = Len(log) /\ pc' = "idle" /\ Forget
          /\ passed' = passed \cup ((pos + 1)..Len(log)) \cup Waiting
      BY <2>12 DEF Restart, LeaveBatch, sinkVars
    <3>2. Reached' = Len(log) /\ pos \in Nat /\ pos <= Reached
      BY <3>1 DEF Reached, Progress, TInv, TypeOK
    <3>3. \A i \in 1..Reached' : i \in LeftOut' \/ i \in shadow'[log'[i].dev].from
      <4>1. SUFFICES ASSUME NEW i \in 1..Len(log), i \notin LeftOut'
                     PROVE  i \in shadow[log[i].dev].from
        BY <3>1, <3>2
      <4>2. i <= pos /\ i \notin Waiting /\ i \notin LeftOut
        <5>1. i \notin passed'
          BY <4>1 DEF LeftOut
        <5> QED BY <2>0, <3>1, <3>2, <4>1, <5>1, Counts
      <4>3. i \in 1..Reached
        BY <3>2, <4>2, WaitingType
      <4> QED BY <2>0, <4>2, <4>3 DEF Keeps, Placed
    <3>4. ShadowsKeep'
      BY <2>0, <3>1 DEF Keeps, ShadowsKeep
    <3> QED BY <3>1, <3>3, <3>4, KeepsForgotten
  <2> QED
    BY <1>2, <2>1, <2>2, <2>3, <2>4, <2>5, <2>6, <2>7, <2>8, <2>9, <2>10, <2>11, <2>12
       DEF Next, Step, Handle, Flush
<1> QED BY <1>1, <1>2

(* A sparse message never erases an earlier one from the shadow, for any   *)
(* messages, batches and restarts, and whichever messages ClickHouse       *)
(* refuses, as long as messages arrive in order.                           *)
THEOREM WriterShadowKeepsReadings == Spec => []ShadowKeepsReadings
<1> DEFINE Inv == TInv /\ Progress /\ (Calm => Keeps)
<1>1. Init => Inv
  <2>1. SUFFICES ASSUME Init PROVE Keeps
    BY TypeInitial, ProgressInitial
  <2>2. /\ Waiting = {} /\ Reached = 0 /\ Len(log) = 0 /\ isolated = 0 /\ pending = <<>>
        /\ pos = 0
    BY <2>1 DEF Init, Waiting, Reached
  <2>3. \A d \in Devices : /\ Of(d) = {} /\ deviceState[d] = Unset /\ updates[d] = Unset
                           /\ shadow[d] = Blank /\ StateOf(d) = Blank
    BY <2>1, <2>2 DEF Init, Of, StateOf, NoMap
  <2>4. Placed /\ InOrder /\ IsolationKeeps
    BY <2>2 DEF Placed, InOrder, IsolationKeeps
  <2>5. MapsKeep /\ ShadowsKeep
    BY <2>2, <2>3 DEF MapsKeep, ShadowsKeep, Includes, Blank
  <2> QED BY <2>4, <2>5 DEF Keeps
<1>2. Inv /\ [Next]_vars => Inv'
  BY TypeStep, ProgressStep, KeepsStep
<1>3. Inv => ShadowKeepsReadings
  <2>1. SUFFICES ASSUME Inv, Calm, NEW i \in stored \ (LeftOut \cup Waiting), i <= pos
                 PROVE  i \in shadow[log[i].dev].from
    BY DEF ShadowKeepsReadings, Calm
  <2>2. i \in 1..Len(log)
    BY <2>1 DEF TInv, TypeOK
  <2>3. i \in 1..Reached
    BY <2>1, <2>2, WaitingType DEF Reached, Progress, TInv, TypeOK
  <2> QED BY <2>1, <2>3 DEF Keeps, Placed
<1> QED BY <1>1, <1>2, <1>3, PTL DEF Spec
==============================================================================
