----------------------- MODULE TelemetryUplinkProofs ------------------------
(***************************************************************************)
(* The spool delivers at least once, in order, and once only while nothing *)
(* fails, for any number of payloads, any limit and any faults; and of     *)
(* what it delivered the ingest service loses nothing but in a gap.        *)
(***************************************************************************)
EXTENDS TelemetryUplink, SequenceTheorems, TLAPS

Got == {r \in Records : received[r] > 0}

(* What the MQTT client still holds is on the disk, or has arrived;        *)
OutboxIsKept ==
    \A i \in 1..Len(outbox) :
        outbox[i] \notin unreadable /\ outbox[i] \in pending \cup Got

(* what it has sent has arrived.                                           *)
SentIsGot == \A i \in 1..sent : outbox[i] \in Got

(* The publication the replay awaits is the last one handed to the client. *)
AwaitsLast ==
    step = "await" => Len(outbox) > 0 /\ outbox[Len(outbox)] = current

(* A record is filed as published, and its file removed, after it arrived, *)
CurrentIsGot == step \in {"mark", "remove", "trim"} => current \in Got

(* and it is one whose file could be read;                                 *)
CurrentIsSound ==
    step \in {"await", "mark", "remove", "trim", "failed"}
        => current \in Records \ unreadable

(* one that could not is evidence before it is removed.                    *)
DiscardIsFiled == step = "discard" => current \in evidence \cap unreadable

(* The rest of a listing is still on the disk: no one else removes files.  *)
RestIsPending ==
    /\ rest \subseteq pending
    /\ step \notin {"off", "next"} => current \notin rest

IInv == /\ TypeOK /\ OutboxIsKept /\ SentIsGot /\ AwaitsLast /\ CurrentIsGot
        /\ CurrentIsSound /\ DiscardIsFiled /\ RestIsPending /\ PublishedWasReceived

(* The abstract step, in the terms of this module.                         *)
Promised ==
    \/ UNCHANGED <<pending, Got, evidence>>
    \/ \E r \in Records :
        \/ r \notin pending /\ pending' = pending \cup {r} /\ UNCHANGED <<Got, evidence>>
        \/ r \in pending /\ Got' = Got \cup {r} /\ UNCHANGED <<pending, evidence>>
        \/ r \in pending \cap Got /\ pending' = pending \ {r} /\ UNCHANGED <<Got, evidence>>
        \/ evidence' = evidence \cup {r} /\ UNCHANGED <<pending, Got>>
        \/ r \in pending \cap evidence /\ pending' = pending \ {r} /\ UNCHANGED <<Got, evidence>>

LEMMA PromisedIsAbstract == Promised => [Delivery!Next]_(Delivery!vars)
  BY DEF Promised, Got, Delivery!Next, Delivery!vars, Delivery!Accept, Delivery!Receive,
         Delivery!Release, Delivery!File, Delivery!GiveUp

(* An action that leaves disk, outbox, broker and replay alone.            *)
LEMMA HandlerOnly ==
    ASSUME IInv, UNCHANGED <<spoolVars, replayVars, mqttVars, maxPendingRecords>>,
           handler' \in [Records -> Places], ahead' \in [Records -> SUBSET Records],
           mishaps' \in 0..MaxMishaps
    PROVE  IInv' /\ Promised
<1>1. Got' = Got
  BY DEF Got, mqttVars
<1>2. TypeOK'
  BY DEF IInv, TypeOK, spoolVars, replayVars, mqttVars
<1>3. QED
  BY <1>1, <1>2 DEF IInv, OutboxIsKept, SentIsGot, AwaitsLast, CurrentIsGot, CurrentIsSound,
     DiscardIsFiled, RestIsPending, PublishedWasReceived, Promised, spoolVars,
     replayVars, mqttVars

LEMMA MishapType ==
    ASSUME NEW f, Mishap(f), mishaps \in 0..MaxMishaps
    PROVE  mishaps' \in 0..MaxMishaps
  BY SpoolAssumption DEF Mishap

(* Payloads arrive, and handlers end or go on without touching a file.     *)
LEMMA HandlerMoves ==
    ASSUME IInv, NEW r \in Records,
           \/ ArrivesRefused(r) \/ ArrivesAccepted(r) \/ EnqueueFails(r)
           \/ LeaveReplayToOthers(r) \/ RejectIncomingFails(r)
           \/ EmitHealth(r) \/ EmitHealthFails(r)
    PROVE  IInv' /\ Promised
<1>1. /\ handler \in [Records -> Places] /\ ahead \in [Records -> SUBSET Records]
      /\ mishaps \in 0..MaxMishaps /\ pending \subseteq Records
  BY DEF IInv, TypeOK
<1>2. UNCHANGED <<spoolVars, replayVars, mqttVars, maxPendingRecords>>
  BY DEF ArrivesRefused, ArrivesAccepted, Arrives, EnqueueFails, LeaveReplayToOthers,
     RejectIncomingFails, EmitHealth, EmitHealthFails, noteVars
<1>3. handler' \in [Records -> Places]
  BY <1>1 DEF ArrivesRefused, ArrivesAccepted, EnqueueFails, LeaveReplayToOthers,
     RejectIncomingFails, EmitHealth, EmitHealthFails, Goes, Places
<1>4. ahead' \in [Records -> SUBSET Records]
  BY <1>1 DEF ArrivesRefused, ArrivesAccepted, Arrives, EnqueueFails, LeaveReplayToOthers,
     RejectIncomingFails, EmitHealth, EmitHealthFails, noteVars
<1>5. mishaps' \in 0..MaxMishaps
  BY <1>1, MishapType DEF ArrivesRefused, ArrivesAccepted, Arrives, EnqueueFails,
     LeaveReplayToOthers, RejectIncomingFails, EmitHealth, EmitHealthFails
<1>6. QED
  BY <1>2, <1>3, <1>4, <1>5, HandlerOnly

(* The handler writes the pending file or the evidence.                    *)
LEMMA HandlerWrites ==
    ASSUME IInv, NEW r \in Records, Enqueue(r) \/ RejectIncoming(r)
    PROVE  IInv' /\ Promised
<1>1. Got' = Got
  BY DEF Got, Enqueue, RejectIncoming, mqttVars
<1>2. CASE Enqueue(r)
  <2>1. TypeOK'
    BY <1>2 DEF IInv, TypeOK, Enqueue, Goes, Places, replayVars, mqttVars, noteVars
  <2>2. QED
    BY <1>1, <1>2, <2>1 DEF IInv, OutboxIsKept, SentIsGot, AwaitsLast, CurrentIsGot,
       CurrentIsSound, DiscardIsFiled, RestIsPending, PublishedWasReceived, Promised,
       Enqueue, replayVars, mqttVars
<1>3. CASE RejectIncoming(r)
  <2>1. TypeOK'
    BY <1>3 DEF IInv, TypeOK, RejectIncoming, Goes, Places, replayVars, mqttVars, noteVars
  <2>2. QED
    BY <1>1, <1>3, <2>1 DEF IInv, OutboxIsKept, SentIsGot, AwaitsLast, CurrentIsGot,
       CurrentIsSound, DiscardIsFiled, RestIsPending, PublishedWasReceived, Promised,
       RejectIncoming, replayVars, mqttVars
<1>4. QED
  BY <1>2, <1>3

(* A replay starts with the files there are.                               *)
LEMMA ReplayStarts ==
    ASSUME IInv, NEW r \in Records, ReplayOnIngest(r) \/ ReplayOnTimer
    PROVE  IInv' /\ Promised
<1> USE DEF ReplayOnIngest, ReplayOnTimer, StartReplay
<1>1. Got' = Got
  BY DEF Got, mqttVars
<1>2. TypeOK'
  BY DEF IInv, TypeOK, Goes, Places, Steps, spoolVars, mqttVars, noteVars
<1>3. QED
  BY <1>1, <1>2 DEF IInv, OutboxIsKept, SentIsGot, AwaitsLast, CurrentIsGot, CurrentIsSound,
     DiscardIsFiled, RestIsPending, PublishedWasReceived, Promised, spoolVars, mqttVars

LEMMA FirstOfIsOf == ASSUME NEW S PROVE FirstOf(S) \subseteq S
  BY DEF FirstOf

LEMMA PublishHolds == ASSUME IInv, Publish PROVE IInv' /\ Promised
<1>1. PICK r \in FirstOf(rest) \ unreadable :
        current' = r /\ rest' = rest \ {r} /\ outbox' = Append(outbox, r)
  BY DEF Publish
<1>2. r \in rest /\ r \in pending /\ r \in Records /\ r \notin unreadable
  BY <1>1, FirstOfIsOf DEF IInv, RestIsPending, TypeOK
<1>3. Got' = Got
  BY DEF Publish, Got
<1>4. /\ outbox' \in Seq(Records) /\ Len(outbox') = Len(outbox) + 1
      /\ outbox'[Len(outbox) + 1] = r
      /\ \A i \in 1..Len(outbox) : outbox'[i] = outbox[i]
      /\ Len(outbox) \in Nat
  BY <1>1, <1>2, AppendProperties DEF IInv, TypeOK
<1>5. TypeOK'
  BY <1>1, <1>2, <1>4 DEF IInv, TypeOK, Publish, spoolVars, Steps, noteVars
<1>6. OutboxIsKept'
  BY <1>2, <1>3, <1>4 DEF IInv, OutboxIsKept, Publish, spoolVars
<1>7. SentIsGot'
  <2>1. sent' = sent /\ sent \in 0..Len(outbox)
    BY DEF IInv, TypeOK, Publish
  <2>2. QED
    BY <1>3, <1>4, <2>1 DEF IInv, SentIsGot
<1>8. AwaitsLast'
  BY <1>1, <1>4 DEF AwaitsLast
<1>9. QED
  BY <1>1, <1>2, <1>3, <1>5, <1>6, <1>7, <1>8 DEF IInv, CurrentIsGot, CurrentIsSound,
     DiscardIsFiled, RestIsPending, PublishedWasReceived, Promised, Publish, spoolVars

LEMMA FileUnreadableHolds == ASSUME IInv, FileUnreadable PROVE IInv' /\ Promised
<1>1. PICK r \in FirstOf(rest) \cap unreadable :
        evidence' = evidence \cup {r} /\ current' = r /\ rest' = rest \ {r}
  BY DEF FileUnreadable
<1>2. r \in rest /\ r \in Records /\ r \in unreadable
  BY <1>1, FirstOfIsOf DEF IInv, TypeOK
<1>3. Got' = Got
  BY DEF FileUnreadable, Got, mqttVars
<1>4. TypeOK'
  BY <1>1, <1>2 DEF IInv, TypeOK, FileUnreadable, mqttVars, Steps, noteVars
<1>5. QED
  BY <1>1, <1>2, <1>3, <1>4 DEF IInv, OutboxIsKept, SentIsGot, AwaitsLast, CurrentIsGot,
     CurrentIsSound, DiscardIsFiled, RestIsPending, PublishedWasReceived, Promised,
     FileUnreadable, mqttVars

LEMMA DiscardUnreadableHolds == ASSUME IInv, DiscardUnreadable PROVE IInv' /\ Promised
<1>1. current \in evidence \cap unreadable /\ current \in pending /\ current \notin rest
  BY DEF IInv, TypeOK, DiscardIsFiled, RestIsPending, DiscardUnreadable
<1>2. Got' = Got
  BY DEF DiscardUnreadable, Got, mqttVars
<1>3. TypeOK'
  BY <1>1 DEF IInv, TypeOK, DiscardUnreadable, mqttVars, Steps, noteVars
<1>4. OutboxIsKept' /\ SentIsGot'
  BY <1>1, <1>2 DEF IInv, OutboxIsKept, SentIsGot, DiscardUnreadable, mqttVars
<1>5. QED
  BY <1>1, <1>2, <1>3, <1>4 DEF IInv, TypeOK, AwaitsLast, CurrentIsGot, CurrentIsSound,
     DiscardIsFiled, RestIsPending, PublishedWasReceived, Promised, DiscardUnreadable,
     mqttVars

(* A record is filed as published, removed, and the directory trimmed; or  *)
(* one of these fails, or the publication times out.                       *)
LEMMA MarkHolds ==
    ASSUME IInv, MarkPublished \/ TrimPublished \/ MarkPublishedFails \/ PublishTimesOut
    PROVE  IInv' /\ Promised
<1> USE DEF MarkPublished, TrimPublished, MarkPublishedFails, PublishTimesOut
<1>1. Got' = Got
  BY DEF Got, mqttVars
<1>2. mishaps' \in 0..MaxMishaps
  BY MishapType DEF IInv, TypeOK
<1>3. TypeOK'
  BY <1>2 DEF IInv, TypeOK, CurrentIsSound, spoolVars, mqttVars, Steps, noteVars
<1>4. PublishedWasReceived'
  BY DEF IInv, TypeOK, CurrentIsGot, Got, PublishedWasReceived, spoolVars, mqttVars
<1>5. QED
  BY <1>1, <1>3, <1>4 DEF IInv, OutboxIsKept, SentIsGot, AwaitsLast, CurrentIsGot,
     CurrentIsSound, DiscardIsFiled, RestIsPending, Promised, spoolVars, mqttVars

LEMMA RemovePendingHolds == ASSUME IInv, RemovePending PROVE IInv' /\ Promised
<1>1. current \in Got /\ current \in Records \ unreadable /\ current \notin rest
  BY DEF IInv, CurrentIsGot, CurrentIsSound, RestIsPending, RemovePending
<1>2. Got' = Got
  BY DEF RemovePending, Got, mqttVars
<1>3. TypeOK'
  BY <1>1 DEF IInv, TypeOK, RemovePending, mqttVars, Steps, noteVars
<1>4. OutboxIsKept' /\ SentIsGot'
  BY <1>1, <1>2 DEF IInv, OutboxIsKept, SentIsGot, RemovePending, mqttVars
<1>5. RestIsPending' /\ CurrentIsGot' /\ CurrentIsSound' /\ AwaitsLast' /\ DiscardIsFiled'
      /\ PublishedWasReceived'
  BY <1>1, <1>2 DEF IInv, RestIsPending, CurrentIsGot, CurrentIsSound, AwaitsLast,
     DiscardIsFiled, PublishedWasReceived, RemovePending, mqttVars
<1>6. Promised
  BY <1>1, <1>2 DEF Promised, RemovePending
<1>7. QED
  BY <1>3, <1>4, <1>5, <1>6 DEF IInv

LEMMA EndReplayType ==
    ASSUME TypeOK, NEW place \in Places, EndReplay(place)
    PROVE  handler' \in [Records -> Places]
  BY DEF TypeOK, EndReplay

(* The replay ends: done, after a failure whose attempt is written back,   *)
(* or because that failed as well.                                         *)
LEMMA ReplayEnds ==
    ASSUME IInv, WriteAttempt \/ ReplayDone \/ FileUnreadableFails \/ WriteAttemptFails
    PROVE  IInv' /\ Promised
<1> USE DEF WriteAttempt, ReplayDone, FileUnreadableFails, WriteAttemptFails
<1>1. Got' = Got
  BY DEF Got, mqttVars
<1>2. /\ mishaps' \in 0..MaxMishaps
      /\ handler' \in [Records -> Places]
  BY MishapType, EndReplayType DEF IInv, TypeOK, Places
<1>3. /\ step' = "off" /\ owner' = Timer /\ rest' = {} /\ current' = NoRecord
  BY DEF EndReplay
<1>4. pending' = pending \/ (pending' = pending \cup {current} /\ current \in Records)
  BY DEF IInv, CurrentIsSound, spoolVars
<1>5. TypeOK'
  BY <1>2, <1>3, <1>4 DEF IInv, TypeOK, spoolVars, mqttVars, Steps, noteVars
<1>6. Promised
  BY <1>1, <1>4 DEF Promised, spoolVars
<1>7. QED
  BY <1>1, <1>3, <1>4, <1>5, <1>6 DEF IInv, OutboxIsKept, SentIsGot, AwaitsLast, CurrentIsGot,
     CurrentIsSound, DiscardIsFiled, RestIsPending, PublishedWasReceived, spoolVars, mqttVars
-----------------------------------------------------------------------------
LEMMA ConnectionHolds ==
    ASSUME IInv, Connect \/ Disconnect \/ NoticeDisconnect
    PROVE  IInv' /\ Promised
<1> USE DEF Connect, Disconnect, NoticeDisconnect
<1>1. Got' = Got
  BY DEF Got
<1>2. mishaps' \in 0..MaxMishaps
  BY MishapType DEF IInv, TypeOK
<1>3. outbox' = outbox /\ sent' \in 0..Len(outbox)
  <2>1. Len(outbox) \in Nat /\ sent \in 0..Len(outbox)
    BY LenProperties DEF IInv, TypeOK
  <2>2. QED
    BY <2>1
<1>4. step' \in Steps /\ owner' \in Records \cup {Timer} /\ rest' \subseteq Records
      /\ current' \in Records \cup {NoRecord}
  BY DEF IInv, TypeOK, replayVars, Steps
<1>5. TypeOK'
  BY <1>2, <1>3, <1>4 DEF IInv, TypeOK, spoolVars, noteVars
<1>6. QED
  BY <1>1, <1>5 DEF IInv, OutboxIsKept, SentIsGot, AwaitsLast, CurrentIsGot, CurrentIsSound,
     DiscardIsFiled, RestIsPending, PublishedWasReceived, Promised, spoolVars, replayVars

LEMMA BrokerReceivesHolds == ASSUME IInv, BrokerReceives PROVE IInv' /\ Promised
<1> DEFINE r == outbox[sent + 1]
<1>1. sent + 1 \in 1..Len(outbox) /\ sent \in Nat /\ r \in Records
  BY DEF IInv, TypeOK, BrokerReceives
<1>2. r \in pending \cup Got
  BY <1>1 DEF IInv, OutboxIsKept
<1>3. received' = [received EXCEPT ![r] = @ + 1] /\ received \in [Records -> Nat]
  BY DEF BrokerReceives, IInv, TypeOK
<1>4. Got' = Got \cup {r}
  BY <1>1, <1>3 DEF Got
<1>5. TypeOK'
  BY <1>1, <1>3 DEF IInv, TypeOK, BrokerReceives, spoolVars, replayVars, noteVars
<1>6. Promised
  BY <1>1, <1>2, <1>4 DEF Promised, BrokerReceives, spoolVars
<1>7. OutboxIsKept' /\ SentIsGot' /\ AwaitsLast'
  BY <1>1, <1>4 DEF IInv, OutboxIsKept, SentIsGot, AwaitsLast, BrokerReceives, spoolVars,
     replayVars
<1>8. PublishedWasReceived'
  BY <1>1, <1>3 DEF IInv, TypeOK, PublishedWasReceived, BrokerReceives, spoolVars
<1>9. QED
  BY <1>4, <1>5, <1>6, <1>7, <1>8 DEF IInv, CurrentIsGot, CurrentIsSound, DiscardIsFiled,
     RestIsPending, BrokerReceives, spoolVars, replayVars

LEMMA BrokerAcksHolds == ASSUME IInv, BrokerAcks PROVE IInv' /\ Promised
<1>1. outbox \in Seq(Records) /\ sent \in 0..Len(outbox) /\ sent > 0 /\ outbox # <<>>
      /\ Len(outbox) \in Nat
  BY DEF IInv, TypeOK, BrokerAcks
<1>2. /\ outbox' \in Seq(Records) /\ Len(outbox') = Len(outbox) - 1
      /\ \A i \in 1..(Len(outbox) - 1) : outbox'[i] = outbox[i + 1]
  BY <1>1, HeadTailProperties DEF BrokerAcks
<1>3. Got' = Got
  BY DEF BrokerAcks, Got
<1>4. TypeOK'
  BY <1>1, <1>2 DEF IInv, TypeOK, BrokerAcks, spoolVars, Steps, noteVars
<1>5. OutboxIsKept' /\ SentIsGot'
  BY <1>1, <1>2, <1>3 DEF IInv, OutboxIsKept, SentIsGot, BrokerAcks, spoolVars
<1>6. AwaitsLast'
  BY <1>1, <1>2 DEF IInv, AwaitsLast, BrokerAcks
<1>7. CurrentIsGot'
  BY <1>1, <1>3 DEF IInv, AwaitsLast, SentIsGot, CurrentIsGot, BrokerAcks
<1>8. CurrentIsSound' /\ DiscardIsFiled' /\ RestIsPending' /\ PublishedWasReceived'
  BY <1>3 DEF IInv, CurrentIsSound, DiscardIsFiled, RestIsPending, PublishedWasReceived,
     BrokerAcks, spoolVars
<1>9. QED
  BY <1>3, <1>4, <1>5, <1>6, <1>7, <1>8 DEF IInv, Promised, BrokerAcks, spoolVars

(* A crash forgets what is in memory, and may leave files that do not      *)
(* parse.                                                                  *)
LEMMA CrashHolds == ASSUME IInv, Crash PROVE IInv' /\ Promised
<1> USE DEF Crash, Restart, PowerFails, UnhandledRejection, Stop
<1>1. Got' = Got
  BY DEF Got
<1>2. mishaps' \in 0..MaxMishaps
  BY MishapType DEF IInv, TypeOK
<1>3. handler' \in [Records -> Places]
  BY DEF IInv, TypeOK, Places
<1>4. unreadable' \subseteq pending
  BY DEF IInv, TypeOK
<1>5. outbox' = <<>> /\ Len(outbox') = 0 /\ sent' = 0 /\ step' = "off" /\ rest' = {}
      /\ owner' = Timer /\ current' = NoRecord /\ link' = FALSE /\ connected' = FALSE
      /\ UNCHANGED <<pending, published, evidence, received, noteVars>>
  BY DEF noteVars
<1>6. outbox' \in Seq(Records) /\ sent' \in 0..Len(outbox')
  BY <1>5, EmptySeq
<1>7. TypeOK'
  BY <1>2, <1>3, <1>4, <1>5, <1>6 DEF IInv, TypeOK, Steps, noteVars
<1>8. QED
  BY <1>1, <1>5, <1>7 DEF IInv, OutboxIsKept, SentIsGot, AwaitsLast, CurrentIsGot,
     CurrentIsSound, DiscardIsFiled, RestIsPending, PublishedWasReceived, Promised
-----------------------------------------------------------------------------
LEMMA InitHolds == Init => IInv /\ Delivery!Init
<1> SUFFICES ASSUME Init PROVE IInv /\ Delivery!Init
  OBVIOUS
<1>1. TypeOK
  <2>1. outbox \in Seq(Records) /\ sent \in 0..Len(outbox)
    BY EmptySeq DEF Init
  <2>2. mishaps \in 0..MaxMishaps
    BY SpoolAssumption DEF Init
  <2>3. handler \in [Records -> Places] /\ received \in [Records -> Nat]
        /\ ahead \in [Records -> SUBSET Records]
    BY DEF Init, Places
  <2>4. QED
    BY <2>1, <2>2, <2>3 DEF Init, TypeOK, Steps
<1>2. IInv
  BY <1>1 DEF Init, IInv, OutboxIsKept, SentIsGot, AwaitsLast, CurrentIsGot,
     CurrentIsSound, DiscardIsFiled, RestIsPending, PublishedWasReceived
<1>3. {r \in Records : received[r] > 0} = {}
  BY DEF Init
<1>4. QED
  BY <1>2, <1>3 DEF Init, Delivery!Init

LEMMA NextHolds == IInv /\ [Next]_vars => IInv' /\ Promised
<1> SUFFICES ASSUME IInv, [Next]_vars PROVE IInv' /\ Promised
  OBVIOUS
<1>1. CASE \E r \in Records : ArrivesRefused(r) \/ ArrivesAccepted(r) \/ HandlerFails(r)
  BY <1>1, HandlerMoves DEF HandlerFails
<1>2. CASE \E r \in Records : HandlerStep(r)
  BY <1>2, HandlerMoves, HandlerWrites, ReplayStarts DEF HandlerStep
<1>3. CASE ReplayOnTimer
  <2>1. CASE Records = {}
    <3>1. Got' = Got
      BY <1>3 DEF Got, ReplayOnTimer, StartReplay, mqttVars
    <3>2. TypeOK'
      BY <1>3 DEF IInv, TypeOK, ReplayOnTimer, StartReplay, Steps, spoolVars, mqttVars, noteVars
    <3>3. QED
      BY <1>3, <3>1, <3>2 DEF IInv, OutboxIsKept, SentIsGot, AwaitsLast, CurrentIsGot,
         CurrentIsSound, DiscardIsFiled, RestIsPending, PublishedWasReceived, Promised,
         ReplayOnTimer, StartReplay, spoolVars, mqttVars
  <2>2. QED
    BY <1>3, <2>1, ReplayStarts
<1>4. CASE ReplayStep
  BY <1>4, PublishHolds, FileUnreadableHolds, DiscardUnreadableHolds, MarkHolds,
     RemovePendingHolds, ReplayEnds DEF ReplayStep
<1>5. CASE ReplayFails
  BY <1>5, MarkHolds, ReplayEnds DEF ReplayFails
<1>6. CASE ClientStep \/ Disconnect \/ NoticeDisconnect
  BY <1>6, ConnectionHolds, BrokerAcksHolds DEF ClientStep
<1>7. CASE BrokerReceives
  BY <1>7, BrokerReceivesHolds
<1>8. CASE Crash
  BY <1>8, CrashHolds
<1>9. CASE UNCHANGED vars
  BY <1>9, HandlerOnly DEF vars, noteVars, IInv, TypeOK
<1>10. QED
  BY <1>1, <1>2, <1>3, <1>4, <1>5, <1>6, <1>7, <1>8, <1>9
     DEF Next, GatewayStep, EventLoop

(* Every variable of the spool keeps its type: in particular the replay    *)
(* never loses a file it has listed, whatever fails.                       *)
THEOREM SpoolTypeCorrect == Spec => []TypeOK
<1>1. IInv => TypeOK
  BY DEF IInv
<1> QED BY <1>1, InitHolds, NextHolds, PTL DEF Spec

(* A copy is filed as published only of what the broker has received.      *)
THEOREM SpoolPublishedWasReceived == Spec => []PublishedWasReceived
<1>1. IInv => PublishedWasReceived
  BY DEF IInv
<1> QED BY <1>1, InitHolds, NextHolds, PTL DEF Spec

(* The spool delivers at least once: through timeouts, drops, failed       *)
(* writes, crashes and damaged files, a record leaves the disk only after  *)
(* the broker received it or it was filed as evidence.                     *)
THEOREM SpoolImplementsDelivery == Spec => ImplementsDelivery
<1> QED BY InitHolds, NextHolds, PromisedIsAbstract, PTL
        DEF Spec, ImplementsDelivery, Delivery!Spec
-----------------------------------------------------------------------------
(***************************************************************************)
(* Order.  A record that was on the disk when another payload arrived, in  *)
(* a later millisecond, and that is not settled yet, is still on the disk; *)
(* a listing that has the later one has it too, before it; and the later   *)
(* one is not with the MQTT client.                                        *)
(***************************************************************************)
Settled == Got \cup evidence

Overtakes(q, r) ==
    /\ q \in ahead[r] /\ StampOf[q] < StampOf[r]
    /\ q \notin Settled

BehindOnDisk == \A r, q \in Records : Overtakes(q, r) => q \in pending

BehindInListing ==
    \A r, q \in Records : Overtakes(q, r) /\ r \in rest =>
        q \in rest \/ (q = current /\ step # "next")

BehindInOutbox ==
    \A r, q \in Records : Overtakes(q, r) =>
        \A i \in 1..Len(outbox) : outbox[i] # r

(* A payload that has not arrived is nowhere.                              *)
FreshIsNowhere == \A r \in Records : handler[r] = "none" => r \notin pending \cup Got

CurrentIsKnown == step \in {"await", "failed"} => current \in pending \cup Got

OInv == BehindOnDisk /\ BehindInListing /\ BehindInOutbox /\ FreshIsNowhere /\ CurrentIsKnown

(* What was settled stays so, and what was not behind before is not now.   *)
LEMMA OvertakesLess ==
    ASSUME Settled \subseteq Settled', ahead' = ahead
    PROVE  \A r, q : Overtakes(q, r)' => Overtakes(q, r)
  BY DEF Overtakes

LEMMA GotGrows == IInv /\ [Next]_vars => Got \subseteq Got' /\ Settled \subseteq Settled'
  BY NextHolds DEF Promised, Settled

(* A payload arrives: everything on the disk is ahead of it, and it is not *)
(* in a listing or with the client.                                        *)
LEMMA ArrivesOrder ==
    ASSUME IInv, OInv, NEW r \in Records, ArrivesRefused(r) \/ ArrivesAccepted(r)
    PROVE  OInv'
<1>1. /\ Arrives(r) /\ UNCHANGED <<spoolVars, replayVars, mqttVars>>
      /\ handler' \in [Records -> Places]
      /\ \A q \in Records : handler'[q] = "none" => handler[q] = "none"
  BY DEF IInv, TypeOK, ArrivesRefused, ArrivesAccepted, Arrives, Goes, Places
<1>2. Got' = Got /\ Settled' = Settled
  BY <1>1 DEF Got, Settled, mqttVars, spoolVars
<1>3. r \notin pending \cup Got /\ r \notin rest /\ \A i \in 1..Len(outbox) : outbox[i] # r
  BY <1>1 DEF Arrives, OInv, FreshIsNowhere, IInv, RestIsPending, OutboxIsKept
<1>4. \A p, q \in Records : Overtakes(q, p)' => Overtakes(q, p) \/ (p = r /\ q \in pending)
  BY <1>1, <1>2 DEF Arrives, Overtakes, IInv, TypeOK
<1>5. QED
  BY <1>1, <1>2, <1>3, <1>4 DEF OInv, BehindOnDisk, BehindInListing, BehindInOutbox,
     FreshIsNowhere, CurrentIsKnown, spoolVars, replayVars, mqttVars

(* The rest of a handler.                                                  *)
LEMMA HandlerOrder ==
    ASSUME IInv, OInv, Settled \subseteq Settled', NEW r \in Records,
           \/ EnqueueFails(r) \/ LeaveReplayToOthers(r) \/ RejectIncomingFails(r)
           \/ EmitHealth(r) \/ EmitHealthFails(r) \/ Enqueue(r) \/ RejectIncoming(r)
    PROVE  OInv'
<1> USE DEF EnqueueFails, LeaveReplayToOthers, RejectIncomingFails, EmitHealth,
            EmitHealthFails, Enqueue, RejectIncoming
<1>1. /\ UNCHANGED <<replayVars, mqttVars, noteVars>> /\ pending \subseteq pending'
      /\ pending' \subseteq pending \cup {r} /\ handler[r] # "none"
  BY DEF spoolVars
<1>2. \A q \in Records : handler'[q] = "none" => handler[q] = "none" /\ q # r
  BY <1>1 DEF IInv, TypeOK, Goes
<1>3. Got' = Got
  BY <1>1 DEF Got, mqttVars
<1>4. QED
  BY <1>1, <1>2, <1>3, OvertakesLess DEF OInv, BehindOnDisk, BehindInListing,
     BehindInOutbox, FreshIsNowhere, CurrentIsKnown, replayVars, mqttVars, noteVars

(* A listing has everything on the disk.                                   *)
LEMMA StartOrder ==
    ASSUME IInv, OInv, NEW who,
           \/ StartReplay(who) /\ (UNCHANGED handler \/ handler' = [handler EXCEPT ![who] = "replaying"])
           \/ Connect
    PROVE  OInv'
<1>1. /\ UNCHANGED <<spoolVars, outbox, received, noteVars>>
      /\ UNCHANGED replayVars \/ (rest' = pending /\ step' = "next")
      /\ \A q \in Records : handler'[q] = "none" => handler[q] = "none"
  BY DEF StartReplay, Connect, mqttVars, IInv, TypeOK
<1>2. Got' = Got /\ Settled' = Settled
  BY <1>1 DEF Got, Settled, spoolVars
<1>3. QED
  BY <1>1, <1>2, OvertakesLess DEF OInv, BehindOnDisk, BehindInListing, BehindInOutbox,
     FreshIsNowhere, CurrentIsKnown, spoolVars, replayVars, noteVars

(* The first file of the listing is taken: nothing is behind it.           *)
LEMMA PublishOrder == ASSUME IInv, OInv, Publish PROVE OInv'
<1>1. PICK r \in FirstOf(rest) \ unreadable :
        current' = r /\ rest' = rest \ {r} /\ outbox' = Append(outbox, r)
  BY DEF Publish
<1>2. r \in rest /\ r \in Records /\ r \in pending /\ (\A q \in rest : StampOf[r] <= StampOf[q])
  BY <1>1 DEF FirstOf, IInv, RestIsPending, TypeOK
<1>3. Got' = Got /\ Settled' = Settled
  BY DEF Publish, Got, Settled, spoolVars
<1>4. \A q \in Records : ~Overtakes(q, r)
  <2> SUFFICES ASSUME NEW q \in Records, Overtakes(q, r) PROVE FALSE
    OBVIOUS
  <2>1. q \in rest
    BY <1>2 DEF OInv, BehindInListing, Publish
  <2>2. StampOf[q] \in Nat /\ StampOf[r] \in Nat
    BY <1>2, SpoolAssumption
  <2>3. QED
    BY <1>2, <2>1, <2>2 DEF Overtakes
<1>5. \A p, q \in Records : Overtakes(q, p)' => Overtakes(q, p)
  BY <1>3, OvertakesLess DEF Publish, noteVars
<1>6. /\ Len(outbox') = Len(outbox) + 1 /\ Len(outbox) \in Nat
      /\ outbox'[Len(outbox) + 1] = r
      /\ \A i \in 1..Len(outbox) : outbox'[i] = outbox[i]
  BY <1>1, <1>2, AppendProperties DEF IInv, TypeOK
<1>7. BehindInOutbox'
  BY <1>4, <1>5, <1>6 DEF OInv, BehindInOutbox
<1>8. BehindInListing'
  BY <1>1, <1>5 DEF OInv, BehindInListing, Publish
<1>9. QED
  BY <1>1, <1>2, <1>3, <1>5, <1>7, <1>8 DEF OInv, BehindOnDisk, FreshIsNowhere,
     CurrentIsKnown, Publish, spoolVars

LEMMA FileUnreadableOrder ==
    ASSUME IInv, OInv, Settled \subseteq Settled', FileUnreadable PROVE OInv'
<1>1. PICK r \in FirstOf(rest) : current' = r /\ rest' = rest \ {r}
  BY DEF FileUnreadable
<1>2. Got' = Got
  BY DEF FileUnreadable, Got, mqttVars
<1>3. \A p, q \in Records : Overtakes(q, p)' => Overtakes(q, p)
  BY OvertakesLess DEF FileUnreadable, noteVars
<1>4. QED
  BY <1>1, <1>2, <1>3 DEF OInv, BehindOnDisk, BehindInListing, BehindInOutbox,
     FreshIsNowhere, CurrentIsKnown, FileUnreadable, mqttVars

(* The replay goes on with the listing only when the record it was at is   *)
(* settled.                                                                *)
LEMMA ReplayOrder ==
    ASSUME IInv, OInv, Settled \subseteq Settled',
           \/ DiscardUnreadable \/ RemovePending \/ TrimPublished
           \/ MarkPublished \/ MarkPublishedFails \/ PublishTimesOut
    PROVE  OInv'
<1> USE DEF DiscardUnreadable, RemovePending, TrimPublished, MarkPublished,
            MarkPublishedFails, PublishTimesOut
<1>1. UNCHANGED <<handler, rest, current, mqttVars, noteVars>>
  OBVIOUS
<1>2. Got' = Got
  BY <1>1 DEF Got, mqttVars
<1>3. \A p, q \in Records : Overtakes(q, p)' => Overtakes(q, p)
  BY <1>1, OvertakesLess DEF noteVars
<1>4. /\ pending' \subseteq pending
      /\ \A q \in pending : q \in pending' \/ (q = current /\ q \in Settled)
  BY DEF IInv, DiscardIsFiled, CurrentIsGot, Settled, spoolVars
<1>5. step' = "next" => current \in Settled
  BY DEF IInv, DiscardIsFiled, CurrentIsGot, Settled
<1>6. BehindOnDisk'
  BY <1>3, <1>4 DEF OInv, BehindOnDisk, Overtakes
<1>7. BehindInListing'
  <2> SUFFICES ASSUME NEW r \in Records, NEW q \in Records, Overtakes(q, r)', r \in rest'
               PROVE  (q \in rest \/ (q = current /\ step # "next"))'
    BY DEF BehindInListing
  <2>1. Overtakes(q, r) /\ r \in rest /\ q \notin Settled
    BY <1>1, <1>3 DEF Overtakes
  <2>2. q \in rest \/ q = current
    BY <2>1 DEF OInv, BehindInListing
  <2>3. QED
    BY <1>1, <1>5, <2>1, <2>2
<1>8. CurrentIsKnown'
  BY <1>1, <1>2, <1>4 DEF IInv, OInv, CurrentIsKnown, CurrentIsGot, spoolVars
<1>9. QED
  BY <1>1, <1>2, <1>3, <1>4, <1>6, <1>7, <1>8 DEF OInv, BehindInOutbox, FreshIsNowhere, mqttVars

LEMMA EndsOrder ==
    ASSUME IInv, OInv, Settled \subseteq Settled',
           WriteAttempt \/ ReplayDone \/ FileUnreadableFails \/ WriteAttemptFails
    PROVE  OInv'
<1> USE DEF WriteAttempt, ReplayDone, FileUnreadableFails, WriteAttemptFails
<1>1. /\ UNCHANGED <<mqttVars, noteVars>> /\ rest' = {} /\ step' = "off"
      /\ \A q \in Records : handler'[q] = "none" => handler[q] = "none"
  BY DEF EndReplay, IInv, TypeOK
<1>2. Got' = Got
  BY <1>1 DEF Got, mqttVars
<1>3. \A p, q \in Records : Overtakes(q, p)' => Overtakes(q, p)
  BY <1>1, OvertakesLess DEF noteVars
<1>4. pending \subseteq pending' /\ pending' \subseteq pending \cup Got
  BY DEF OInv, CurrentIsKnown, spoolVars
<1>5. FreshIsNowhere'
  BY <1>1, <1>2, <1>4 DEF OInv, FreshIsNowhere
<1>6. QED
  BY <1>1, <1>3, <1>4, <1>5 DEF OInv, BehindOnDisk, BehindInListing, BehindInOutbox,
     CurrentIsKnown, mqttVars

(* The broker receives only what nothing is behind of.                     *)
LEMMA ClientOrder ==
    ASSUME IInv, OInv, Settled \subseteq Settled',
           BrokerReceives \/ BrokerAcks \/ Disconnect \/ NoticeDisconnect
    PROVE  OInv'
<1> USE DEF BrokerReceives, BrokerAcks, Disconnect, NoticeDisconnect
<1>1. /\ UNCHANGED <<handler, spoolVars, rest, current, noteVars>>
      /\ step' = step \/ (step = "await" /\ step' = "mark")
  BY DEF replayVars
<1>2. \A p, q \in Records : Overtakes(q, p)' => Overtakes(q, p)
  BY <1>1, OvertakesLess DEF noteVars
<1>3. BehindOnDisk' /\ BehindInListing'
  BY <1>1, <1>2 DEF OInv, BehindOnDisk, BehindInListing, spoolVars
<1>4. BehindInOutbox'
  <2>1. CASE outbox' = outbox
    BY <1>2, <2>1 DEF OInv, BehindInOutbox
  <2>2. CASE outbox' = Tail(outbox) /\ outbox # <<>>
    <3>1. /\ Len(outbox') = Len(outbox) - 1 /\ Len(outbox) \in Nat
          /\ \A i \in 1..(Len(outbox) - 1) : outbox'[i] = outbox[i + 1]
      BY <2>2, HeadTailProperties, LenProperties DEF IInv, TypeOK
    <3>2. QED
      BY <1>2, <3>1 DEF OInv, BehindInOutbox
  <2>3. QED
    BY <2>1, <2>2 DEF IInv, TypeOK
<1>5. Got \subseteq Got' /\ \A q \in Got' \ Got : q \in pending \cup Got
  <2>1. CASE BrokerReceives
    <3>1. outbox[sent + 1] \in pending \cup Got
      BY <2>1 DEF IInv, TypeOK, OutboxIsKept
    <3>2. Got' = Got \cup {outbox[sent + 1]}
      BY <2>1, <3>1 DEF Got, IInv, TypeOK
    <3>3. QED
      BY <3>1, <3>2
  <2>2. CASE received' = received
    BY <2>2 DEF Got
  <2>3. QED
    BY <2>1, <2>2
<1>6. FreshIsNowhere' /\ CurrentIsKnown'
  BY <1>1, <1>5 DEF OInv, FreshIsNowhere, CurrentIsKnown, spoolVars
<1>7. QED
  BY <1>3, <1>4, <1>6 DEF OInv

LEMMA CrashOrder == ASSUME IInv, OInv, Crash PROVE OInv'
<1> USE DEF Crash, Restart, PowerFails, UnhandledRejection, Stop
<1>1. /\ rest' = {} /\ step' = "off" /\ Len(outbox') = 0
      /\ UNCHANGED <<pending, evidence, received, noteVars>>
      /\ \A q \in Records : handler'[q] = "none" => handler[q] = "none"
  OBVIOUS
<1>2. Got' = Got /\ Settled' = Settled
  BY <1>1 DEF Got, Settled
<1>3. QED
  BY <1>1, <1>2, OvertakesLess DEF OInv, BehindOnDisk, BehindInListing, BehindInOutbox,
     FreshIsNowhere, CurrentIsKnown, noteVars

LEMMA InitOrder == Init => OInv
  BY DEF Init, OInv, BehindOnDisk, BehindInListing, BehindInOutbox, FreshIsNowhere,
     CurrentIsKnown, Overtakes, Got

LEMMA NextOrder == IInv /\ OInv /\ [Next]_vars => OInv'
<1> SUFFICES ASSUME IInv, OInv, [Next]_vars PROVE OInv'
  OBVIOUS
<1>0. Settled \subseteq Settled'
  BY GotGrows
<1>1. CASE \E r \in Records : ArrivesRefused(r) \/ ArrivesAccepted(r) \/ HandlerFails(r)
  BY <1>0, <1>1, ArrivesOrder, HandlerOrder DEF HandlerFails
<1>2. CASE \E r \in Records : HandlerStep(r)
  BY <1>0, <1>2, HandlerOrder, StartOrder DEF HandlerStep, ReplayOnIngest, Goes
<1>3. CASE ReplayOnTimer
  BY <1>3, StartOrder DEF ReplayOnTimer
<1>4. CASE ReplayStep
  BY <1>0, <1>4, PublishOrder, FileUnreadableOrder, ReplayOrder, EndsOrder DEF ReplayStep
<1>5. CASE ReplayFails
  BY <1>0, <1>5, ReplayOrder, EndsOrder DEF ReplayFails
<1>6. CASE ClientStep \/ Disconnect \/ NoticeDisconnect \/ BrokerReceives
  BY <1>0, <1>6, StartOrder, ClientOrder DEF ClientStep
<1>7. CASE Crash
  BY <1>7, CrashOrder
<1>8. CASE UNCHANGED vars
  <2>1. Got' = Got /\ Settled' = Settled
    BY <1>8 DEF vars, Got, Settled, mqttVars, spoolVars
  <2>2. QED
    BY <1>8, <2>1, OvertakesLess DEF vars, OInv, BehindOnDisk, BehindInListing,
       BehindInOutbox, FreshIsNowhere, CurrentIsKnown, spoolVars, replayVars, mqttVars, noteVars
<1>9. QED
  BY <1>1, <1>2, <1>3, <1>4, <1>5, <1>6, <1>7, <1>8 DEF Next, GatewayStep, EventLoop

(* In every instance and under every fault, payloads keep their order: one *)
(* whose file was pending when another arrived in a later millisecond      *)
(* reaches the broker before it, or is evidence of a damaged file.         *)
THEOREM SpoolOrderIsKept == Spec => OrderIsKept
<1> DEFINE Step == \A r \in Records : received[r] = 0 /\ received'[r] > 0 =>
        \A q \in ahead[r] :
            StampOf[q] < StampOf[r] => received[q] > 0 \/ q \in evidence
<1>1. IInv /\ OInv /\ [Next]_vars => Step
  <2> SUFFICES ASSUME IInv, OInv, [Next]_vars, NEW r \in Records,
                      received[r] = 0, received'[r] > 0,
                      NEW q \in ahead[r], StampOf[q] < StampOf[r]
               PROVE  received[q] > 0 \/ q \in evidence
    OBVIOUS
  <2>1. q \in Records /\ received'[r] # received[r]
    BY DEF IInv, TypeOK
  <2>2. BrokerReceives
    <3>1. received' # received
      BY <2>1
    <3>2. QED
      BY <3>1 DEF Next, vars, mqttVars, GatewayStep, EventLoop, HandlerFails, HandlerStep,
         ReplayStep, ReplayFails, ClientStep, Crash, Restart, PowerFails,
         UnhandledRejection, Stop, ArrivesRefused, ArrivesAccepted, Arrives, Enqueue,
         EnqueueFails, LeaveReplayToOthers, RejectIncoming, RejectIncomingFails,
         ReplayOnIngest, ReplayOnTimer, StartReplay, Publish, FileUnreadable,
         DiscardUnreadable, PublishTimesOut, MarkPublished, RemovePending, TrimPublished,
         MarkPublishedFails, WriteAttempt, ReplayDone, FileUnreadableFails,
         WriteAttemptFails, EmitHealth, EmitHealthFails, Connect, Disconnect,
         NoticeDisconnect, BrokerAcks
  <2>3. sent + 1 \in 1..Len(outbox) /\ outbox[sent + 1] = r
    BY <2>1, <2>2 DEF BrokerReceives, IInv, TypeOK
  <2>4. ~Overtakes(q, r)
    BY <2>1, <2>3 DEF OInv, BehindInOutbox
  <2>5. QED
    BY <2>1, <2>4 DEF Overtakes, Settled, Got
<1> HIDE DEF Step
<1>2. Spec => [][Step]_vars
  BY <1>1, InitHolds, NextHolds, InitOrder, NextOrder, PTL DEF Spec
<1> QED BY <1>2 DEF OrderIsKept, Step
-----------------------------------------------------------------------------
(***************************************************************************)
(* Once.  Without a fault every file can be read, no replay fails, and the *)
(* client holds at most the one publication that is awaited.               *)
(***************************************************************************)
AtHand(r) == step \in {"await", "mark", "remove"} /\ r = current

CalmReplay == unreadable = {} /\ step \notin {"failed", "discard"}

(* The publication awaited is the first of its record.                     *)
OneAwaited ==
    /\ step = "await" => /\ Len(outbox) = 1 /\ outbox[1] = current
                         /\ received[current] = sent
    /\ step # "await" => Len(outbox) = 0

(* Only the record the replay is at is both on the disk and received.      *)
PendingIsNew ==
    /\ \A r \in pending : received[r] = 0 \/ AtHand(r)
    /\ \A r \in Records : AtHand(r) => r \in pending

(* What is not stored yet, or will not be, is nowhere else.                *)
UnstoredIsNowhere ==
    \A r \in Records : handler[r] \in {"none", "counted", "filing"} =>
        r \notin pending \cup evidence /\ received[r] = 0

AtMostOnce == \A r \in Records : received[r] <= 1

FiledIsNotStored == \A r \in evidence : r \notin pending /\ received[r] = 0

CalmInv ==
    mishaps = 0 =>
        /\ CalmReplay /\ OneAwaited /\ PendingIsNew /\ UnstoredIsNowhere
        /\ AtMostOnce /\ FiledIsNotStored

Calm == mishaps = 0 /\ mishaps' = 0

CalmParts ==
    /\ CalmReplay /\ OneAwaited /\ PendingIsNew /\ UnstoredIsNowhere
    /\ AtMostOnce /\ FiledIsNotStored

LEMMA NoMishap == ASSUME NEW f, Calm, Mishap(f) PROVE FALSE
  BY DEF Calm, Mishap

(* A payload arrives, its handler goes on, or files it.                    *)
LEMMA HandlerCalm ==
    ASSUME IInv, CalmParts, NEW r \in Records,
           \/ ArrivesRefused(r) \/ ArrivesAccepted(r)
           \/ Enqueue(r) \/ LeaveReplayToOthers(r) \/ RejectIncoming(r) \/ EmitHealth(r)
    PROVE  CalmParts'
<1> USE DEF CalmParts
<1>1. /\ UNCHANGED <<unreadable, replayVars, mqttVars>>
      /\ handler' \in [Records -> Places] /\ handler \in [Records -> Places]
      /\ \A q \in Records : q # r => handler'[q] = handler[q]
  BY DEF ArrivesRefused, ArrivesAccepted, Arrives, Enqueue, LeaveReplayToOthers, RejectIncoming,
     EmitHealth, Goes, spoolVars, IInv, TypeOK, Places
<1>2. CalmReplay' /\ OneAwaited' /\ AtMostOnce'
  BY <1>1 DEF CalmReplay, OneAwaited, AtMostOnce, replayVars, mqttVars
<1>3. \A q : AtHand(q)' <=> AtHand(q)
  BY <1>1 DEF AtHand, replayVars
<1>4. CASE UNCHANGED <<pending, evidence>>
  <2>1. handler'[r] \in {"none", "counted", "filing"} => handler[r] \in {"none", "counted", "filing"}
    BY <1>4 DEF ArrivesRefused, ArrivesAccepted, Arrives, Enqueue, LeaveReplayToOthers,
       RejectIncoming, EmitHealth, Goes, IInv, TypeOK
  <2>2. UnstoredIsNowhere'
    BY <1>1, <1>4, <2>1 DEF UnstoredIsNowhere, mqttVars
  <2> QED BY <1>1, <1>2, <1>3, <1>4, <2>2 DEF PendingIsNew, FiledIsNotStored, mqttVars
<1>5. CASE Enqueue(r)
  <2>1. /\ handler[r] = "counted" /\ handler'[r] = "stored"
        /\ pending' = pending \cup {r} /\ UNCHANGED evidence
    BY <1>1, <1>5 DEF Enqueue, Goes
  <2>2. r \notin evidence /\ received[r] = 0
    BY <2>1 DEF UnstoredIsNowhere
  <2>3. UnstoredIsNowhere'
    BY <1>1, <2>1 DEF UnstoredIsNowhere, mqttVars
  <2>4. PendingIsNew' /\ FiledIsNotStored'
    BY <1>1, <1>3, <2>1, <2>2 DEF PendingIsNew, FiledIsNotStored, mqttVars
  <2> QED BY <1>2, <2>3, <2>4
<1>6. CASE RejectIncoming(r)
  <2>1. /\ handler[r] = "filing" /\ handler'[r] = "done"
        /\ evidence' = evidence \cup {r} /\ UNCHANGED pending
    BY <1>1, <1>6 DEF RejectIncoming, Goes
  <2>2. r \notin pending /\ received[r] = 0
    BY <2>1 DEF UnstoredIsNowhere
  <2>3. UnstoredIsNowhere'
    BY <1>1, <2>1 DEF UnstoredIsNowhere, mqttVars
  <2>4. PendingIsNew' /\ FiledIsNotStored'
    BY <1>1, <1>3, <2>1, <2>2 DEF PendingIsNew, FiledIsNotStored, mqttVars
  <2> QED BY <1>2, <2>3, <2>4
<1> QED BY <1>4, <1>5, <1>6 DEF ArrivesRefused, ArrivesAccepted, Arrives, LeaveReplayToOthers,
           EmitHealth, spoolVars

(* A replay starts when none runs, or ends when its listing is done.       *)
LEMMA StartCalm ==
    ASSUME IInv, CalmParts,
           \/ \E r \in Records : ReplayOnIngest(r)
           \/ ReplayOnTimer \/ Connect \/ NoticeDisconnect \/ ReplayDone
    PROVE  CalmParts'
<1> USE DEF CalmParts
<1>1. /\ UNCHANGED <<spoolVars, outbox, sent, received>>
      /\ \/ UNCHANGED replayVars
         \/ step \in {"off", "next"} /\ step' \in {"off", "next"}
  BY DEF ReplayOnIngest, ReplayOnTimer, StartReplay, CanReplay, Connect, NoticeDisconnect,
     ReplayDone, EndReplay, mqttVars
<1>2. \A q \in Records : handler'[q] \in {"none", "counted", "filing"} => handler'[q] = handler[q]
  BY DEF ReplayOnIngest, ReplayOnTimer, StartReplay, Connect, NoticeDisconnect, ReplayDone,
     EndReplay, Goes, IInv, TypeOK
<1>3. \A q : AtHand(q)' <=> AtHand(q)
  BY <1>1 DEF AtHand, replayVars
<1>4. CalmReplay' /\ OneAwaited'
  BY <1>1 DEF CalmReplay, OneAwaited, spoolVars, replayVars
<1>5. UnstoredIsNowhere'
  BY <1>1, <1>2 DEF UnstoredIsNowhere, spoolVars
<1> QED BY <1>1, <1>3, <1>4, <1>5 DEF PendingIsNew, AtMostOnce, FiledIsNotStored, spoolVars

LEMMA PublishCalm == ASSUME IInv, CalmParts, Publish PROVE CalmParts'
<1> USE DEF CalmParts
<1>1. PICK r \in FirstOf(rest) :
        current' = r /\ rest' = rest \ {r} /\ outbox' = Append(outbox, r)
  BY DEF Publish
<1>2. r \in pending /\ r \in Records
  BY <1>1 DEF FirstOf, IInv, RestIsPending, TypeOK
<1>3. /\ step = "next" /\ step' = "await"
      /\ UNCHANGED <<handler, spoolVars, sent, received>>
  BY DEF Publish
<1>4. received[r] = 0
  BY <1>2, <1>3 DEF PendingIsNew, AtHand
<1>5. Len(outbox) = 0 /\ sent = 0 /\ outbox = <<>>
  BY <1>3 DEF OneAwaited, IInv, TypeOK
<1>6. Len(outbox') = 1 /\ outbox'[1] = r
  BY <1>1, <1>5
<1>7. OneAwaited' /\ CalmReplay'
  BY <1>1, <1>3, <1>4, <1>5, <1>6 DEF OneAwaited, CalmReplay, spoolVars
<1>8. PendingIsNew'
  BY <1>1, <1>2, <1>3, <1>4 DEF PendingIsNew, AtHand, spoolVars
<1> QED BY <1>3, <1>7, <1>8 DEF UnstoredIsNowhere, AtMostOnce, FiledIsNotStored, spoolVars

(* The record published is filed and taken from the disk.                  *)
LEMMA MarkCalm ==
    ASSUME IInv, CalmParts, MarkPublished \/ RemovePending \/ TrimPublished
    PROVE  CalmParts'
<1> USE DEF CalmParts, MarkPublished, RemovePending, TrimPublished
<1>1. UNCHANGED <<handler, unreadable, evidence, current, mqttVars>> /\ pending' \subseteq pending
      /\ step \in {"mark", "remove", "trim"} /\ step' \in {"remove", "trim", "next"}
  BY DEF spoolVars
<1>2. CalmReplay' /\ OneAwaited'
  BY <1>1 DEF CalmReplay, OneAwaited, mqttVars
<1>3. PendingIsNew'
  BY DEF PendingIsNew, AtHand, mqttVars, spoolVars
<1> QED BY <1>1, <1>2, <1>3 DEF UnstoredIsNowhere, AtMostOnce, FiledIsNotStored, mqttVars

LEMMA ReceivesCalm == ASSUME IInv, CalmParts, BrokerReceives PROVE CalmParts'
<1> USE DEF CalmParts
<1>1. /\ sent < Len(outbox) /\ sent' = sent + 1
      /\ received' = [received EXCEPT ![outbox[sent + 1]] = @ + 1]
      /\ UNCHANGED <<handler, spoolVars, replayVars, outbox>>
  BY DEF BrokerReceives
<1>2. sent \in Nat /\ received \in [Records -> Nat] /\ Len(outbox) \in Nat
  BY DEF IInv, TypeOK
<1>3. step = "await" /\ Len(outbox) = 1 /\ sent = 0 /\ outbox[1] = current /\ received[current] = 0
  BY <1>1, <1>2 DEF OneAwaited
<1>4. current \in Records
  BY <1>3 DEF IInv, CurrentIsSound
<1>5. received'[current] = 1 /\ \A q \in Records : q # current => received'[q] = received[q]
  BY <1>1, <1>2, <1>3, <1>4
<1>6. AtHand(current) /\ \A q : AtHand(q)' <=> AtHand(q)
  BY <1>1, <1>3 DEF AtHand, replayVars
<1>7. current \in pending
  BY <1>4, <1>6 DEF PendingIsNew
<1>8. CalmReplay' /\ OneAwaited'
  BY <1>1, <1>3, <1>5 DEF CalmReplay, OneAwaited, spoolVars, replayVars
<1>9. PendingIsNew'
  BY <1>1, <1>5, <1>6 DEF PendingIsNew, spoolVars, IInv, TypeOK, AtHand
<1>10. UnstoredIsNowhere' /\ FiledIsNotStored'
  BY <1>1, <1>5, <1>7 DEF UnstoredIsNowhere, FiledIsNotStored, spoolVars, IInv, TypeOK
<1>11. AtMostOnce'
  BY <1>5 DEF AtMostOnce
<1> QED BY <1>8, <1>9, <1>10, <1>11

LEMMA AcksCalm == ASSUME IInv, CalmParts, BrokerAcks PROVE CalmParts'
<1> USE DEF CalmParts
<1>1. sent \in Nat /\ Len(outbox) \in Nat /\ outbox \in Seq(Records) /\ sent > 0 /\ sent <= Len(outbox)
  BY DEF IInv, TypeOK, BrokerAcks
<1>2. step = "await" /\ Len(outbox) = 1 /\ outbox # <<>>
  BY <1>1 DEF OneAwaited
<1>3. /\ outbox' = Tail(outbox) /\ step' = "mark"
      /\ UNCHANGED <<handler, spoolVars, current, received>>
  BY <1>2 DEF BrokerAcks
<1>4. Len(outbox') = 0
  BY <1>1, <1>2, <1>3
<1>5. CalmReplay' /\ OneAwaited'
  BY <1>3, <1>4 DEF CalmReplay, OneAwaited, spoolVars
<1>6. \A q : AtHand(q)' <=> AtHand(q)
  BY <1>2, <1>3 DEF AtHand
<1> QED BY <1>3, <1>5, <1>6 DEF PendingIsNew, UnstoredIsNowhere, AtMostOnce, FiledIsNotStored, spoolVars

LEMMA InitCalm == Init => CalmInv
  BY DEF Init, CalmInv, CalmReplay, OneAwaited, PendingIsNew, UnstoredIsNowhere, AtMostOnce,
     FiledIsNotStored, AtHand

LEMMA NextCalm == IInv /\ CalmInv /\ [Next]_vars => CalmInv'
<1> SUFFICES ASSUME IInv, CalmInv, [Next]_vars, mishaps' = 0 PROVE CalmParts'
  BY DEF CalmInv, CalmParts
<1>1. mishaps = 0
  <2>1. mishaps' = mishaps \/ mishaps' = mishaps + 1
    BY DEF Next, vars, GatewayStep, EventLoop, HandlerFails, HandlerStep,
         ReplayStep, ReplayFails, ClientStep, Crash, Restart, PowerFails,
         UnhandledRejection, Mishap, ArrivesRefused, ArrivesAccepted, Arrives, Enqueue,
         EnqueueFails, LeaveReplayToOthers, RejectIncoming, RejectIncomingFails,
         ReplayOnIngest, ReplayOnTimer, StartReplay, Publish, FileUnreadable,
         DiscardUnreadable, PublishTimesOut, MarkPublished, RemovePending, TrimPublished,
         MarkPublishedFails, WriteAttempt, ReplayDone, FileUnreadableFails,
         WriteAttemptFails, EmitHealth, EmitHealthFails, Connect, Disconnect,
         NoticeDisconnect, BrokerAcks, BrokerReceives
  <2>2. mishaps \in Nat
    BY SpoolAssumption DEF IInv, TypeOK
  <2> QED BY <2>1, <2>2
<1>2. Calm /\ CalmParts
  BY <1>1 DEF Calm, CalmInv, CalmParts
<1>3. step \notin {"failed", "discard"} /\ unreadable = {}
  BY <1>2 DEF CalmParts, CalmReplay
<1>4. CASE \E r \in Records : ArrivesRefused(r) \/ ArrivesAccepted(r) \/ HandlerFails(r)
  BY <1>2, <1>4, HandlerCalm, NoMishap DEF HandlerFails, EnqueueFails, EmitHealthFails,
     RejectIncomingFails
<1>5. CASE \E r \in Records : HandlerStep(r)
  BY <1>2, <1>5, HandlerCalm, StartCalm DEF HandlerStep
<1>6. CASE ReplayOnTimer \/ Connect \/ NoticeDisconnect
  BY <1>2, <1>6, StartCalm
<1>7. CASE ReplayStep
  BY <1>2, <1>3, <1>7, PublishCalm, MarkCalm, StartCalm
     DEF ReplayStep, FileUnreadable, DiscardUnreadable, WriteAttempt
<1>8. CASE ReplayFails \/ Disconnect \/ Crash
  BY <1>2, <1>8, NoMishap DEF ReplayFails, PublishTimesOut, MarkPublishedFails,
     FileUnreadableFails, WriteAttemptFails, Disconnect, Crash, Restart, PowerFails,
     UnhandledRejection
<1>9. CASE BrokerReceives \/ BrokerAcks
  BY <1>2, <1>9, ReceivesCalm, AcksCalm
<1>10. CASE UNCHANGED vars
  BY <1>2, <1>10 DEF vars, spoolVars, replayVars, mqttVars, CalmParts, CalmReplay, OneAwaited,
     PendingIsNew, UnstoredIsNowhere, AtMostOnce, FiledIsNotStored, AtHand
<1> QED BY <1>4, <1>5, <1>6, <1>7, <1>8, <1>9, <1>10
       DEF Next, GatewayStep, EventLoop, ClientStep

(* As long as nothing fails, the broker receives a record once at most,    *)
(* and what is filed as rejected was neither stored nor sent: whatever     *)
(* mixture of handlers, timers and connections asks for replays, for any   *)
(* number of payloads handled side by side.                                *)
THEOREM SpoolOnceUnlessMishap == Spec => []OnceUnlessMishap
<1>1. CalmInv => OnceUnlessMishap
  BY DEF CalmInv, AtMostOnce, FiledIsNotStored, OnceUnlessMishap
<1> QED BY <1>1, InitHolds, NextHolds, InitCalm, NextCalm, PTL DEF Spec
-----------------------------------------------------------------------------
(***************************************************************************)
(* Gateway, broker and ingest together: the steps of the composition, with *)
(* or without the bounds of its runs.                                      *)
(***************************************************************************)
Uplink == UplinkInit /\ [][UplinkStep]_uplinkVars

IngestTypeOK == handling \in [Records -> Nat] /\ gaps \in Nat

LEMMA UplinkIsSpool == [UplinkStep]_uplinkVars => [Next]_vars
  BY DEF UplinkStep, uplinkVars, ReceivedByBoth, Next

LEMMA OnlyBrokerReceives == GatewayStep => UNCHANGED received
  BY DEF mqttVars, GatewayStep, EventLoop, HandlerFails, HandlerStep,
         ReplayStep, ReplayFails, ClientStep, Crash, Restart, PowerFails,
         UnhandledRejection, Stop, ArrivesRefused, ArrivesAccepted, Arrives, Enqueue,
         EnqueueFails, LeaveReplayToOthers, RejectIncoming, RejectIncomingFails,
         ReplayOnIngest, ReplayOnTimer, StartReplay, Publish, FileUnreadable,
         DiscardUnreadable, PublishTimesOut, MarkPublished, RemovePending, TrimPublished,
         MarkPublishedFails, WriteAttempt, ReplayDone, FileUnreadableFails,
         WriteAttemptFails, EmitHealth, EmitHealthFails, Connect, Disconnect,
         NoticeDisconnect, BrokerAcks

LEMMA IngestTypeHolds ==
    ASSUME IngestTypeOK, [UplinkStep]_uplinkVars
    PROVE  IngestTypeOK' /\ gaps' >= gaps
<1> USE DEF IngestTypeOK
<1>1. CASE UNCHANGED ingestVars
  BY <1>1 DEF ingestVars
<1>2. CASE ReceivedByBoth
  <2>1. PICK r \in Records : Ingest!Hand(r)
    BY <1>2 DEF ReceivedByBoth, HandOver
  <2> QED BY <2>1 DEF Ingest!Hand
<1>3. CASE Ingest!IngestStep
  <2>1. CASE Ingest!Handles \/ Ingest!Subscribe
    BY <2>1 DEF Ingest!Handles, Ingest!Subscribe, Ingest!SendRaw, Ingest!PublishDlq, Ingest!Handled
  <2>2. CASE Ingest!Stop \/ Ingest!SessionLost \/ \E m \in Records : Ingest!PublishDlqFails(m)
    BY <2>2 DEF Ingest!Stop, Ingest!SessionLost, Ingest!PublishDlqFails, Ingest!Gap, Ingest!Exit
  <2> QED BY <1>3, <2>1, <2>2 DEF Ingest!IngestStep
<1> QED BY <1>1, <1>2, <1>3 DEF UplinkStep, uplinkVars

LEMMA MissedInAGap ==
    ASSUME IInv, IngestTypeOK, [UplinkStep]_uplinkVars, NEW r \in Records,
           subscribed, Missed(r)', ~Missed(r)
    PROVE  gaps' > gaps
<1> USE DEF IngestTypeOK
<1>1. CASE UNCHANGED ingestVars /\ UNCHANGED received
  BY <1>1 DEF Missed, Letters, ingestVars
<1>2. CASE ReceivedByBoth
  <2>1. PICK q \in Records : received'[q] # received[q] /\ Ingest!Hand(q)
    BY <1>2 DEF ReceivedByBoth, HandOver
  <2>2. handling' = [handling EXCEPT ![q] = @ + 1] /\ UNCHANGED <<raw, dlq>>
    BY <2>1 DEF Ingest!Hand
  <2>3. CASE r = q
    BY <2>2, <2>3 DEF Missed
  <2>4. CASE r # q
    <3>1. received'[r] = received[r]
      BY <1>2, <2>1, <2>4 DEF ReceivedByBoth, BrokerReceives, IInv, TypeOK
    <3> QED BY <2>2, <2>4, <3>1 DEF Missed, Letters
  <2> QED BY <2>3, <2>4
<1>3. CASE Ingest!IngestStep /\ UNCHANGED vars
  <2>1. received' = received
    BY <1>3 DEF vars, mqttVars
  <2>2. ASSUME NEW m \in Records, Ingest!SendRaw(m) PROVE FALSE
    BY <2>1, <2>2 DEF Ingest!SendRaw, Ingest!Handled, Missed, Letters
  <2>3. ASSUME NEW m \in Records, Ingest!PublishDlq(m) PROVE FALSE
    BY <2>1, <2>3 DEF Ingest!PublishDlq, Ingest!Handled, Missed, Letters
  <2>4. CASE Ingest!Stop \/ Ingest!SessionLost \/ \E m \in Records : Ingest!PublishDlqFails(m)
    BY <2>4 DEF Ingest!Stop, Ingest!SessionLost, Ingest!PublishDlqFails, Ingest!Gap
  <2> QED BY <1>3, <2>2, <2>3, <2>4 DEF Ingest!IngestStep, Ingest!Handles, Ingest!Subscribe
<1> QED BY <1>1, <1>2, <1>3, OnlyBrokerReceives DEF UplinkStep, uplinkVars, vars, mqttVars

(* What the gateway does in the composition is what it does alone: the     *)
(* theorems of Spec are theorems of it.                                    *)
THEOREM UplinkImplementsSpool == Uplink => Spec
  BY UplinkIsSpool, PTL DEF Uplink, UplinkInit, Spec

(* A message the broker has taken off the gateway's hands is in Kafka, or  *)
(* with a handler of the ingest service, or among the dead letters, unless *)
(* it went missing in a step in which the service stopped or its session   *)
(* was lost: no interleaving of handlers, letters, failures of Kafka and   *)
(* the gateway's own faults loses one without such a gap.                  *)
THEOREM UplinkOnlyGapsLose == Uplink => OnlyGapsLose
<1> DEFINE Step == \A r \in Records : (subscribed /\ Missed(r)' /\ ~Missed(r)) => gaps' > gaps
<1>1. UplinkInit => IngestTypeOK
  BY DEF UplinkInit, Ingest!IngestInit, IngestTypeOK
<1>2. IInv /\ IngestTypeOK /\ [UplinkStep]_uplinkVars => Step
  BY MissedInAGap
<1>3. IngestTypeOK /\ [UplinkStep]_uplinkVars => IngestTypeOK'
  BY IngestTypeHolds
<1>4. UplinkInit => Init
  BY DEF UplinkInit
<1> HIDE DEF Step
<1>5. Uplink => [][Step]_uplinkVars
  BY <1>1, <1>2, <1>3, <1>4, UplinkIsSpool, InitHolds, NextHolds, PTL DEF Uplink
<1> QED BY <1>5 DEF OnlyGapsLose, Step

(* The runs check a fair and bounded part of these behaviours.             *)
THEOREM UplinkSpecIsUplink == UplinkSpec => Uplink
<1>1. [UplinkNext]_uplinkVars => [UplinkStep]_uplinkVars
  BY DEF UplinkNext
<1> QED BY <1>1, PTL DEF UplinkSpec, Uplink
=============================================================================
