------------------------- MODULE GatewayPortProofs -------------------------
(***************************************************************************)
(* The gateway never begins to write into a window, for any number of      *)
(* nodes, commands and polls, any failures and any late answers.           *)
(***************************************************************************)
EXTENDS GatewayPort, SequenceTheorems, TLAPS

(* Only the poll whose turn it is has a record.                            *)
RecordIsCurrent == records \subseteq {current}

(* The window belongs to the command being written or awaited.             *)
WindowIsCurrent == window # None => pc \in {"chunks", "write", "stuck", "await"} /\ window = current

(* An idle port is not in the middle of a command.                         *)
IdleWaits == current = None => pc = "wait"

(* No telemetry window opens between the look at it and the write,         *)
FlushIsQuiet == pc = "flush" => pollWindow = None

(* because a poll is not answered before it is sent.                       *)
UnsentUnanswered == pc \in {"wait", "flush"} /\ current \in Poll => current \notin air

IInv == TypeOK /\ RecordIsCurrent /\ WindowIsCurrent /\ IdleWaits
               /\ FlushIsQuiet /\ UnsentUnanswered

(* Polls, commands and no command at all are told apart by their ids.      *)
LEMMA Distinct ==
    /\ None \notin Poll /\ None \notin Command
    /\ Poll \cap Command = {}
  BY PortAssumption DEF None, Poll, Command

(* The start of the process satisfies the invariant, whatever the nodes    *)
(* still hold.                                                             *)
LEMMA StartHolds ==
    ASSUME Start, air \subseteq Poll \cup Command, arrivals \in Nat
    PROVE  IInv
<1>1. cursor \in Nodes
  BY PortAssumption DEF Start, Nodes
<1>2. TypeOK
  BY <1>1 DEF Start, TypeOK, Owners
<1>3. QED
  BY <1>2, Distinct DEF IInv, Start, RecordIsCurrent, WindowIsCurrent, IdleWaits,
                        FlushIsQuiet, UnsentUnanswered

(* When the forwarding of a command returns, the next one of the chain is  *)
(* a command from MQTT or there is none, and no record is left.            *)
LEMMA FinishHolds ==
    ASSUME IInv, NEW kept \in SUBSET records, Finish(kept)
    PROVE  /\ current' \in Command \cup {None}
           /\ queue' \in Seq(Command)
           /\ pc' = "wait"
           /\ records' = {}
<1>1. CASE queue = <<>>
  BY <1>1 DEF IInv, TypeOK, RecordIsCurrent, Finish
<1>2. CASE queue # <<>>
  <2>1. Head(queue) \in Command /\ Tail(queue) \in Seq(Command)
    BY <1>2, HeadTailProperties DEF IInv, TypeOK
  <2>2. QED
    BY <1>2, <2>1 DEF IInv, RecordIsCurrent, Finish
<1>3. QED
  BY <1>1, <1>2

(* The owner shown after a window closes is one of the four.               *)
LEMMA OwnerType ==
    ASSUME NEW w, NEW p, owner \in Owners
    PROVE  OwnerWithout(w, p) \in Owners
  BY DEF OwnerWithout, Owners

(* After Finish, with no window left, the invariant holds if what else     *)
(* changed keeps its type.                                                 *)
LEMMA FinishedHolds ==
    ASSUME IInv, NEW kept \in SUBSET records, Finish(kept),
           window' = None, pollWindow' \in Poll \cup {None}, owner' \in Owners,
           UNCHANGED <<cursor, isOpen, arrivals>>, air' \subseteq air
    PROVE  IInv'
<1>1. /\ current' \in Command \cup {None} /\ queue' \in Seq(Command)
      /\ pc' = "wait" /\ records' = {}
  BY FinishHolds
<1>2. TypeOK'
  BY <1>1 DEF IInv, TypeOK
<1>3. QED
  BY <1>1, <1>2, Distinct DEF IInv, RecordIsCurrent, WindowIsCurrent, IdleWaits,
                              FlushIsQuiet, UnsentUnanswered

(* An answer, late or not, of a command some node received.                *)
LEMMA AnswerHolds ==
    ASSUME IInv, NEW c \in air, NEW status \in {"acked", "failed"}, Answer(c, status)
    PROVE  IInv'
<1> USE DEF IInv
<1>1. air' \subseteq air /\ UNCHANGED <<cursor, isOpen, arrivals>>
  BY DEF Answer
<1>2. pollWindow' \in Poll \cup {None}
  BY DEF Answer, Acknowledge, TypeOK
<1>3. owner' \in Owners
  BY OwnerType DEF Answer, Acknowledge, TypeOK
<1>4. pc = "flush" => c \notin records
  BY DEF RecordIsCurrent, UnsentUnanswered, TypeOK
<1>5. CASE window = c /\ pc = "await"
  <2>1. window' = None /\ Finish(records \ {c})
    BY <1>5 DEF Answer, Acknowledge
  <2>2. QED
    BY <1>1, <1>2, <1>3, <2>1, FinishedHolds
<1>6. CASE ~(window = c /\ pc = "await")
  <2>1. records' = records \ {c} /\ UNCHANGED chainVars /\ window' \in {window, None}
    BY <1>6 DEF Answer, Acknowledge
  <2>2. TypeOK'
    BY <1>1, <1>2, <1>3, <2>1 DEF TypeOK, chainVars
  <2>3. RecordIsCurrent' /\ WindowIsCurrent' /\ IdleWaits'
    BY <2>1 DEF RecordIsCurrent, WindowIsCurrent, IdleWaits, chainVars
  <2>4. FlushIsQuiet'
    BY <1>4, <2>1 DEF FlushIsQuiet, Answer, Acknowledge, chainVars
  <2>5. UnsentUnanswered'
    BY <1>1, <2>1 DEF UnsentUnanswered, chainVars
  <2>6. QED
    BY <2>2, <2>3, <2>4, <2>5
<1>7. QED
  BY <1>5, <1>6

LEMMA Inductive == IInv /\ [Next]_vars => IInv'
<1> SUFFICES ASSUME IInv, [Next]_vars PROVE IInv'
  OBVIOUS
<1> USE DEF IInv
<1>1. ASSUME NEW c \in Command, Receive(c) PROVE IInv'
  <2>1. queue' \in Seq(Command) /\ current' \in {c, current}
    BY <1>1 DEF Receive, TypeOK
  <2>2. current' = current \/ (current = None /\ current' = c)
    BY <1>1 DEF Receive
  <2>3. TypeOK'
    BY <1>1, <2>1 DEF Receive, TypeOK, pollVars
  <2>4. records = {} \/ current' = current
    BY <2>2, Distinct DEF TypeOK, RecordIsCurrent
  <2>5. window = None \/ current' = current
    BY <2>2 DEF WindowIsCurrent
  <2>6. QED
    BY <1>1, <2>2, <2>3, <2>4, <2>5, Distinct
       DEF Receive, pollVars, RecordIsCurrent, WindowIsCurrent, IdleWaits,
           FlushIsQuiet, UnsentUnanswered
<1>2. ASSUME NEW p \in Poll, Tick(p) PROVE IInv'
  <2>1. NextNode \in Nodes
    BY PortAssumption DEF NextNode, Nodes, TypeOK
  <2>2. TypeOK'
    BY <1>2, <2>1 DEF Tick, TypeOK
  <2>3. records = {} /\ pc = "wait"
    BY <1>2, Distinct DEF Tick, TypeOK, RecordIsCurrent, IdleWaits
  <2>4. QED
    BY <1>2, <2>2, <2>3, Distinct
       DEF Tick, RecordIsCurrent, WindowIsCurrent, IdleWaits, FlushIsQuiet, UnsentUnanswered
<1>3. CASE WaitQuiet
  BY <1>3 DEF WaitQuiet, pollVars, TypeOK, RecordIsCurrent, WindowIsCurrent, IdleWaits,
              FlushIsQuiet, UnsentUnanswered
<1>4. CASE BeginWrite \/ LastChunk
  BY <1>4 DEF BeginWrite, LastChunk, pollVars, TypeOK, Owners, RecordIsCurrent, WindowIsCurrent,
              IdleWaits, FlushIsQuiet, UnsentUnanswered
<1>5. CASE FrameReaches
  <2>1. current \in Poll \cup Command
    BY <1>5 DEF FrameReaches, TypeOK, IdleWaits
  <2>2. QED
    BY <1>5, <2>1 DEF FrameReaches, chainVars, pollVars, TypeOK, RecordIsCurrent,
                      WindowIsCurrent, IdleWaits, FlushIsQuiet, UnsentUnanswered
<1>6. CASE WriteDone
  <2>1. owner' \in Owners /\ UNCHANGED <<pollWindow, cursor, window, isOpen, air, arrivals>>
    BY <1>6 DEF WriteDone, Owners, pollVars
  <2>2. CASE window = None
    <3>1. Finish(records)
      BY <1>6, <2>2 DEF WriteDone
    <3>2. QED
      BY <2>1, <2>2, <3>1, FinishedHolds DEF TypeOK
  <2>3. CASE window # None
    BY <1>6, <2>1, <2>3
       DEF WriteDone, pollVars, TypeOK, RecordIsCurrent, WindowIsCurrent, IdleWaits,
           FlushIsQuiet, UnsentUnanswered
  <2>4. QED
    BY <2>2, <2>3
<1>7. CASE WriteFails
  <2>1. owner' \in Owners
    BY <1>7, OwnerType DEF WriteFails, TypeOK
  <2>2. QED
    BY <1>7, <2>1, FinishedHolds DEF WriteFails, TypeOK
<1>8. CASE WindowTimeout
  <2>1. owner' \in Owners
    BY <1>8, OwnerType DEF WindowTimeout, TypeOK
  <2>2. CASE pc = "await"
    BY <1>8, <2>1, <2>2, FinishedHolds DEF WindowTimeout, TypeOK
  <2>3. CASE pc # "await"
    BY <1>8, <2>1, <2>3
       DEF WindowTimeout, chainVars, TypeOK, RecordIsCurrent, WindowIsCurrent, IdleWaits,
           FlushIsQuiet, UnsentUnanswered
  <2>4. QED
    BY <2>2, <2>3
<1>9. CASE ClosePollWindow
  BY <1>9 DEF ClosePollWindow, chainVars, TypeOK, Owners, RecordIsCurrent,
              WindowIsCurrent, IdleWaits, FlushIsQuiet, UnsentUnanswered
<1>10. ASSUME NEW c \in air, Silence(c) PROVE IInv'
  BY <1>10 DEF Silence, chainVars, pollVars, TypeOK, RecordIsCurrent, WindowIsCurrent,
               IdleWaits, FlushIsQuiet, UnsentUnanswered
<1>11. CASE PortCloses \/ PortOpens
  BY <1>11 DEF PortCloses, PortOpens, chainVars, pollVars, TypeOK, RecordIsCurrent,
               WindowIsCurrent, IdleWaits, FlushIsQuiet, UnsentUnanswered
<1>12. CASE Restart
  <2>1. Start' /\ (air \subseteq Poll \cup Command)' /\ (arrivals \in Nat)'
    BY <1>12 DEF Restart, Start, TypeOK
  <2>2. QED
    BY <2>1, StartHolds, PTL
<1>13. CASE UNCHANGED vars
  BY <1>13 DEF vars, TypeOK, RecordIsCurrent, WindowIsCurrent, IdleWaits, FlushIsQuiet,
               UnsentUnanswered
<1>14. QED
  BY <1>1, <1>2, <1>3, <1>4, <1>5, <1>6, <1>7, <1>8, <1>9, <1>10, <1>11, <1>12, <1>13,
     AnswerHolds DEF Next, PolledTelemetry, PollTimeout

(* The invariant of the port holds in every instance: every variable of a  *)
(* port keeps its type through failures, late answers and restarts.        *)
THEOREM InvariantHolds == Spec => []IInv
<1>1. Init => IInv
  BY StartHolds DEF Init
<1>2. QED
  BY <1>1, Inductive, PTL DEF Spec

THEOREM PortTypeCorrect == Spec => []TypeOK
  BY InvariantHolds, PTL DEF IInv

(* The write window of forwardCommandWithQuietWindow opens only when no    *)
(* answer is awaited and no polled node may be sending.                    *)
THEOREM PortExclusive == Spec => PortIsExclusive
<1>1. IInv /\ [Next]_vars => [BeginWrite => window = None /\ pollWindow = None]_vars
  BY DEF IInv, FlushIsQuiet, WindowIsCurrent, BeginWrite
<1>2. QED
  BY <1>1, InvariantHolds, PTL DEF Spec, PortIsExclusive
=============================================================================
