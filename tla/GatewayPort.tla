----------------------------- MODULE GatewayPort -----------------------------
(***************************************************************************)
(* One serial port of the field gateway (GatewayRuntime): the chain of     *)
(* commands waiting to be written, the window in which the answer to a     *)
(* written command is awaited, the poller that asks the nodes for          *)
(* telemetry in turn, and the window in which a polled node is left to     *)
(* send.  The radio is half duplex: these windows are all that keeps the   *)
(* gateway from talking over a node.                                       *)
(*                                                                         *)
(* The gateway is one thread: what runs between two awaits, the microtasks *)
(* included, is one step.  Telemetry itself is left to the spool.          *)
(***************************************************************************)
EXTENDS Naturals, Sequences

CONSTANTS
    NodeCount,      \* enabled nodes of the port, in the poller's order
    Commands,       \* ids of commands from MQTT
    MaxQueue,       \* bound: commands waiting behind the current one
    MaxArrivals,    \* bound: deliveries by MQTT, redeliveries included
    Polls,          \* bound: ids of polls; older polls are not answered any more
    Faults          \* "serial", "restart"

ASSUME PortAssumption ==
    /\ NodeCount \in Nat \ {0} /\ MaxQueue \in Nat /\ MaxArrivals \in Nat
    /\ Commands \cap Polls = {} /\ Polls # {} /\ "none" \notin Commands \cup Polls
    /\ Faults \subseteq {"serial", "restart"}

VARIABLES
    current,        \* the command whose turn it is on portCommandChains
    queue,          \* the commands behind it
    pc,             \* where forwardCommandWithQuietWindow is with it
    window,         \* pendingCommandWindows: the command whose answer is awaited
    pollWindow,     \* activePollTelemetryWindows: the poll whose node may send
    records,        \* internalPollCommands
    cursor,         \* portPollNodeCursor
    owner,          \* sendOwnerState, as the health file shows it
    isOpen,         \* the serial port is open
    air,            \* commands the nodes received and may still answer
    arrivals        \* deliveries by MQTT so far

chainVars == <<current, queue, pc>>
pollVars  == <<pollWindow, records, cursor>>
vars == <<current, queue, pc, window, pollWindow, records, cursor, owner,
          isOpen, air, arrivals>>

Nodes   == 0..(NodeCount - 1)
Poll    == [id : Polls, node : Nodes]
Command == [id : Commands, node : Nodes]
None    == [id |-> "none", node |-> 0]
Owners  == {"idle", "writing-command", "waiting-for-ack", "waiting-for-poll-telemetry"}

Start ==
    /\ current = None /\ queue = <<>> /\ pc = "wait" /\ window = None
    /\ pollWindow = None /\ records = {} /\ cursor = NodeCount - 1
    /\ owner = "idle" /\ isOpen = TRUE

Init == Start /\ air = {} /\ arrivals = 0

(* Mutant: the record of a poll outlives its forwarding.                   *)
FinishKeepsRecord(kept) ==
    /\ current' = IF queue = <<>> THEN None ELSE Head(queue)
    /\ queue' = IF queue = <<>> THEN <<>> ELSE Tail(queue)
    /\ pc' = "wait"
    /\ records' = kept

(* The forwarding of the current command returns: the next has its turn,   *)
(* and issueInternalPollForNode's finally drops the record of a poll that  *)
(* was not answered.                                                       *)
Finish(kept) ==
    /\ current' = IF queue = <<>> THEN None ELSE Head(queue)
    /\ queue' = IF queue = <<>> THEN <<>> ELSE Tail(queue)
    /\ pc' = "wait"
    /\ records' = kept \ {current}

(* Who the port belongs to once a window is closed.                        *)
OwnerWithout(w, p) ==
    IF p # None THEN "waiting-for-poll-telemetry"
    ELSE IF w # None THEN owner ELSE "idle"
-----------------------------------------------------------------------------
(* A valid command for a node of this port is queued.                      *)
Receive(c) ==
    /\ arrivals < MaxArrivals /\ Len(queue) < MaxQueue
    /\ arrivals' = arrivals + 1
    /\ IF current = None
       THEN current' = c /\ UNCHANGED queue
       ELSE queue' = Append(queue, c) /\ UNCHANGED current
    /\ UNCHANGED <<pc, window, pollVars, owner, isOpen, air>>

(* Mutant: the last node is not counted.                                   *)
NextNodeSkipsLast ==
    IF NodeCount = 1 THEN 0 ELSE (cursor + 1) % (NodeCount - 1)

(* The enabled nodes of the port take turns.                               *)
NextNode == (cursor + 1) % NodeCount

(* The poller asks the next node, only if nothing else is going on.  The   *)
(* id of a poll is fresh: nobody holds an older command under it.          *)
Tick(p) ==
    /\ window = None /\ pollWindow = None /\ current = None /\ isOpen
    /\ p.node = NextNode
    /\ cursor' = NextNode
    /\ current' = p
    /\ records' = records \cup {p}
    /\ air' = {c \in air : c.id # p.id}
    /\ UNCHANGED <<queue, pc, window, pollWindow, owner, isOpen, arrivals>>

(* No polled node may be sending, and the port was quiet or is not waited  *)
(* for any longer.  The input is flushed.                                  *)
WaitQuiet ==
    /\ current # None /\ pc = "wait" /\ pollWindow = None
    /\ pc' = "flush"
    /\ UNCHANGED <<current, queue, window, pollVars, owner, isOpen, air, arrivals>>

(* The window opens before the first byte is written.  A frame longer than *)
(* commandSerialChunkBytes is written in chunks with pauses between them:  *)
(* "write" stands for the last chunk, or the only one, "chunks" for those  *)
(* before it and the pauses.                                               *)
BeginWrite ==
    /\ pc = "flush"
    /\ pc' \in {"write", "chunks"}
    /\ window' = current
    /\ owner' = "writing-command"
    /\ UNCHANGED <<current, queue, pollVars, isOpen, air, arrivals>>

LastChunk ==
    /\ pc = "chunks" /\ isOpen
    /\ pc' = "write"
    /\ UNCHANGED <<current, queue, window, pollVars, owner, isOpen, air, arrivals>>

(* The whole frame reaches its node, which may not have to wait for the    *)
(* gateway to learn that it was written.                                   *)
FrameReaches ==
    /\ pc = "write" /\ isOpen
    /\ air' = air \cup {current}
    /\ UNCHANGED <<chainVars, window, pollVars, owner, isOpen, arrivals>>

(* The write is done.  If the window is closed by now there is nothing     *)
(* left to wait for, but the port is marked as waiting all the same.       *)
WriteDone ==
    /\ pc = "write" /\ isOpen
    /\ owner' = "waiting-for-ack"
    /\ IF window = None
       THEN Finish(records) /\ UNCHANGED <<pollWindow, cursor>>
       ELSE pc' = "await" /\ UNCHANGED <<current, queue, pollVars>>
    /\ UNCHANGED <<window, isOpen, air, arrivals>>

(* There is no open port to write to, or a chunk on its way fails.         *)
WriteFails ==
    /\ pc \in {"write", "chunks"} /\ (~isOpen \/ "serial" \in Faults)
    /\ window' = None
    /\ owner' = OwnerWithout(None, pollWindow)
    /\ Finish(records)
    /\ UNCHANGED <<pollWindow, cursor, isOpen, air, arrivals>>

(* Mutant: the window is dropped, its promise is not resolved.             *)
WindowTimeoutUnresolved ==
    /\ window # None
    /\ window' = None
    /\ owner' = OwnerWithout(None, pollWindow)
    /\ UNCHANGED <<chainVars, pollVars, isOpen, air, arrivals>>

(* Nobody answered in time.                                                *)
WindowTimeout ==
    /\ window # None
    /\ window' = None
    /\ owner' = OwnerWithout(None, pollWindow)
    /\ IF pc = "await" THEN Finish(records) ELSE UNCHANGED <<chainVars, records>>
    /\ UNCHANGED <<pollWindow, cursor, isOpen, air, arrivals>>

(* Mutant: any answer opens the telemetry window.                          *)
AcknowledgeAny(c, status) ==
    /\ window' = IF window = c THEN None ELSE window
    /\ pollWindow' = IF status = "acked" THEN c ELSE None
    /\ owner' = OwnerWithout(window', pollWindow')
    /\ IF window = c /\ pc = "await"
       THEN Finish(records \ {c})
       ELSE records' = records \ {c} /\ UNCHANGED chainVars

(* The window closes at the answer to its command.  The answer to a poll   *)
(* opens, or closes, the telemetry window; the answer to anything else is  *)
(* published.                                                              *)
Acknowledge(c, status) ==
    LET matched == window = c
        polled  == c \in records
    IN /\ window' = IF matched THEN None ELSE window
       /\ pollWindow' = IF ~polled THEN pollWindow
                        ELSE IF status = "acked" THEN c ELSE None
       /\ owner' = IF matched \/ polled THEN OwnerWithout(window', pollWindow') ELSE owner
       /\ IF matched /\ pc = "await"
          THEN Finish(records \ {c})
          ELSE records' = records \ {c} /\ UNCHANGED chainVars

(* An answer arrives, perhaps late, perhaps once more.                     *)
Answer(c, status) ==
    /\ c \in air /\ isOpen
    /\ Acknowledge(c, status)
    /\ air' \in {air, air \ {c}}
    /\ UNCHANGED <<cursor, isOpen, arrivals>>

(* A node never answers.                                                   *)
Silence(c) ==
    /\ c \in air
    /\ air' = air \ {c}
    /\ UNCHANGED <<chainVars, window, pollVars, owner, isOpen, arrivals>>

ClosePollWindow ==
    /\ pollWindow # None
    /\ pollWindow' = None
    /\ owner' = IF window = None THEN "idle" ELSE owner
    /\ UNCHANGED <<chainVars, window, records, cursor, isOpen, air, arrivals>>

(* Telemetry of the polled node arrives,                                   *)
PolledTelemetry == isOpen /\ ClosePollWindow

(* or does not.                                                            *)
PollTimeout == ClosePollWindow

(* If the port closes in a pause, the next chunk waits in the old SerialPort*)
(* for it to open.  openSerialPort discards that object and opens another: *)
(* the write never calls back, and the chain of the port is stuck.         *)
PortCloses ==
    /\ "serial" \in Faults /\ isOpen
    /\ isOpen' = FALSE
    /\ IF pc = "chunks" THEN pc' \in {"chunks", "stuck"} ELSE UNCHANGED pc
    /\ UNCHANGED <<current, queue, window, pollVars, owner, air, arrivals>>

(* After the reconnect delay; a write that failed has called back by then. *)
PortOpens ==
    /\ ~isOpen /\ pc \notin {"write", "chunks"}
    /\ isOpen' = TRUE
    /\ UNCHANGED <<chainVars, window, pollVars, owner, air, arrivals>>

Restart ==
    /\ "restart" \in Faults
    /\ current' = None /\ queue' = <<>> /\ pc' = "wait" /\ window' = None
    /\ pollWindow' = None /\ records' = {} /\ cursor' = NodeCount - 1
    /\ owner' = "idle" /\ isOpen' = TRUE
    /\ UNCHANGED <<air, arrivals>>

Next ==
    \/ \E c \in Command : Receive(c)
    \/ \E p \in Poll : Tick(p)
    \/ WaitQuiet \/ BeginWrite \/ LastChunk \/ FrameReaches \/ WriteDone \/ WriteFails
    \/ WindowTimeout \/ PollTimeout \/ PolledTelemetry
    \/ \E c \in air : Answer(c, "acked") \/ Answer(c, "failed") \/ Silence(c)
    \/ PortCloses \/ PortOpens \/ Restart

Spec == Init /\ [][Next]_vars

(* Timers fire, awaited calls return.  Nodes, MQTT and the port owe        *)
(* nothing.                                                                *)
FairSpec ==
    /\ Spec
    /\ WF_vars(\E p \in Poll : Tick(p)) /\ WF_vars(WaitQuiet) /\ WF_vars(BeginWrite)
    /\ WF_vars(LastChunk \/ WriteDone \/ WriteFails) /\ WF_vars(WindowTimeout) /\ WF_vars(PollTimeout)
-----------------------------------------------------------------------------
TypeOK ==
    /\ current \in Poll \cup Command \cup {None}
    /\ queue \in Seq(Command)
    /\ pc \in {"wait", "flush", "chunks", "write", "stuck", "await"}
    /\ window \in Poll \cup Command \cup {None}
    /\ pollWindow \in Poll \cup {None}
    /\ records \subseteq Poll
    /\ cursor \in Nodes
    /\ owner \in Owners
    /\ isOpen \in BOOLEAN
    /\ air \subseteq Poll \cup Command
    /\ arrivals \in Nat

(* The gateway never begins to write while the answer to a command is      *)
(* awaited or a polled node is expected to send, although it looks only    *)
(* before the quiet time and the flush, and answers arrive late.           *)
PortIsExclusive ==
    [][BeginWrite => window = None /\ pollWindow = None]_vars

(* Every command gets its turn: the chain of the port empties again and    *)
(* again, whatever the nodes and the port do, unless a write is stuck in a *)
(* port that closed between two of its chunks.  Nothing else holds it up:  *)
(* no lost answer, failed write, late acknowledgement or closed window.    *)
PortDrains == []<>(current = None \/ pc = "stuck")

(* Once MQTT has delivered its last command and the gateway restarts no    *)
(* more, and while the port stays open and its chain is not stuck, every   *)
(* node is polled again and again, answered or not.                        *)
EveryNodeIsPolled ==
    <>[]isOpen /\ <>[][~Restart]_vars /\ []<>(pc # "stuck") =>
        \A n \in Nodes :
            []<>(pc \in {"chunks", "write"} /\ current \in Poll /\ current.node = n)
=============================================================================
