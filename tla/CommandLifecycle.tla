-------------------------- MODULE CommandLifecycle --------------------------
(***************************************************************************)
(* What the command pipeline promises about one row of device_commands and *)
(* the lifecycle events written about it, with no mention of Kafka, MQTT,  *)
(* offsets or handlers.  A settler is a piece of code that moves a row out *)
(* of queued/sent and owes the event it then publishes: the acknowledgement*)
(* receiver's MQTT handler, its Kafka consumer, and the timeout worker.    *)
(* DeviceCommands is shown to implement this module.                       *)
(***************************************************************************)
EXTENDS Naturals, Sequences

CONSTANTS
    Commands,   \* the command ids that may ever be issued
    Settlers    \* the pieces of code that may settle a command

VARIABLES
    status,     \* device_commands.status, "absent" before the row is committed
    owed,       \* rows settled by a step whose event is not yet published
    eventLog    \* the topic device.command_events.v1

vars == <<status, owed, eventLog>>

Open     == {"queued", "sent"}
Outcomes == {"acked", "failed", "timeout"}
Statuses == Open \cup Outcomes \cup {"canceled"}

Events   == [cmd : Commands, outcome : Outcomes]
Owed     == [by : Settlers, cmd : Commands, outcome : Outcomes]

Init ==
    /\ status = [c \in Commands |-> "absent"]
    /\ owed = {}
    /\ eventLog = <<>>

(* A command becomes visible, queued.                                      *)
Issue(c) ==
    /\ status[c] = "absent"
    /\ status' = [status EXCEPT ![c] = "queued"]
    /\ UNCHANGED <<owed, eventLog>>

(* The broker has taken it.                                                *)
Send(c) ==
    /\ status[c] = "queued"
    /\ status' = [status EXCEPT ![c] = "sent"]
    /\ UNCHANGED <<owed, eventLog>>

(* An open command gets its outcome, once; only a sent one can time out.   *)
Settle(p, c, o) ==
    /\ status[c] \in Open
    /\ o = "timeout" => status[c] = "sent"
    /\ status' = [status EXCEPT ![c] = o]
    /\ owed' = owed \cup {[by |-> p, cmd |-> c, outcome |-> o]}
    /\ UNCHANGED eventLog

(* The device was revoked: any command but an acknowledged one is canceled.*)
Cancel(c) ==
    /\ status[c] \notin {"absent", "acked"}
    /\ status' = [status EXCEPT ![c] = "canceled"]
    /\ UNCHANGED <<owed, eventLog>>

(* The settler publishes what it owes.                                     *)
Announce(e) ==
    /\ e \in owed
    /\ owed' = owed \ {e}
    /\ eventLog' = Append(eventLog, [cmd |-> e.cmd, outcome |-> e.outcome])
    /\ UNCHANGED status

(* The settler fails or stops before it publishes.                         *)
Lose(S) ==
    /\ S \subseteq owed
    /\ owed' = owed \ S
    /\ UNCHANGED <<status, eventLog>>

Next ==
    \/ \E c \in Commands : Issue(c) \/ Send(c) \/ Cancel(c)
    \/ \E p \in Settlers, c \in Commands, o \in Outcomes : Settle(p, c, o)
    \/ \E e \in owed : Announce(e)
    \/ \E S \in SUBSET owed : Lose(S)

Spec == Init /\ [][Next]_vars
-----------------------------------------------------------------------------
TypeOK ==
    /\ status \in [Commands -> Statuses \cup {"absent"}]
    /\ owed \in SUBSET Owed
    /\ eventLog \in Seq(Events)

(* A command whose outcome is owed or announced is no longer open, and     *)
(* keeps that outcome unless a revocation cancels it.                      *)
Agrees(e) == status[e.cmd] \in {e.outcome, "canceled"}

(* No command is announced twice, and none is both owed and announced: the *)
(* two paths by which an acknowledgement is applied and the timeout worker *)
(* never tell subscribers of command_events two outcomes for one command.  *)
OneOutcomePerCommand ==
    /\ \A i, j \in DOMAIN eventLog : eventLog[i].cmd = eventLog[j].cmd => i = j
    /\ \A e \in owed, f \in owed : e.cmd = f.cmd => e = f
    /\ \A e \in owed : \A i \in DOMAIN eventLog : eventLog[i].cmd # e.cmd

(* What is announced is what the row says, unless the row was canceled     *)
(* later because its device was revoked.                                   *)
EventMatchesRow ==
    /\ \A i \in DOMAIN eventLog : Agrees(eventLog[i])
    /\ \A e \in owed : Agrees(e)
=============================================================================
