--------------------------- MODULE CommandEvents ---------------------------
(***************************************************************************)
(* The readers of device.command_events.v1: command-events-recorder, which *)
(* stores every event, and command-notify-worker, which turns events into  *)
(* notifications that refer to the stored event by foreign key.  They are  *)
(* two consumer groups of one topic and nothing orders them.  The events   *)
(* come from the command pipeline; CommandPath composes the two.           *)
(*                                                                         *)
(* An event_id is the position of the event in the topic: each publish     *)
(* draws a new UUID.                                                       *)
(***************************************************************************)
EXTENDS Integers, Sequences

CONSTANTS
    Commands,       \* command ids
    TypeOf,         \* command_type of a command
    CommandTypes,   \* the command types
    BuiltInDefaults,   \* success notification of the types built into the code
    ConfigChoices,  \* bound: the pairs of defaults operators choose from
    MaxReaderRestarts  \* bound: restarts of the two workers, together

Effective == {"always_notify", "silent"}
Policies  == Effective \cup {"inherit"}

(* A table of defaults may name any of the command types.                  *)
DefaultTables == UNION {[T -> Effective] : T \in SUBSET CommandTypes}

VARIABLES
    eventLog,       \* topic device.command_events.v1
    policy,         \* device_commands.success_notification_policy
    systemDefault,  \* system_configs: the default for every command type
    typeDefaults,   \* system_configs: the table of defaults per command type
    recorded,       \* rows of device_command_events
    recorderPos,    \* resolved position of the recorder's consumer
    recorderCommitted,
    notifications,  \* rows of device_command_notifications, in order
    notifyPos,      \* resolved position of the notify worker's consumer
    notifyCommitted,
    readerRestarts

readerVars == <<policy, systemDefault, typeDefaults, recorded, recorderPos,
                recorderCommitted, notifications, notifyPos, notifyCommitted,
                readerRestarts>>
configVars == <<policy, systemDefault, typeDefaults>>
recorderVars == <<recorded, recorderPos, recorderCommitted>>
notifyVars   == <<notifications, notifyPos, notifyCommitted>>

NoOffset == -1

(* The policy of a command is what its caller asked for when it was issued.*)
(* No operator has saved defaults yet: an absent row reads as no table.    *)
Init ==
    /\ policy \in [Commands -> Policies]
    /\ systemDefault = "silent"
    /\ typeDefaults = [t \in {} |-> "silent"]
    /\ recorded = {}
    /\ recorderPos = 0
    /\ recorderCommitted = NoOffset
    /\ notifications = <<>>
    /\ notifyPos = 0
    /\ notifyCommitted = NoOffset
    /\ readerRestarts = 0
-----------------------------------------------------------------------------
(* PUT /system/command-success-notification-policy replaces both defaults. *)
UpdatePolicy(choice) ==
    /\ choice # <<systemDefault, typeDefaults>>
    /\ systemDefault' = choice[1]
    /\ typeDefaults' = choice[2]
    /\ UNCHANGED <<policy, recorderVars, notifyVars, readerRestarts>>

(* Both groups start at the end of the topic when they have no offset.     *)
ResumeAt(committed) == IF committed = NoOffset THEN Len(eventLog) ELSE committed
-----------------------------------------------------------------------------
(***************************************************************************)
(* command-events-recorder.                                                *)
(***************************************************************************)
(* ON CONFLICT (event_id) DO NOTHING.  An INSERT that throws changes       *)
(* nothing: the event is fetched again.                                    *)
RecordEvent ==
    /\ recorderPos < Len(eventLog)
    /\ recorded' = recorded \cup {recorderPos + 1}
    /\ recorderPos' = recorderPos + 1
    /\ UNCHANGED <<configVars, recorderCommitted, notifyVars, readerRestarts>>

RecorderCommitOffsets ==
    /\ recorderCommitted' = recorderPos
    /\ UNCHANGED <<configVars, recorded, recorderPos, notifyVars, readerRestarts>>

RecorderRestart ==
    /\ readerRestarts < MaxReaderRestarts
    /\ readerRestarts' = readerRestarts + 1
    /\ recorderPos' = ResumeAt(recorderCommitted)
    /\ UNCHANGED <<configVars, recorded, recorderCommitted, notifyVars>>
-----------------------------------------------------------------------------
(***************************************************************************)
(* command-notify-worker.                                                  *)
(***************************************************************************)
Next1 == notifyPos + 1

(* The stored table, unless it names no type at all.                       *)
CommandTypeDefaults == IF DOMAIN typeDefaults = {} THEN BuiltInDefaults ELSE typeDefaults

TypeDefault(t) == IF t \in DOMAIN CommandTypeDefaults THEN CommandTypeDefaults[t] ELSE systemDefault

(* Mutant: the defaults override what the caller asked for.                *)
SuccessPolicyDefaultsFirst(c) == TypeDefault(TypeOf[c])

SuccessPolicy(c) == IF policy[c] = "inherit" THEN TypeDefault(TypeOf[c]) ELSE policy[c]

ShouldNotify(e) == e.outcome = "acked" => SuccessPolicy(e.cmd) = "always_notify"

SkipEvent ==
    /\ notifyPos < Len(eventLog)
    /\ ~ShouldNotify(eventLog[Next1])
    /\ notifyPos' = notifyPos + 1
    /\ UNCHANGED <<configVars, recorderVars, notifications, notifyCommitted, readerRestarts>>

Notified(i) == \E n \in DOMAIN notifications : notifications[n] = i

(* Mutants: no ON CONFLICT clause; a foreign key violation is skipped.     *)
InsertNotificationAlways ==
    /\ notifyPos < Len(eventLog)
    /\ ShouldNotify(eventLog[Next1])
    /\ Next1 \in recorded
    /\ notifications' = Append(notifications, Next1)
    /\ notifyPos' = notifyPos + 1
    /\ UNCHANGED <<configVars, recorderVars, notifyCommitted, readerRestarts>>
InsertNotificationOrSkip ==
    /\ notifyPos < Len(eventLog)
    /\ ShouldNotify(eventLog[Next1])
    /\ notifications' = IF Notified(Next1) \/ Next1 \notin recorded THEN notifications
                        ELSE Append(notifications, Next1)
    /\ notifyPos' = notifyPos + 1
    /\ UNCHANGED <<configVars, recorderVars, notifyCommitted, readerRestarts>>

(* The foreign key refuses a notification of an event not yet recorded:    *)
(* the INSERT throws and the same event is fetched again, so the worker    *)
(* waits for the recorder.  ON CONFLICT (event_id, notify_type) DO NOTHING.*)
InsertNotification ==
    /\ notifyPos < Len(eventLog)
    /\ ShouldNotify(eventLog[Next1])
    /\ Next1 \in recorded
    /\ notifications' = IF Notified(Next1) THEN notifications
                        ELSE Append(notifications, Next1)
    /\ notifyPos' = notifyPos + 1
    /\ UNCHANGED <<configVars, recorderVars, notifyCommitted, readerRestarts>>

NotifyCommitOffsets ==
    /\ notifyCommitted' = notifyPos
    /\ UNCHANGED <<configVars, recorderVars, notifications, notifyPos, readerRestarts>>

(* A stop, a crash, or the retries of a failing INSERT used up.            *)
NotifyRestart ==
    /\ readerRestarts < MaxReaderRestarts
    /\ readerRestarts' = readerRestarts + 1
    /\ notifyPos' = ResumeAt(notifyCommitted)
    /\ UNCHANGED <<configVars, recorderVars, notifications, notifyCommitted>>
-----------------------------------------------------------------------------
(* eventLog belongs to the writers of the topic.                           *)
ReadersNext ==
    \/ \E choice \in ConfigChoices : UpdatePolicy(choice)
    \/ RecordEvent \/ RecorderCommitOffsets \/ RecorderRestart
    \/ SkipEvent \/ InsertNotification \/ NotifyCommitOffsets \/ NotifyRestart
=============================================================================
