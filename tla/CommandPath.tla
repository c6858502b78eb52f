---------------------------- MODULE CommandPath ----------------------------
(***************************************************************************)
(* The whole path of a command: the pipeline writes the lifecycle events   *)
(* and the two workers of CommandEvents read them.  The pipeline appears   *)
(* as the lifecycle that DeviceCommands implements, and the services       *)
(* together implement this module (the theorem ServicesImplementPath of    *)
(* DeviceCommandsProofs), so what holds here of rows, events and           *)
(* notifications holds of them.  The topic is all they share (the notify   *)
(* worker also reads the row's policy, which nothing changes after the     *)
(* command is issued).                                                     *)
(***************************************************************************)
EXTENDS CommandLifecycle, Integers, FiniteSets

CONSTANTS TypeOf, CommandTypes, BuiltInDefaults, ConfigChoices, MaxReaderRestarts

VARIABLES policy, systemDefault, typeDefaults, recorded, recorderPos,
          recorderCommitted, notifications, notifyPos, notifyCommitted,
          readerRestarts

Readers == INSTANCE CommandEvents
    WITH Commands <- Commands, eventLog <- eventLog

(* What the constants stand for.  Nothing proved of this module needs it,  *)
(* so an instance assumes it (MCCommandPath) and this module does not.     *)
ConstantsOK ==
    /\ TypeOf \in [Commands -> CommandTypes]
    /\ BuiltInDefaults \in Readers!DefaultTables
    /\ ConfigChoices \subseteq Readers!Effective \X Readers!DefaultTables
    /\ MaxReaderRestarts \in Nat

readerVars == <<policy, systemDefault, typeDefaults, recorded, recorderPos,
                recorderCommitted, notifications, notifyPos, notifyCommitted,
                readerRestarts>>
pathVars == <<vars, readerVars>>

PathInit == Init /\ Readers!Init

PathNext ==
    \/ Next /\ UNCHANGED readerVars
    \/ Readers!ReadersNext /\ UNCHANGED vars

PathSpec == PathInit /\ [][PathNext]_pathVars

(* Each worker loops, and retries an INSERT that throws.                   *)
ReadersFairness ==
    /\ WF_pathVars(Readers!RecordEvent /\ UNCHANGED vars)
    /\ WF_pathVars((Readers!SkipEvent \/ Readers!InsertNotification) /\ UNCHANGED vars)

FairPath == PathSpec /\ ReadersFairness
-----------------------------------------------------------------------------
(* A user hears of a command at most once: the two paths of an             *)
(* acknowledgement, the timeout worker, redelivery in any of the four      *)
(* consumer groups and restarts of every worker never make two             *)
(* notifications about one command.                                        *)
OneNotificationPerCommand ==
    \A m, n \in DOMAIN notifications :
        eventLog[notifications[m]].cmd = eventLog[notifications[n]].cmd => m = n

(* A notification tells what the row says, unless a revocation canceled    *)
(* the command later, and the success of a command issued as silent is     *)
(* never notified, whatever the defaults became in the meantime.           *)
NotificationIsTrue ==
    \A n \in DOMAIN notifications :
        LET e == eventLog[notifications[n]] IN
        /\ status[e.cmd] \in {e.outcome, "canceled"}
        /\ e.outcome = "acked" => policy[e.cmd] # "silent"

(* An event whose row exists or is still ahead of a recorder that will     *)
(* find it again after a restart.                                          *)
Durable(committed) == committed # Readers!NoOffset \/ readerRestarts = MaxReaderRestarts
WillBeRecorded(i) == i \in recorded \/ (i > recorderPos /\ Durable(recorderCommitted))

(* A published failure, timeout or always_notify success ahead of the      *)
(* notify worker is notified, although the worker may read it before the   *)
(* recorder has stored the row its foreign key needs, and although either  *)
(* may restart.  Every event from the worker's position on must be one the *)
(* recorder will store: an event it skips (a restart before its group has  *)
(* committed) blocks the worker, and all later notifications, for good.    *)
Deserves(i) == eventLog[i].outcome = "acked" => policy[eventLog[i].cmd] = "always_notify"
DeservingEventIsNotified ==
    \A i \in 1..Cardinality(Commands) :
        (/\ i \in DOMAIN eventLog /\ Deserves(i)
         /\ i > notifyPos /\ Durable(notifyCommitted)
         /\ \A j \in notifyPos + 1 .. i : WillBeRecorded(j))
            ~> Readers!Notified(i)
=============================================================================
