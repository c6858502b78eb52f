------------------------- MODULE CommandPathProofs -------------------------
(***************************************************************************)
(* The safety of the abstract lifecycle, and of the two workers that read  *)
(* its events, for every set of commands, settlers and command types.      *)
(* OneOutcomePerCommand is not inductive alone: a second settlement is     *)
(* impossible because a command that is owed or announced is no longer     *)
(* open, which is EventMatchesRow.                                         *)
(***************************************************************************)
EXTENDS CommandPath, TLAPS

IInv == TypeOK /\ OneOutcomePerCommand /\ EventMatchesRow

(* The initial state has no rows, debts or events.                         *)
LEMMA InitIInv == Init => IInv
  BY DEF Init, IInv, TypeOK, OneOutcomePerCommand, EventMatchesRow, Statuses

(* What is announced and what is owed is about commands and outcomes.      *)
LEMMA Elements ==
  ASSUME TypeOK
  PROVE  /\ \A i \in DOMAIN eventLog :
               eventLog[i].cmd \in Commands /\ eventLog[i].outcome \in Outcomes
         /\ \A e \in owed : e.cmd \in Commands /\ e.outcome \in Outcomes
<1>1. \A i \in DOMAIN eventLog : eventLog[i] \in Events
  BY DEF TypeOK
<1>2. \A e \in owed : e \in Owed
  BY DEF TypeOK
<1> QED BY <1>1, <1>2 DEF Events, Owed

(* A publish moves one debt of one command to the end of the events topic. *)
LEMMA AnnounceIInv ==
  ASSUME IInv, NEW e \in owed, Announce(e)
  PROVE  IInv'
<1> USE DEF IInv
<1>1. /\ owed' = owed \ {e}
      /\ eventLog' = Append(eventLog, [cmd |-> e.cmd, outcome |-> e.outcome])
      /\ status' = status
  BY DEF Announce
<1>2. [cmd |-> e.cmd, outcome |-> e.outcome] \in Events
  BY DEF TypeOK, Owed, Events
<1>3. /\ Len(eventLog') = Len(eventLog) + 1
      /\ DOMAIN eventLog = 1..Len(eventLog)
      /\ DOMAIN eventLog' = 1..Len(eventLog) + 1
      /\ \A i \in 1..Len(eventLog) : eventLog'[i] = eventLog[i]
      /\ eventLog'[Len(eventLog) + 1] = [cmd |-> e.cmd, outcome |-> e.outcome]
      /\ Len(eventLog) \in Nat
  BY <1>1, <1>2 DEF TypeOK
<1>4. TypeOK'
  BY <1>1, <1>2 DEF TypeOK
<1>5. OneOutcomePerCommand'
  <2>1. \A i \in DOMAIN eventLog : eventLog[i].cmd # e.cmd
    BY DEF OneOutcomePerCommand
  <2>2. \A i, j \in DOMAIN eventLog' : eventLog'[i].cmd = eventLog'[j].cmd => i = j
    BY <1>3, <2>1 DEF OneOutcomePerCommand
  <2>3. \A f, g \in owed' : f.cmd = g.cmd => f = g
    BY <1>1 DEF OneOutcomePerCommand
  <2>4. \A f \in owed' : \A i \in DOMAIN eventLog' : eventLog'[i].cmd # f.cmd
    BY <1>1, <1>3 DEF OneOutcomePerCommand
  <2> QED BY <2>2, <2>3, <2>4 DEF OneOutcomePerCommand
<1>6. EventMatchesRow'
  BY <1>1, <1>3 DEF EventMatchesRow, Agrees
<1> QED BY <1>4, <1>5, <1>6

(* A settlement is the only step that adds a debt, and only for an open    *)
(* command, which nobody owes and nobody has announced.                    *)
LEMMA SettleIInv ==
  ASSUME IInv, NEW p \in Settlers, NEW c \in Commands, NEW o \in Outcomes, Settle(p, c, o)
  PROVE  IInv'
<1> USE DEF IInv
<1> DEFINE new == [by |-> p, cmd |-> c, outcome |-> o]
<1>1. /\ status[c] \in Open
      /\ status' = [status EXCEPT ![c] = o]
      /\ owed' = owed \cup {new}
      /\ eventLog' = eventLog
  BY DEF Settle
<1>2. /\ \A i \in DOMAIN eventLog : eventLog[i].cmd # c
      /\ \A f \in owed : f.cmd # c
  BY <1>1, Elements DEF EventMatchesRow, Agrees, Open, Outcomes
<1>3. TypeOK'
  BY <1>1 DEF TypeOK, Statuses, Owed
<1>4. OneOutcomePerCommand'
  BY <1>1, <1>2 DEF OneOutcomePerCommand
<1>5. EventMatchesRow'
  <2>1. \A i \in DOMAIN eventLog : eventLog[i].cmd \in Commands /\ eventLog[i].cmd # c
    BY <1>2, Elements
  <2>2. \A f \in owed : f.cmd \in Commands /\ f.cmd # c
    BY <1>2, Elements
  <2>3. \A d \in Commands \ {c} : status'[d] = status[d]
    BY <1>1 DEF TypeOK
  <2>4. status'[c] = o
    BY <1>1 DEF TypeOK
  <2> QED BY <1>1, <2>1, <2>2, <2>3, <2>4 DEF EventMatchesRow, Agrees
<1> QED BY <1>3, <1>4, <1>5

(* A row changes without a settlement only towards sent, from queued, or   *)
(* towards canceled: what is owed or announced of it still agrees.         *)
LEMMA RowIInv ==
  ASSUME IInv, NEW c \in Commands, Issue(c) \/ Send(c) \/ Cancel(c)
  PROVE  IInv'
<1> USE DEF IInv
<1>1. PICK s \in Statuses : /\ status' = [status EXCEPT ![c] = s]
                            /\ s = "canceled" \/ status[c] \in {"absent", "queued"}
  BY DEF Issue, Send, Cancel, Statuses, Open
<1>2. UNCHANGED <<owed, eventLog>>
  BY DEF Issue, Send, Cancel
<1>3. TypeOK'
  BY <1>1, <1>2 DEF TypeOK
<1>4. OneOutcomePerCommand'
  BY <1>2 DEF OneOutcomePerCommand
<1>5. EventMatchesRow'
  <2>1. ASSUME NEW e, e.cmd \in Commands, e.outcome \in Outcomes, Agrees(e)
        PROVE  status'[e.cmd] \in {e.outcome, "canceled"}
    BY <1>1, <2>1 DEF Agrees, TypeOK, Outcomes
  <2>2. /\ \A i \in DOMAIN eventLog : eventLog[i].cmd \in Commands /\ eventLog[i].outcome \in Outcomes
        /\ \A e \in owed : e.cmd \in Commands /\ e.outcome \in Outcomes
    BY Elements
  <2> QED BY <1>2, <2>1, <2>2 DEF EventMatchesRow, Agrees
<1> QED BY <1>3, <1>4, <1>5

LEMMA NextIInv == IInv /\ [Next]_vars => IInv'
<1> SUFFICES ASSUME IInv, [Next]_vars PROVE IInv'
  OBVIOUS
<1>1. CASE \E c \in Commands : Issue(c) \/ Send(c) \/ Cancel(c)
  BY <1>1, RowIInv
<1>2. CASE \E p \in Settlers, c \in Commands, o \in Outcomes : Settle(p, c, o)
  BY <1>2, SettleIInv
<1>3. CASE \E e \in owed : Announce(e)
  BY <1>3, AnnounceIInv
<1>4. CASE \E S \in SUBSET owed : Lose(S)
  BY <1>4 DEF IInv, Lose, TypeOK, OneOutcomePerCommand, EventMatchesRow, Agrees
<1>5. CASE UNCHANGED vars
  BY <1>5 DEF IInv, vars, TypeOK, OneOutcomePerCommand, EventMatchesRow, Agrees
<1> QED BY <1>1, <1>2, <1>3, <1>4, <1>5 DEF Next

(* Every reachable state of the abstract lifecycle is well typed, has at   *)
(* most one outcome per command, and announces what the rows say.          *)
THEOREM LifecycleSafety == Spec => [](TypeOK /\ OneOutcomePerCommand /\ EventMatchesRow)
  BY InitIInv, NextIInv, PTL DEF Spec, IInv

(* A step keeps every outcome or cancels it, and keeps acked and canceled. *)
OutcomeIsFinalStep ==
    \A c \in Commands :
        /\ status[c] \in Outcomes => status'[c] \in {status[c], "canceled"}
        /\ status[c] \in {"acked", "canceled"} => status'[c] = status[c]

LEMMA NextOutcomeIsFinal == IInv /\ [Next]_vars => OutcomeIsFinalStep
<1> SUFFICES ASSUME IInv, [Next]_vars PROVE OutcomeIsFinalStep
  OBVIOUS
<1>1. CASE \E c \in Commands : Issue(c) \/ Send(c) \/ Cancel(c)
  BY <1>1 DEF IInv, TypeOK, Issue, Send, Cancel, OutcomeIsFinalStep, Outcomes
<1>2. CASE \E p \in Settlers, c \in Commands, o \in Outcomes : Settle(p, c, o)
  BY <1>2 DEF IInv, TypeOK, Settle, OutcomeIsFinalStep, Outcomes, Open
<1>3. CASE \E e \in owed : Announce(e)
  BY <1>3 DEF Announce, OutcomeIsFinalStep
<1>4. CASE \E S \in SUBSET owed : Lose(S)
  BY <1>4 DEF Lose, OutcomeIsFinalStep
<1>5. CASE UNCHANGED vars
  BY <1>5 DEF vars, OutcomeIsFinalStep
<1> QED BY <1>1, <1>2, <1>3, <1>4, <1>5 DEF Next

(* Outcomes are final in every behaviour of the abstract lifecycle.        *)
THEOREM LifecycleOutcomeIsFinal == Spec => [][OutcomeIsFinalStep]_vars
<1>1. IInv /\ [Next]_vars => [OutcomeIsFinalStep]_vars
  BY NextOutcomeIsFinal
<1>2. Spec => []IInv
  BY InitIInv, NextIInv, PTL DEF Spec
<1> QED BY <1>1, <1>2, PTL DEF Spec
-----------------------------------------------------------------------------
(***************************************************************************)
(* The readers.  A notification refers to a recorded event, no two refer   *)
(* to the same one, and the worker has read the row's policy.              *)
(***************************************************************************)
Positions == 0..Len(eventLog)

ReadersTypeOK ==
    /\ policy \in [Commands -> Readers!Policies]
    /\ recorded \subseteq DOMAIN eventLog
    /\ recorderPos \in Positions
    /\ recorderCommitted \in Positions \cup {Readers!NoOffset}
    /\ notifications \in Seq(Nat)
    /\ notifyPos \in Positions
    /\ notifyCommitted \in Positions \cup {Readers!NoOffset}

(* The foreign key of device_command_notifications.                        *)
NotifiedIsRecorded == \A n \in DOMAIN notifications : notifications[n] \in recorded

EventNotifiedOnce ==
    \A m, n \in DOMAIN notifications : notifications[m] = notifications[n] => m = n

SilentIsNotNotified ==
    \A n \in DOMAIN notifications :
        LET e == eventLog[notifications[n]] IN
            e.outcome = "acked" => policy[e.cmd] # "silent"

ReadersInv ==
    /\ ReadersTypeOK
    /\ NotifiedIsRecorded
    /\ EventNotifiedOnce
    /\ SilentIsNotNotified

PathInv == IInv /\ ReadersInv

LEMMA InitPathInv == PathInit => PathInv
  BY InitIInv DEF PathInit, PathInv, ReadersInv, ReadersTypeOK, NotifiedIsRecorded,
     EventNotifiedOnce, SilentIsNotNotified, Readers!Init, Readers!NoOffset, Positions, Init

(* The pipeline only appends to the topic.                                 *)
LEMMA TopicGrows ==
  ASSUME IInv, [Next]_vars
  PROVE  /\ DOMAIN eventLog \subseteq DOMAIN eventLog'
         /\ \A i \in DOMAIN eventLog : eventLog'[i] = eventLog[i]
         /\ Len(eventLog) \in Nat /\ Len(eventLog') \in Nat /\ Len(eventLog) <= Len(eventLog')
         /\ DOMAIN eventLog = 1..Len(eventLog)
<1>1. eventLog \in Seq(Events)
  BY DEF IInv, TypeOK
<1>2. CASE UNCHANGED eventLog
  BY <1>1, <1>2
<1>3. CASE \E e \in owed : Announce(e)
  <2>1. PICK e \in owed : eventLog' = Append(eventLog, [cmd |-> e.cmd, outcome |-> e.outcome])
    BY <1>3 DEF Announce
  <2>2. [cmd |-> e.cmd, outcome |-> e.outcome] \in Events
    BY DEF IInv, TypeOK, Owed, Events
  <2> QED BY <1>1, <2>1, <2>2
<1> QED BY <1>2, <1>3 DEF Next, vars, Issue, Send, Cancel, Settle, Lose

(* What the readers hold of the topic stays true as it grows.              *)
LEMMA PipelineStepReaders ==
  ASSUME PathInv, [Next]_vars, UNCHANGED readerVars
  PROVE  ReadersInv'
<1> USE DEF PathInv, ReadersInv, readerVars
<1>1. /\ DOMAIN eventLog \subseteq DOMAIN eventLog'
      /\ \A i \in DOMAIN eventLog : eventLog'[i] = eventLog[i]
      /\ Positions \subseteq Positions'
  BY TopicGrows DEF Positions
<1>2. ReadersTypeOK'
  BY <1>1 DEF ReadersTypeOK
<1>3. SilentIsNotNotified'
  BY <1>1 DEF SilentIsNotNotified, NotifiedIsRecorded, ReadersTypeOK
<1> QED BY <1>2, <1>3 DEF NotifiedIsRecorded, EventNotifiedOnce

(* An INSERT adds the event the worker is at, recorded, not notified yet,  *)
(* and not a success the row's policy keeps silent.                        *)
LEMMA InsertReaders ==
  ASSUME PathInv, Readers!InsertNotification, UNCHANGED vars
  PROVE  ReadersInv'
<1> USE DEF PathInv, ReadersInv
<1>1. /\ Len(eventLog) \in Nat
      /\ DOMAIN eventLog = 1..Len(eventLog)
      /\ notifyPos \in Nat /\ notifyPos < Len(eventLog)
      /\ eventLog' = eventLog
  BY DEF IInv, TypeOK, ReadersTypeOK, Readers!InsertNotification, Positions, vars
<1>2. /\ UNCHANGED <<policy, recorded, recorderPos, recorderCommitted, notifyCommitted>>
      /\ notifyPos' = notifyPos + 1
      /\ notifyPos + 1 \in recorded
  BY DEF Readers!InsertNotification, Readers!configVars, Readers!recorderVars, Readers!Next1
<1>3. CASE notifications' = notifications
  BY <1>1, <1>2, <1>3 DEF ReadersTypeOK, Positions, NotifiedIsRecorded, EventNotifiedOnce,
     SilentIsNotNotified
<1>4. CASE /\ ~Readers!Notified(notifyPos + 1)
           /\ notifications' = Append(notifications, notifyPos + 1)
  <2>1. /\ Len(notifications) \in Nat
        /\ DOMAIN notifications = 1..Len(notifications)
        /\ DOMAIN notifications' = 1..Len(notifications) + 1
        /\ \A n \in DOMAIN notifications : notifications'[n] = notifications[n]
        /\ notifications'[Len(notifications) + 1] = notifyPos + 1
        /\ notifications' \in Seq(Nat)
    BY <1>1, <1>4 DEF ReadersTypeOK
  <2>2. \A n \in DOMAIN notifications : notifications[n] # notifyPos + 1
    BY <1>4 DEF Readers!Notified
  <2> DEFINE e == eventLog[notifyPos + 1]
  <2>3. e.outcome = "acked" => policy[e.cmd] # "silent"
    BY DEF Readers!InsertNotification, Readers!ShouldNotify, Readers!SuccessPolicy, Readers!Next1
  <2>4. ReadersTypeOK'
    BY <1>1, <1>2, <2>1 DEF ReadersTypeOK, Positions
  <2>5. NotifiedIsRecorded'
    BY <1>2, <2>1 DEF NotifiedIsRecorded
  <2>6. EventNotifiedOnce'
    BY <2>1, <2>2 DEF EventNotifiedOnce
  <2>7. SilentIsNotNotified'
    BY <1>1, <1>2, <2>1, <2>3 DEF SilentIsNotNotified
  <2> QED BY <2>4, <2>5, <2>6, <2>7
<1> QED BY <1>3, <1>4 DEF Readers!InsertNotification, Readers!Next1

LEMMA ReadersStepReaders ==
  ASSUME PathInv, Readers!ReadersNext, UNCHANGED vars
  PROVE  ReadersInv'
<1> USE DEF PathInv, ReadersInv, Readers!configVars, Readers!recorderVars, Readers!notifyVars,
            Positions
<1>1. /\ Len(eventLog) \in Nat
      /\ DOMAIN eventLog = 1..Len(eventLog)
      /\ eventLog' = eventLog
  BY DEF IInv, TypeOK, vars
<1> DEFINE Kept == NotifiedIsRecorded' /\ EventNotifiedOnce' /\ SilentIsNotNotified'
<1>2. ASSUME UNCHANGED <<policy, notifications>>, recorded \subseteq recorded'
      PROVE  Kept
  BY <1>1, <1>2 DEF NotifiedIsRecorded, EventNotifiedOnce, SilentIsNotNotified
<1>3. ASSUME NEW choice \in ConfigChoices, Readers!UpdatePolicy(choice) PROVE ReadersInv'
  BY <1>1, <1>2, <1>3 DEF Readers!UpdatePolicy, ReadersTypeOK
<1>4. CASE Readers!RecordEvent
  BY <1>1, <1>2, <1>4 DEF Readers!RecordEvent, ReadersTypeOK
<1>5. CASE Readers!RecorderCommitOffsets
  BY <1>1, <1>2, <1>5 DEF Readers!RecorderCommitOffsets, ReadersTypeOK
<1>6. CASE Readers!RecorderRestart
  BY <1>1, <1>2, <1>6 DEF Readers!RecorderRestart, ReadersTypeOK, Readers!ResumeAt
<1>7. CASE Readers!SkipEvent
  BY <1>1, <1>2, <1>7 DEF Readers!SkipEvent, ReadersTypeOK
<1>8. CASE Readers!InsertNotification
  BY <1>8, InsertReaders
<1>9. CASE Readers!NotifyCommitOffsets
  BY <1>1, <1>2, <1>9 DEF Readers!NotifyCommitOffsets, ReadersTypeOK
<1>10. CASE Readers!NotifyRestart
  BY <1>1, <1>2, <1>10 DEF Readers!NotifyRestart, ReadersTypeOK, Readers!ResumeAt
<1> QED BY <1>3, <1>4, <1>5, <1>6, <1>7, <1>8, <1>9, <1>10 DEF Readers!ReadersNext

LEMMA NextPathInv == PathInv /\ [PathNext]_pathVars => PathInv'
<1> SUFFICES ASSUME PathInv, [PathNext]_pathVars PROVE PathInv'
  OBVIOUS
<1>1. ASSUME [Next]_vars, UNCHANGED readerVars PROVE PathInv'
  BY <1>1, NextIInv, PipelineStepReaders DEF PathInv
<1>2. ASSUME Readers!ReadersNext, UNCHANGED vars PROVE PathInv'
  BY <1>2, NextIInv, ReadersStepReaders DEF PathInv
<1> QED BY <1>1, <1>2 DEF PathNext, pathVars

LEMMA PathInvImplies == PathInv => OneNotificationPerCommand /\ NotificationIsTrue
<1> SUFFICES ASSUME PathInv PROVE OneNotificationPerCommand /\ NotificationIsTrue
  OBVIOUS
<1>1. \A n \in DOMAIN notifications : notifications[n] \in DOMAIN eventLog
  BY DEF PathInv, ReadersInv, NotifiedIsRecorded, ReadersTypeOK
<1>2. OneNotificationPerCommand
  BY <1>1 DEF PathInv, IInv, OneOutcomePerCommand, ReadersInv, EventNotifiedOnce,
     OneNotificationPerCommand
<1>3. NotificationIsTrue
  BY <1>1 DEF PathInv, IInv, EventMatchesRow, Agrees, ReadersInv, SilentIsNotNotified,
     NotificationIsTrue
<1> QED BY <1>2, <1>3

(* In every instance, whatever is redelivered and whoever restarts, no     *)
(* command has two notifications.                                          *)
THEOREM PathOneNotification == PathSpec => []OneNotificationPerCommand
<1>1. PathInv => OneNotificationPerCommand
  BY PathInvImplies
<1> QED BY <1>1, InitPathInv, NextPathInv, PTL DEF PathSpec

(* In every instance, a notification tells what the row says, or said      *)
(* before its cancellation, and never a success issued as silent.          *)
THEOREM PathNotificationIsTrue == PathSpec => []NotificationIsTrue
<1>1. PathInv => NotificationIsTrue
  BY PathInvImplies
<1> QED BY <1>1, InitPathInv, NextPathInv, PTL DEF PathSpec
=============================================================================
