------------------------- MODULE DeadLetterRecorder -------------------------
(***************************************************************************)
(* telemetry-dlq-recorder: a consumer group on one partition of the dead   *)
(* letters, which keeps each of them as a row of telemetry_dlq_messages    *)
(* under its topic, partition and offset.                                  *)
(***************************************************************************)
EXTENDS Integers, Sequences

CONSTANT MaxRecorderRestarts    \* bound: restarts of the recorder

VARIABLES
    dlq,            \* the topic of dead letters
    letters,        \* the offsets that have a row
    recorderPos,    \* how far the consumer has resolved
    recorderCommitted,
    recorderRestarts

recorderVars == <<letters, recorderPos, recorderCommitted, recorderRestarts>>

NoOffset == -1

RecorderInit ==
    /\ letters = {}
    /\ recorderPos = 0
    /\ recorderCommitted = NoOffset
    /\ recorderRestarts = 0

(* Mutant: a letter whose INSERT throws is resolved like the others.       *)
RecordLetterOnce ==
    /\ recorderPos < Len(dlq)
    /\ letters' \in {letters, letters \cup {recorderPos + 1}}
    /\ recorderPos' = recorderPos + 1
    /\ UNCHANGED <<recorderCommitted, recorderRestarts>>

(* ON CONFLICT DO NOTHING.  An INSERT that throws changes nothing, and the *)
(* letter is fetched again.                                                *)
RecordLetter ==
    /\ recorderPos < Len(dlq)
    /\ letters' = letters \cup {recorderPos + 1}
    /\ recorderPos' = recorderPos + 1
    /\ UNCHANGED <<recorderCommitted, recorderRestarts>>

(* A batch ends when it has resolved something, and a letter it resolved   *)
(* has its row.                                                            *)
CommitLetters ==
    /\ recorderPos \in letters
    /\ recorderCommitted' = recorderPos
    /\ UNCHANGED <<letters, recorderPos, recorderRestarts>>

(* Without an offset the group starts at the end of the topic.             *)
RecorderRestart ==
    /\ recorderRestarts < MaxRecorderRestarts
    /\ recorderRestarts' = recorderRestarts + 1
    /\ recorderPos' = IF recorderCommitted = NoOffset THEN Len(dlq) ELSE recorderCommitted
    /\ UNCHANGED <<letters, recorderCommitted>>

RecorderStep == RecordLetter \/ CommitLetters \/ RecorderRestart
=============================================================================
