----------------------------- MODULE AlertAlarm -----------------------------
(***************************************************************************)
(* AlertAlarmService of the HarmonyOS app: the alarm sound of an alert.    *)
(* start() and stop() are called by the page (module AlertPanel) and never *)
(* awaited.  start() loads the sound, asks the pool to play it and learns  *)
(* the id of the stream when the pool answers; stop() can only stop a      *)
(* stream whose id is known.  requestVersion cancels a start that was      *)
(* overtaken before it reached the pool, so at most one start is left in   *)
(* that part.  Left out: the vibration, and release() when the page ends.  *)
(***************************************************************************)
EXTENDS Naturals

CONSTANT MaxStreams    \* bound: streams the pool has under way at once

VARIABLES
    desiredPlaying,
    starting,      \* a start is waiting for the sound to be loaded
    awaiting,      \* streams whose play call has not been answered
    streamId,      \* the stream the service knows, 0 if none
    playing        \* the stream that sounds; the pool holds one at a time

vars == <<desiredPlaying, starting, awaiting, streamId, playing>>

Streams == 1..MaxStreams

Init ==
    /\ desiredPlaying = FALSE
    /\ starting = FALSE
    /\ awaiting = {}
    /\ streamId = 0
    /\ playing = 0

StopCurrentStream ==
    /\ streamId' = 0
    /\ playing' = IF playing = streamId THEN 0 ELSE playing

(* A call of start() or of stop(), as far as its first await.              *)
StartAlarm ==
    /\ desiredPlaying' = TRUE
    /\ starting' = TRUE
    /\ StopCurrentStream
    /\ UNCHANGED awaiting

StopAlarm ==
    /\ desiredPlaying' = FALSE
    /\ starting' = FALSE
    /\ StopCurrentStream
    /\ UNCHANGED awaiting

(* The sound is loaded and the start is still the latest: the pool plays.  *)
PlaySound ==
    /\ starting
    /\ starting' = FALSE
    /\ \E s \in Streams \ (awaiting \cup {streamId, playing}) :
        /\ awaiting' = awaiting \cup {s}
        /\ playing' = s
    /\ UNCHANGED <<desiredPlaying, streamId>>

LoadSoundFails ==
    /\ starting
    /\ starting' = FALSE
    /\ UNCHANGED <<desiredPlaying, awaiting, streamId, playing>>

(* The answer names the stream; nothing looks whether it is still wanted.  *)
PlayAnswered ==
    /\ \E s \in awaiting :
        /\ awaiting' = awaiting \ {s}
        /\ streamId' = s
    /\ UNCHANGED <<desiredPlaying, starting, playing>>

PlayFails ==
    /\ \E s \in awaiting :
        /\ awaiting' = awaiting \ {s}
        /\ playing' = IF playing = s THEN 0 ELSE playing
    /\ streamId' = 0
    /\ UNCHANGED <<desiredPlaying, starting>>

Next ==
    \/ StartAlarm \/ StopAlarm
    \/ PlaySound \/ LoadSoundFails
    \/ PlayAnswered \/ PlayFails

Spec == Init /\ [][Next]_vars

(* An alarm that was muted or resolved last is silent once every call of   *)
(* the service has come to its end.  It is not: a stop while pool.play is  *)
(* awaited finds no stream to stop, the answer then records one that       *)
(* nobody wants, and it loops until the next start or stop.                *)
SilentWhenStopped ==
    ~desiredPlaying /\ ~starting /\ awaiting = {} => playing = 0
=============================================================================
