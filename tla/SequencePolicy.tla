--------------------------- MODULE SequencePolicy ---------------------------
(***************************************************************************)
(* The rules by which telemetry-writer decides whether a sequence number   *)
(* that is not newer than the last one is a repeat or a device that began  *)
(* again, and how a message is merged into the device's shadow.            *)
(*                                                                         *)
(* A message is a record [dev, kind, seq, up, at, field, smoke]: its       *)
(* device, whether it is well formed and within the high-frequency budget, *)
(* seq and meta.uptime_s (which may be missing), the rank of received_ts,  *)
(* whether its meta has a field-profile identity key, and whether its note *)
(* is smoke_test.  A shadow is what device_state.state keeps of the        *)
(* messages merged into it; "from" is a history of which ones those are.   *)
(***************************************************************************)
EXTENDS Integers

NoSeq    == -1   \* seq is absent or null
NoUptime == -1   \* meta.uptime_s is absent

(* The shadow of a device without a row in device_state.                   *)
Blank == [seq |-> NoSeq, up |-> NoUptime, at |-> 0,
          field |-> FALSE, smoke |-> FALSE, from |-> {}]

ShouldDiscardSyntheticShadow(m, shadow) ==
    m.up # NoUptime /\ m.field /\ shadow.smoke

RolledBack(m, latestSeq) ==
    m.seq # NoSeq /\ latestSeq # NoSeq /\ m.seq <= latestSeq

UptimeRollback(m, shadow) ==
    shadow.up # NoUptime /\ m.up # NoUptime /\ m.up < shadow.up

(* A number that is not newer is accepted only from a producer that began  *)
(* again.                                                                  *)
EvaluateSequenceReset(m, shadow) ==
    UptimeRollback(m, shadow) \/ ShouldDiscardSyntheticShadow(m, shadow)

(* Fields the message lacks keep their earlier value.  Once a field-profile*)
(* device is known, only allowed keys are kept, and note is not one.       *)
BuildShadowState(i, m, shadow) ==
    LET previous  == IF ShouldDiscardSyntheticShadow(m, shadow) THEN Blank ELSE shadow
        sanitized == m.field \/ previous.field
    IN [seq   |-> IF m.seq = NoSeq THEN previous.seq ELSE m.seq,
        up    |-> IF m.up = NoUptime THEN previous.up ELSE m.up,
        at    |-> m.at,
        field |-> sanitized,
        smoke |-> ~sanitized /\ (m.smoke \/ previous.smoke),
        from  |-> previous.from \cup {i}]
=============================================================================
