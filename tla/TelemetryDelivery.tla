------------------------- MODULE TelemetryDelivery -------------------------
(***************************************************************************)
(* What the gateway's spool promises of telemetry: at-least-once delivery  *)
(* to the MQTT broker.  A record the gateway has taken on is held until    *)
(* the broker has it or the record is filed as evidence; it is never       *)
(* dropped in silence, and nothing is sent that was not taken on.          *)
(***************************************************************************)
CONSTANT Records

VARIABLES
    held,       \* records the gateway answers for
    received,   \* records the broker has received at least once
    evidence    \* records filed as rejected, for an operator to see

vars == <<held, received, evidence>>

Init == held = {} /\ received = {} /\ evidence = {}

Accept(r) ==
    /\ r \notin held
    /\ held' = held \cup {r}
    /\ UNCHANGED <<received, evidence>>

Receive(r) ==
    /\ r \in held
    /\ received' = received \cup {r}
    /\ UNCHANGED <<held, evidence>>

Release(r) ==
    /\ r \in held \cap received
    /\ held' = held \ {r}
    /\ UNCHANGED <<received, evidence>>

(* Evidence may be filed of a record that was never taken on, and of one   *)
(* that still is.                                                          *)
File(r) ==
    /\ evidence' = evidence \cup {r}
    /\ UNCHANGED <<held, received>>

GiveUp(r) ==
    /\ r \in held \cap evidence
    /\ held' = held \ {r}
    /\ UNCHANGED <<received, evidence>>

Next ==
    \E r \in Records :
        Accept(r) \/ Receive(r) \/ Release(r) \/ File(r) \/ GiveUp(r)

Spec == Init /\ [][Next]_vars
=============================================================================
