--------------------------- MODULE TelemetryIngest ---------------------------
(***************************************************************************)
(* The ingest service (ingest index.ts): every message the MQTT broker     *)
(* hands it runs in a handler of its own, which sends it to telemetry.raw  *)
(* or, if it is not acceptable or Kafka failed, to the dead letters.  The  *)
(* client acknowledges to the broker without waiting for the handler, and  *)
(* its session is clean: the broker keeps nothing while it is away.        *)
(***************************************************************************)
EXTENDS Integers, Sequences

CONSTANTS
    Messages,
    Acceptable,     \* those of the schema, within the limits on size and keys
    IngestFaults,   \* of "kafka", "kafka-down", "session", "stop"
    MaxGaps         \* how often the service is away or stops

VARIABLES
    subscribed, \* does the broker have its subscription?
    handling,   \* handlers at work on each message
    raw,        \* messages in telemetry.raw
    dlq,        \* the topic of dead letters
    gaps        \* times the service was away or stopped so far

ingestVars == <<subscribed, handling, raw, dlq, gaps>>

IngestInit ==
    /\ subscribed = FALSE
    /\ handling = [m \in Messages |-> 0]
    /\ raw = {} /\ dlq = <<>>
    /\ gaps = 0

(* A message published while there is no subscription is not kept for it.  *)
Hand(m) ==
    /\ handling' = IF subscribed THEN [handling EXCEPT ![m] = @ + 1] ELSE handling
    /\ UNCHANGED <<subscribed, raw, dlq, gaps>>

Handled(m) ==
    /\ handling[m] > 0
    /\ handling' = [handling EXCEPT ![m] = @ - 1]
    /\ UNCHANGED <<subscribed, gaps>>

SendRaw(m) ==
    /\ m \in Acceptable
    /\ Handled(m)
    /\ raw' = raw \cup {m}
    /\ UNCHANGED dlq

(* Mutant: what is not acceptable is only logged.                          *)
PublishDlqLogs(m) ==
    /\ m \notin Acceptable \/ "kafka" \in IngestFaults
    /\ Handled(m)
    /\ UNCHANGED <<raw, dlq>>

(* Not acceptable; or sending failed, which is caught with the parse       *)
(* errors and filed as JSON that does not parse.  Kafka may have kept the  *)
(* message that failed.                                                    *)
PublishDlq(m) ==
    /\ m \notin Acceptable \/ "kafka" \in IngestFaults
    /\ Handled(m)
    /\ dlq' = Append(dlq, m)
    /\ raw' \in {raw, raw \cup ({m} \cap Acceptable)}

Gap(fault) ==
    /\ fault \in IngestFaults
    /\ gaps < MaxGaps
    /\ gaps' = gaps + 1

(* Every handler at work is lost.                                          *)
Exit ==
    /\ subscribed' = FALSE
    /\ handling' = [m \in Messages |-> 0]
    /\ UNCHANGED <<raw, dlq>>

Stop == Gap("stop") /\ Exit

(* The dead letters cannot be sent either: nobody awaits the handler, and  *)
(* the process ends.                                                       *)
PublishDlqFails(m) == handling[m] > 0 /\ Gap("kafka-down") /\ Exit

SessionLost ==
    /\ subscribed
    /\ Gap("session")
    /\ subscribed' = FALSE
    /\ UNCHANGED <<handling, raw, dlq>>

Subscribe ==
    /\ ~subscribed
    /\ subscribed' = TRUE
    /\ UNCHANGED <<handling, raw, dlq, gaps>>

Handles == \E m \in Messages : SendRaw(m) \/ PublishDlq(m)

IngestStep ==
    \/ Handles \/ Subscribe
    \/ Stop \/ SessionLost \/ \E m \in Messages : PublishDlqFails(m)
=============================================================================
