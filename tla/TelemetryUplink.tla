--------------------------- MODULE TelemetryUplink ---------------------------
(***************************************************************************)
(* Gateway, broker, ingest and the recorder of dead letters together: what *)
(* TelemetrySpool's broker receives it hands to TelemetryIngest in the     *)
(* same step, once for every time it receives it.                          *)
(***************************************************************************)
EXTENDS TelemetrySpool

CONSTANTS Acceptable, IngestFaults, MaxGaps, MaxRecorderRestarts

VARIABLES subscribed, handling, raw, dlq, gaps,
          letters, recorderPos, recorderCommitted, recorderRestarts

Ingest   == INSTANCE TelemetryIngest WITH Messages <- Records
Recorder == INSTANCE DeadLetterRecorder

ingestVars   == <<subscribed, handling, raw, dlq, gaps>>
recorderVars == <<letters, recorderPos, recorderCommitted, recorderRestarts>>
uplinkVars   == <<vars, ingestVars, recorderVars>>

UplinkInit == Init /\ Ingest!IngestInit /\ Recorder!RecorderInit

HandOver ==
    \E r \in Records :
        /\ received'[r] # received[r]
        /\ Ingest!Hand(r)

ReceivedByBoth == BrokerReceives /\ HandOver

UplinkStep ==
    \/ GatewayStep /\ UNCHANGED <<ingestVars, recorderVars>>
    \/ ReceivedByBoth /\ UNCHANGED recorderVars
    \/ Ingest!IngestStep /\ UNCHANGED <<vars, recorderVars>>
    \/ Recorder!RecorderStep /\ UNCHANGED <<vars, ingestVars>>

(* Bounds: Kafka takes what it should from ingest where the gateway has a  *)
(* mishap, the recorder is not restarted where anything else fails, and    *)
(* commits that no restart reads are left out.                             *)
Bounded ==
    /\ mishaps' > 0 => \A i \in DOMAIN dlq' : dlq'[i] \notin Acceptable
    /\ recorderRestarts' * (gaps' + mishaps') = 0
    /\ recorderCommitted' # recorderCommitted => recorderRestarts + gaps + mishaps = 0

UplinkNext == UplinkStep /\ Bounded

Gateway(A) == A /\ UNCHANGED <<ingestVars, recorderVars>>

(* As for the gateway, and the ingest service runs its handlers and        *)
(* subscribes again, and the recorder takes the next letter.               *)
UplinkSpec ==
    /\ UplinkInit /\ [][UplinkNext]_uplinkVars
    /\ WF_uplinkVars(Gateway(EventLoop))
    /\ WF_uplinkVars(Gateway(ReplayOnTimer))
    /\ WF_uplinkVars(Gateway(ClientStep) \/ (ReceivedByBoth /\ UNCHANGED recorderVars))
    /\ WF_uplinkVars((Ingest!Handles \/ Ingest!Subscribe) /\ UNCHANGED <<vars, recorderVars>>)
    /\ WF_uplinkVars(Recorder!RecordLetter /\ UNCHANGED <<vars, ingestVars>>)
-----------------------------------------------------------------------------
(* Once the ingest service has subscribed, what the gateway files as       *)
(* published is in Kafka or on its way there, unless the service was away  *)
(* or stopped meanwhile: then it may be nowhere, and the gateway does not  *)
(* send it again.                                                          *)
Letters(r) == {i \in DOMAIN dlq : dlq[i] = r}
Missed(r)  == received[r] > 0 /\ handling[r] = 0 /\ r \notin raw /\ Letters(r) = {}
OnlyGapsLose ==
    [][\A r \in Records : (subscribed /\ Missed(r)' /\ ~Missed(r)) => gaps' > gaps]_uplinkVars

(* A letter the recorder has passed without a row: it started at the end   *)
(* of the topic before its group had committed an offset.                  *)
Skipped(r) ==
    /\ recorderRestarts > 0
    /\ \E i \in Letters(r) : i \notin letters /\ i <= recorderPos

(* A record on the gateway's disk reaches telemetry.raw, or is kept as a   *)
(* dead letter in PostgreSQL, in the end, although the gateway, the ingest *)
(* service and the recorder may each be interrupted: unless it is filed as *)
(* evidence, the broker received it while the ingest service was not       *)
(* there, or the recorder skipped its letter in a restart.                 *)
StoredIsKept ==
    \A r \in Records :
        r \in pending ~> \/ r \in raw \cup evidence
                        \/ Letters(r) \cap letters # {}
                        \/ Missed(r) \/ Skipped(r)
=============================================================================
