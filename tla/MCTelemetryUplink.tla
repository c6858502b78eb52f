-------------------------- MODULE MCTelemetryUplink --------------------------
EXTENDS TelemetryUplink

(* The second and the third payload arrive in one millisecond.             *)
MCStamp == <<1, 2, 2>>
MCStampTwo == <<1, 2>>
=============================================================================
