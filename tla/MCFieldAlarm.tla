---------------------------- MODULE MCFieldAlarm ----------------------------
(* Instances of FieldAlarm for TLC.                                        *)
EXTENDS FieldAlarm

CONSTANTS k1, k2

OneKey  == {k1}
TwoKeys == {k1, k2}
=============================================================================
