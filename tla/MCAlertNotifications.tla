------------------------ MODULE MCAlertNotifications ------------------------
(* u1 subscribes to a device and to its station, the latter with a quiet   *)
(* time and for severe alerts only; u2 has a quiet time.                   *)
EXTENDS AlertNotifications

CONSTANTS u1, u2, device1, station1, device2, k1, k2

MCUserOf == [s \in Subscriptions |-> IF s = device2 THEN u2 ELSE u1]
MCMinLevel == [x \in Subscriptions \cup Contacts |-> IF x \in {station1, k2} THEN 2 ELSE 1]
MCNightSubs == {station1, device2}
=============================================================================
