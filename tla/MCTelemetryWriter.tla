-------------------------- MODULE MCTelemetryWriter --------------------------
EXTENDS TelemetryWriter

CONSTANTS d1, d2

Msg(d, k, s, u, t) == [dev |-> d, kind |-> k, seq |-> s, up |-> u, at |-> t,
                       field |-> TRUE, smoke |-> FALSE]

(* One boot of one device: increasing numbers and uptimes, and a malformed *)
(* message.                                                                *)
OneBoot == {Msg(d1, "bad", NoSeq, NoUptime, 1), Msg(d1, "ok", 1, 10, 1),
            Msg(d1, "ok", 2, 20, 1)}

(* A message that may be repeated, one over budget, another device, and a  *)
(* smoke test that the first field message replaces.                       *)
Smoke == [dev |-> d1, kind |-> "ok", seq |-> 2, up |-> NoUptime, at |-> 1,
          field |-> FALSE, smoke |-> TRUE]
Mixed == {Smoke, Msg(d1, "ok", 1, 10, 2), Msg(d1, "over", 2, NoUptime, 1),
          Msg(d2, "ok", NoSeq, 10, 1)}

Setting(ms, fs, max, n) ==
    [inputs |-> ms, faults |-> fs, batchMax |-> max, restarts |-> n]

(* A batch of one boot that data errors isolate, with a restart; repeats   *)
(* while everything else fails; and both, with one device.                 *)
ThreeSettings == {Setting(OneBoot, {"data"}, 3, 1),
                  Setting(Mixed, FaultKinds \ {"data"}, 2, 0),
                  Setting({m \in Mixed : m.dev = d1}, FaultKinds, 2, 0)}

(* One boot, and ClickHouse out of reach.                                  *)
Outage == {Setting(OneBoot, {"outage"}, 2, 0)}
=============================================================================
