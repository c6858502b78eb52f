-------------------------- MODULE MCDeviceCommands --------------------------
(* Instances of DeviceCommands for TLC.                                    *)
EXTENDS DeviceCommands, TLC

CONSTANTS c1, c2, d1

MCCommands == {c1, c2}
MCDevices  == {d1}
MCDeviceOf == [c \in Commands |-> d1]

Symmetry == Permutations(Commands)

(* Bound of the liveness run: two commands of which none is answered, or   *)
(* one that is.                                                            *)
Focused ==
    handlers' # {} \/ ackLog' # <<>> => \A c \in Commands \ {c1} : api'[c] = "idle"

FocusedSpec ==
    /\ Init /\ [][Next /\ Focused]_vars
    /\ TimeoutFairness /\ DispatcherFairness /\ ConsumerFairness
=============================================================================
