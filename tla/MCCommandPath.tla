--------------------------- MODULE MCCommandPath ---------------------------
(* An instance of CommandPath for TLC: commands of a type with a built-in  *)
(* default, which the table an operator may save does not name.            *)
EXTENDS CommandPath

CONSTANTS c1, c2

MCCommands     == {c1, c2}
MCCommandTypes == {"reboot", "ping"}
MCTypeOf       == [c \in Commands |-> "reboot"]
MCBuiltIn      == [t \in {"reboot"} |-> "always_notify"]
MCChoices      == {<<"silent", [t \in {"ping"} |-> "always_notify"]>>}

ASSUME InstanceAssumption == ConstantsOK
=============================================================================
