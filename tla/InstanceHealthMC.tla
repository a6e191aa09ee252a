-------------------------- MODULE InstanceHealthMC --------------------------
(* The two instances of a machine, whose phases do not coincide, for TLC. *)
EXTENDS InstanceHealth

CONSTANTS primary, standby   \* roles

Phases == [o \in Observer |-> IF o = primary THEN Interval - 1 ELSE 0]

=============================================================================
