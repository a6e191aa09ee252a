------------------------------- MODULE SuiteMC -------------------------------
(* Suite on a host with a budget of two and one build slot: two scenarios of one *)
(* machine, and one of more machines than there is room for.                     *)
EXTENDS Suite

CONSTANTS small, other, large

Sizes == [s \in Scenario |-> IF s = large THEN 3 ELSE 1]
OnePort == [s \in Scenario |-> 1]
=============================================================================
