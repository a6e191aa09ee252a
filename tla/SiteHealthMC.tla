---------------------------- MODULE SiteHealthMC ----------------------------
(* Instances of SiteHealth small enough for TLC: who restarts and who reports. *)
EXTENDS SiteHealth

CONSTANTS primary, standby   \* instances

\* Each may be restarted once.
EachRestarts == [i \in Observer |-> 2]

\* The Primary may be restarted once and activated once.
PrimaryRestartsActivated == [i \in Observer |-> IF i = primary THEN 3 ELSE 1]

\* The Primary reports often enough for its epochs and its sequences to
\* disagree on which of two reports is the later; the Standby listens.
SiteReports == [i \in Observer |-> IF i = primary THEN 3 ELSE 0]

\* The Primary, alone, reports twice.
PrimaryReportsTwice == [i \in Observer |-> IF i = primary THEN 2 ELSE 0]

=============================================================================
