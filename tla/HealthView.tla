----------------------------- MODULE HealthView -----------------------------
(***************************************************************************)
(* The pure part of the site health view (platform/internal/site/          *)
(* healthview): which report an observer's slot keeps.                     *)
(*                                                                         *)
(* A view is a set of reports, at most one for each service and observer:  *)
(* the slots that have been filled.  What a report carries for a reader    *)
(* only (latency, the sender's clock, the error text) is left out.         *)
(***************************************************************************)
EXTENDS Naturals

CONSTANTS
  Service,   \* the units of the site's inventory
  Observer   \* the instance roles expected to report on every one of them

ASSUME HealthViewAssumption == Service # {} /\ Observer # {}

\* What an observer may report; "degraded" is a conclusion of the view.
ObservedStatus == {"unknown", "healthy", "unhealthy"}

SameSlot(a, b) == a.service = b.service /\ a.observer = b.observer

\* a is from a later incarnation of its observer, or said later in the same.
Later(a, b) ==
  \/ a.epoch > b.epoch
  \/ a.epoch = b.epoch /\ a.sequence > b.sequence

\* The reason Apply drops report r, or "none".
DropReason(view, r) ==
  LET held == {s \in view : SameSlot(s, r)}
  IN  CASE r.service \notin Service -> "unknown_target"
        [] r.service \in Service /\ r.observer \notin Observer -> "unknown_observer"
        [] /\ r.service \in Service /\ r.observer \in Observer
           /\ r.status \notin ObservedStatus -> "unusable_status"
        [] OTHER ->
             IF \A s \in held : Later(r, s) THEN "none"
             ELSE IF \E s \in held : Later(s, r) THEN "stale" ELSE "duplicate"

\* Variant: a slot takes whatever differs from what it holds.
ApplyLatestArrival(view, r) ==
  IF DropReason(view, r) \in {"none", "stale"}
  THEN {s \in view : ~SameSlot(s, r)} \cup {r}
  ELSE view

\* Variant: what a restarted observer says is judged by its sequence alone.
ApplyBySequence(view, r) ==
  IF /\ DropReason(view, r) \in {"none", "stale", "duplicate"}
     /\ \A s \in view : SameSlot(s, r) => r.sequence > s.sequence
  THEN {s \in view : ~SameSlot(s, r)} \cup {r}
  ELSE view

\* Variant: the inventory is not consulted.
ApplyUnlisted(view, r) ==
  IF DropReason(view, r) \notin {"stale", "duplicate"}
  THEN {s \in view : ~SameSlot(s, r)} \cup {r}
  ELSE view

\* The view after report r was applied or dropped.
Apply(view, r) ==
  IF DropReason(view, r) = "none"
  THEN {s \in view : ~SameSlot(s, r)} \cup {r}
  ELSE view

=============================================================================
