------------------------------- MODULE Lease -------------------------------
(***************************************************************************)
(* The machine's ownership lease (platform/internal/machine/redundancy/    *)
(* lease.go): the record a machine's two instances take turns holding and  *)
(* the pure decisions made on one copy of it.  Reading and writing the     *)
(* file are steps of the module Ownership.                                 *)
(*                                                                         *)
(* Time is relative: the present instant is 0, an expiry in the future is  *)
(* positive, one in the past negative, and the passage of one unit of time *)
(* moves every stored instant down by one (Older).  Instants further back  *)
(* than Horizon are not told apart.  Both instances share one host, hence  *)
(* one clock.                                                              *)
(***************************************************************************)
EXTENDS Integers

CONSTANTS
  Duration,               \* validity of a grant that is not renewed
  RenewalInterval,        \* period of the owner's renewal loop
  HealthCheckInterval,    \* period of promotion and failback checks
  FailbackStabilization,  \* how long the Primary must look healthy; 0 = off
  Horizon                 \* instants older than this are one instant

\* OpenLease refuses anything else (the Horizon is the model's own bound).
ASSUME LeaseAssumption ==
  /\ Duration \in Nat \ {0}
  /\ RenewalInterval \in Nat \ {0}
  /\ HealthCheckInterval \in Nat \ {0}
  /\ RenewalInterval < Duration
  /\ FailbackStabilization \in Nat
  /\ Horizon \in Nat
  /\ Horizon >= Duration

Roles == {"primary", "standby"}

Peer(i) == IF i = "primary" THEN "standby" ELSE "primary"

Instants == -Horizon .. Duration

(***************************************************************************)
(* A grant names its owner's role, its expiry, and whether the owner gave  *)
(* it up.  NoGrant stands for a file nobody has written yet.  The writer's *)
(* process id is in the file as well, but no decision ever reads it.       *)
(***************************************************************************)
Grants == [owner : Roles \cup {"none"}, expires : Instants, released : BOOLEAN]

NoGrant == [owner |-> "none", expires |-> 0, released |-> FALSE]

Names(g, role) == g.owner = role

Expired(g, now) == now >= g.expires

\* tryAcquire's test: nothing there, given up, or lapsed.
Free(g, now) == g.owner = "none" \/ g.released \/ Expired(g, now)

\* observe: a release outranks expiry.
Availability(g, now) ==
  CASE g.owner = "none"                  -> "absent"
    [] g.owner # "none" /\ g.released    -> "released"
    [] g.owner # "none" /\ ~g.released /\ Expired(g, now)  -> "lapsed"
    [] OTHER                             -> "held"

Granted(role, now) ==
  [owner |-> role, expires |-> now + Duration, released |-> FALSE]

RenewedInPlace(g, now) == [g EXCEPT !.released = FALSE]

Renewed(g, now) == [g EXCEPT !.expires = now + Duration, !.released = FALSE]

GivenUp(g) == [g EXCEPT !.released = TRUE]

\* startRenewal's grace test on the owner's own expiry, at the present instant:
\* time.Now().After(expiry - RenewalInterval).  The clock is read while the
\* present unit of time runs, so on the boundary it may give either answer.
PastGrace(expires) == 0 >= expires - RenewalInterval
WithinGrace(expires) == 0 <= expires - RenewalInterval

\* One unit of time passes.
Older(t) == IF t > -Horizon THEN t - 1 ELSE t

OlderGrant(g) ==
  IF g.owner = "none" THEN g ELSE [g EXCEPT !.expires = Older(@)]
=============================================================================
