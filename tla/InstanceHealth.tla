--------------------------- MODULE InstanceHealth ---------------------------
(***************************************************************************)
(* What instances answer about themselves, over ServiceProbe: each         *)
(* observer's /health and what its peer makes of it (platform/api's        *)
(* NewHealth, eventfabric's Check, app/lease.go's peerHealthCheck), and    *)
(* what the reader, an instance of another machine, says of the site's     *)
(* distribution (app/servicehealth.go).                                    *)
(***************************************************************************)
EXTENDS ServiceProbe, FiniteSets

CONSTANTS
  CheckTimeout,   \* bound of one round trip through the own broker
  PeerTimeout     \* bound of the peer's request

VARIABLE own      \* how old each observer's own report is in its own view, or -1

ivars == <<vars, own>>

InitInstances == Init /\ own = [o \in Observer |-> -1]

\* Variant: the own view is told by the report that was sent.
OwnAppliedAsSent(o) ==
  own' = [own EXCEPT ![o] = IF wire'[o].status # "none" THEN 0 ELSE @]

\* localSink.Observed: the own view is told whatever becomes of the report.
OwnApplied(o) == own' = [own EXCEPT ![o] = 0]

Aged == own' = [o \in Observer |-> IF own[o] = -1 THEN -1 ELSE Older(own[o], Expired)]

NextInstances ==
  \/ (Change \/ BreakDown \/ \E o \in Observer : Start(o) \/ Begin(o) \/ Deliver(o)) /\ UNCHANGED own
  \/ \E o \in Observer, answered \in BOOLEAN : EndAttempt(o, answered) /\ OwnApplied(o)
  \/ \E o \in Observer : Leave(o) /\ own' = [own EXCEPT ![o] = -1]
  \/ Tick /\ Aged

SpecInstances == InitInstances /\ [][NextInstances]_ivars

\* Something always happens: time passes, a goroutine runs or a report arrives.
\* The clock waits for those that are due, and between two of its ticks there is
\* only so much they can do.
FairInstances ==
  /\ SpecInstances
  /\ WF_vars(Tick \/ \E o \in Observer : WorkerStep(o) \/ Deliver(o))

-----------------------------------------------------------------------------
(* /health *)

\* The broker an instance embeds: it carries messages, its connection is known
\* to be down, or it has stopped delivering.
Fabric == {"carries", "down", "wedged"}

\* Client.Check, and how long it takes at most.
Check(fabric) == IF fabric = "carries" THEN "healthy" ELSE "unhealthy"
CheckTakes(fabric) == IF fabric = "wedged" THEN CheckTimeout ELSE 0

\* serviceMonitorStatus: an own report about the own machine has expired.  One
\* that never came is not counted.
MonitorStatus(o) == IF own[o] > FreshFor THEN "unhealthy" ELSE "healthy"

\* NewHealth: a dependency makes the instance degraded at worst.
Health(o, fabric) ==
  IF Check(fabric) = "healthy" /\ MonitorStatus(o) = "healthy" THEN "healthy" ELSE "degraded"

\* peerHealthCheck: the peer answers in time, and does not call itself unhealthy.
PeerHealthy(o, fabric) ==
  phase[o] # "off" /\ CheckTakes(fabric) <= PeerTimeout /\ Health(o, fabric) # "unhealthy"

-----------------------------------------------------------------------------
(* The distribution, as the reader sees it *)

Missing == {o \in Observer : slot[o].status = "none"}
Stale == {o \in Observer \ Missing : ~Current(o)}

\* Variant: what was heard once counts.
HeardOnce(elsewhere) == Cardinality(elsewhere \ Missing)

\* Variant: the reader's own machine counts, whose reports come without the broker.
HeardHere(elsewhere) == Cardinality(elsewhere \ (Missing \cup Stale)) + 1

\* Of the observers on other machines, how many are heard.
Heard(elsewhere) == Cardinality(elsewhere) - Cardinality(elsewhere \cap Missing)
                                           - Cardinality(elsewhere \cap Stale)

\* distributionState.
Distribution(elsewhere) ==
  CASE elsewhere = {} -> "local"
    [] elsewhere # {} /\ Heard(elsewhere) = 0 -> "isolated"
    [] Heard(elsewhere) \in 1 .. Cardinality(elsewhere) - 1 -> "partial"
    [] OTHER -> "connected"

-----------------------------------------------------------------------------
(* Properties *)

\* An instance that runs vouches for its monitor, whatever its targets do and
\* whatever the site loses of its reports: its own view is fed often enough, and
\* not by the network (serviceMonitorStatus, localSink).
MonitorSpeaksForItself ==
  \A o \in Observer : phase[o] # "off" => MonitorStatus(o) = "healthy"

\* What there is to hear of the observers on other machines: those that run,
\* while the reader's broker carries.
Reach(elsewhere) ==
  LET running == {o \in elsewhere : phase[o] # "off"}
  IN  IF ~carries \/ running = {} THEN "isolated"
      ELSE IF running = elsewhere THEN "connected" ELSE "partial"

\* Once nothing more is lost, leaves or breaks down, the distribution settles on
\* who is there to be heard, and not on who was: neither the last report of an
\* observer that is gone, nor the reader's own machine, which is heard without
\* the broker, is taken for a peer (distributionState).
DistributionSettles == <>[](Distribution(Observer) = Reach(Observer))

\* A dependency that fails is no reason to take over from an instance: the gate
\* its peer promotes through stays open (api/http.go, NewHealth: "A failing
\* dependency makes the instance Degraded, not Unhealthy").
DependencyIsNoGate ==
  \A o \in Observer, fabric \in Fabric : phase[o] # "off" => PeerHealthy(o, fabric)
=============================================================================
