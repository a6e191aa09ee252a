---------------------------- MODULE ServiceProbe ----------------------------
(***************************************************************************)
(* One service, watched by the instances of its machine and read about at  *)
(* another instance, in time (platform/internal: machine/servicehealth's   *)
(* worker and tracker, site/healthview's Snapshot, and the freshness the   *)
(* descriptor derives).  What is said about the service is compared with   *)
(* how the service is.                                                     *)
(*                                                                         *)
(* Time is in whole units and relative: a timer holds what is left, an age *)
(* what has passed.  A worker that is due runs before the clock moves.     *)
(***************************************************************************)
EXTENDS Integers

CONSTANTS
  Observer,    \* the roles expected to report on the service
  Interval,    \* from the end of an attempt to the next
  Timeout,     \* the longest an attempt takes
  Retries,     \* consecutive failures that make the service unhealthy
  Jitter,      \* how long each observer's worker waits first
  Delay,       \* the longest a report is on its way
  MaxFaults    \* bound of the faults: a report does not arrive, a process stops
               \* or dies, the reader's broker stops carrying for good

ASSUME ServiceProbeAssumption ==
  /\ Observer # {}
  /\ Interval \in Nat /\ Timeout \in Nat /\ 0 < Timeout /\ Timeout < Interval
  /\ Retries \in Nat \ {0}
  /\ Jitter \in [Observer -> 0 .. Interval - 1]
  /\ Delay \in 0 .. Interval - 1
  /\ MaxFaults \in Nat

VARIABLES
  well,      \* whether the service answers acceptably and in time
  steady,    \* for how long that has been so
  phase,     \* each worker: "off", "waiting" or "probing"
  timer,     \* what is left of its wait, or of its attempt's timeout
  met,       \* how the service has been during the attempt
  status,    \* tracker.status
  failures,  \* tracker.failures
  wire,      \* the report on its way from each observer: its status, and what
             \* is left of the delay
  slot,      \* the reader's slot of each observer: what it said last, and how
             \* long ago that arrived
  carries,   \* whether the reader's broker carries what is sent
  faults,    \* how many faults are still to come
  \* history
  missed,    \* reports lost since the last that arrived: none, one, or more
  away,      \* whether the observer has left since then
  bad        \* how long ago the present run of failed attempts began, or -1

worker == <<phase, timer, met, status, failures, bad>>
reader == <<wire, slot, missed, away, carries>>
vars == <<well, steady, worker, reader, faults>>

\* How long a report stays current: two intervals and a timeout.
FreshFor == 2 * Interval + Timeout

\* A finding, as opposed to not having resolved one yet.
Verdict == {"healthy", "unhealthy"}
Observed == Verdict \cup {"unknown"}

\* The last report an observer can make that still calls a failing service
\* healthy comes this long after the service failed; one that calls a well one
\* unhealthy, a timeout after it recovered.
LastHealthy == Timeout + (Retries - 1) * (Interval + Timeout)

\* What no property looks beyond: of the service's state, a report's age and a
\* run of failures.
Horizon == LastHealthy + Delay + FreshFor + 1
Expired == FreshFor + Timeout + Delay + 1
Span == (Retries - 1) * Interval

Older(t, bound) == IF t < bound THEN t + 1 ELSE bound

TypeOK ==
  /\ well \in BOOLEAN /\ steady \in 0 .. Horizon
  /\ phase \in [Observer -> {"off", "waiting", "probing"}]
  /\ timer \in [Observer -> 0 .. Interval]
  /\ met \in [Observer -> SUBSET BOOLEAN]
  /\ status \in [Observer -> Observed]
  /\ failures \in [Observer -> 0 .. Retries]
  /\ wire \in [Observer -> [status : Observed \cup {"none"}, left : 0 .. Delay]]
  /\ slot \in [Observer -> [status : Observed \cup {"none"}, age : 0 .. Expired]]
  /\ faults \in 0 .. MaxFaults
  /\ missed \in [Observer -> 0 .. 2] /\ carries \in BOOLEAN
  /\ away \in [Observer -> BOOLEAN]
  /\ bad \in [Observer -> -1 .. Span]

Init ==
  /\ well \in BOOLEAN /\ steady = Horizon
  /\ phase = [o \in Observer |-> "off"]
  /\ timer = [o \in Observer |-> 0]
  /\ met = [o \in Observer |-> {}]
  /\ status = [o \in Observer |-> "unknown"]
  /\ failures = [o \in Observer |-> 0]
  /\ wire = [o \in Observer |-> [status |-> "none", left |-> 0]]
  /\ slot = [o \in Observer |-> [status |-> "none", age |-> 0]]
  /\ faults = MaxFaults
  /\ missed = [o \in Observer |-> 0] /\ carries = TRUE
  /\ away = [o \in Observer |-> FALSE]
  /\ bad = [o \in Observer |-> -1]

-----------------------------------------------------------------------------
Spend == faults > 0 /\ faults' = faults - 1

\* The service fails or recovers.
Change ==
  /\ well' = ~well
  /\ steady' = 0
  /\ met' = [o \in Observer |-> IF phase[o] = "probing" THEN met[o] \cup {~well} ELSE met[o]]
  /\ UNCHANGED <<phase, timer, status, failures, bad, reader, faults>>

\* A process starts its worker, which waits out its jitter first.
Start(o) ==
  /\ phase[o] = "off"
  /\ phase' = [phase EXCEPT ![o] = "waiting"]
  /\ timer' = [timer EXCEPT ![o] = Jitter[o]]
  /\ UNCHANGED <<well, steady, met, status, failures, bad, reader, faults>>

Begin(o) ==
  /\ phase[o] = "waiting"
  /\ timer[o] = 0
  /\ phase' = [phase EXCEPT ![o] = "probing"]
  /\ timer' = [timer EXCEPT ![o] = Timeout]
  /\ met' = [met EXCEPT ![o] = {well}]
  /\ UNCHANGED <<well, steady, status, failures, bad, reader, faults>>

\* Variant: a success leaves the failures before it counted.
RecordUncleared(o, answered) ==
  LET n == IF answered \/ failures[o] = Retries THEN failures[o] ELSE failures[o] + 1
  IN  /\ failures' = [failures EXCEPT ![o] = n]
      /\ status' = [status EXCEPT ![o] =
           IF answered THEN "healthy" ELSE IF n = Retries THEN "unhealthy" ELSE @]

\* tracker.record: one success is enough, failures are counted up to the
\* threshold.
Record(o, answered) ==
  LET n == IF answered THEN 0 ELSE IF failures[o] < Retries THEN failures[o] + 1 ELSE Retries
  IN  /\ failures' = [failures EXCEPT ![o] = n]
      /\ status' = [status EXCEPT ![o] =
           IF answered THEN "healthy" ELSE IF n = Retries THEN "unhealthy" ELSE @]

\* Variant: only a change is reported.
ReportChange(o) ==
  IF status'[o] # status[o]
  THEN /\ wire' = [wire EXCEPT ![o] = [status |-> status'[o], left |-> Delay]]
       /\ UNCHANGED <<missed, faults>>
  ELSE UNCHANGED <<wire, missed, faults>>

\* The sink is given what the tracker says now, and the report is sent or lost.
\* One still on its way is then of an earlier incarnation: whether it comes
\* late and is dropped as stale, or not at all, is the same to the reader.
Report(o) ==
  \/ /\ carries
     /\ wire' = [wire EXCEPT ![o] = [status |-> status'[o], left |-> Delay]]
     /\ UNCHANGED <<missed, faults>>
  \/ /\ missed' = [missed EXCEPT ![o] = Older(@, 2)]
     /\ UNCHANGED wire
     /\ \/ ~carries /\ UNCHANGED faults
        \/ Spend

\* The attempt ends with an acceptable answer, or without one.
EndAttempt(o, answered) ==
  /\ phase[o] = "probing"
  /\ answered \in met[o]
  /\ phase' = [phase EXCEPT ![o] = "waiting"]
  /\ timer' = [timer EXCEPT ![o] = Interval]
  /\ Record(o, answered)
  /\ bad' = [bad EXCEPT ![o] = IF answered THEN -1 ELSE IF @ = -1 THEN 0 ELSE @]
  /\ Report(o)
  /\ met' = [met EXCEPT ![o] = {}]
  /\ UNCHANGED <<well, steady, slot, away, carries>>

\* Nothing is left of the worker, and a new one has a tracker that knows nothing.
Gone(o) ==
  /\ phase' = [phase EXCEPT ![o] = "off"]
  /\ timer' = [timer EXCEPT ![o] = 0]
  /\ met' = [met EXCEPT ![o] = {}]
  /\ status' = [status EXCEPT ![o] = "unknown"]
  /\ failures' = [failures EXCEPT ![o] = 0]
  /\ bad' = [bad EXCEPT ![o] = -1]

\* Variant: an attempt that a stop cut short counts as a failure.
LeaveCounting(o) ==
  /\ phase[o] = "probing"
  /\ Spend
  /\ Gone(o)
  /\ LET said == IF failures[o] + 1 >= Retries THEN "unhealthy" ELSE status[o]
     IN  wire' = [wire EXCEPT ![o] = [status |-> said, left |-> Delay]]
  /\ away' = [away EXCEPT ![o] = TRUE]
  /\ UNCHANGED <<well, steady, slot, missed, carries>>

\* The process stops or dies.  An attempt that is cut short is not recorded.
Leave(o) ==
  /\ phase[o] # "off"
  /\ Spend
  /\ Gone(o)
  /\ away' = [away EXCEPT ![o] = TRUE]
  /\ UNCHANGED <<well, steady, wire, slot, missed, carries>>

\* A report arrives: the slot is written and its age starts anew.
Deliver(o) ==
  /\ wire[o].status # "none"
  /\ slot' = [slot EXCEPT ![o] = [status |-> wire[o].status, age |-> 0]]
  /\ wire' = [wire EXCEPT ![o] = [status |-> "none", left |-> 0]]
  /\ missed' = [missed EXCEPT ![o] = 0]
  /\ away' = [away EXCEPT ![o] = phase[o] = "off"]
  /\ UNCHANGED <<well, steady, worker, faults, carries>>

\* The reader's broker stops carrying, and does not begin again.
BreakDown ==
  /\ carries
  /\ carries' = FALSE
  /\ Spend
  /\ UNCHANGED <<well, steady, worker, wire, slot, missed, away>>

\* Nothing is due.
MayTick ==
  \A o \in Observer :
    /\ phase[o] # "off" => timer[o] > 0
    /\ wire[o].status # "none" => wire[o].left > 0

Tick ==
  /\ MayTick
  /\ steady' = Older(steady, Horizon)
  /\ timer' = [o \in Observer |-> IF phase[o] = "off" THEN timer[o] ELSE timer[o] - 1]
  /\ wire' = [o \in Observer |-> IF wire[o].status = "none" THEN wire[o]
                                 ELSE [wire[o] EXCEPT !.left = @ - 1]]
  /\ slot' = [o \in Observer |-> IF slot[o].status = "none" THEN slot[o]
                                 ELSE [slot[o] EXCEPT !.age = Older(@, Expired)]]
  /\ bad' = [o \in Observer |-> IF bad[o] = -1 THEN -1 ELSE Older(bad[o], Span)]
  /\ UNCHANGED <<well, phase, met, status, failures, faults, missed, away, carries>>

WorkerStep(o) == Begin(o) \/ \E answered \in BOOLEAN : EndAttempt(o, answered)

Next ==
  \/ Change \/ BreakDown
  \/ \E o \in Observer : Start(o) \/ WorkerStep(o) \/ Leave(o) \/ Deliver(o)
  \/ Tick

Spec == Init /\ [][Next]_vars

-----------------------------------------------------------------------------
(* What the reader is told *)

\* Variant: a report counts for as long as nothing newer comes.
CurrentForever(o) == slot[o].status # "none"

\* The report is not stale.
Current(o) == slot[o].status # "none" /\ slot[o].age <= FreshFor

\* What the current findings add up to.
Reduce(verdicts) ==
  IF verdicts = {} THEN "unknown"
  ELSE IF Verdict \subseteq verdicts THEN "degraded"
  ELSE CHOOSE v \in verdicts : TRUE

\* The status of the service in a snapshot taken now.
Answer == Reduce({slot[o].status : o \in {x \in Observer : Current(x)}} \cap Verdict)

-----------------------------------------------------------------------------
(* Properties *)

\* A report that arrived stays current until the next one, as long as its
\* observer runs and nothing it says is lost, however slow the attempts and the
\* network; and when one report is lost, the next arrives no later than a slow
\* attempt and a slow network after it went stale (FreshFor, and attempt
\* reporting what did not change as well).
FreshWhileHeard ==
  \A o \in Observer :
    phase[o] # "off" /\ slot[o].status # "none" /\ ~away[o] =>
      /\ missed[o] = 0 => Current(o)
      /\ missed[o] = 1 => slot[o].age <= FreshFor + Timeout + Delay

\* A service that recovered is not called unhealthy for longer than its last
\* bad report stays current, whatever is lost and whoever dies: nobody states
\* a failure the service did not have, and nothing old outlives its freshness.
RecoveryIsSeen ==
  well /\ steady > Timeout + Delay + FreshFor => Answer \notin {"unhealthy", "degraded"}

\* A service that fails is not called healthy for longer than the retries and
\* its last good report take, whatever is lost and whoever dies.
OutageIsSeen ==
  ~well /\ steady > LastHealthy + Delay + FreshFor => Answer \notin {"healthy", "degraded"}

\* When every observer runs and is heard, a service that has been well for an
\* attempt that still failed, its report, a wait, an attempt and its report is
\* called healthy: also when an observer was restarted as the first of the
\* reports arrived.
HealthIsSeenPromptly ==
  /\ well /\ steady > Interval + 2 * (Timeout + Delay)
  /\ \A o \in Observer : /\ phase[o] # "off" /\ slot[o].status # "none"
                         /\ ~away[o] /\ missed[o] = 0
  => Answer = "healthy"

\* An observer calls a service unhealthy only after failures that span the
\* retries: one bad moment is not an outage (tracker).
UnhealthyIsEarned ==
  \A o \in Observer :
    status[o] = "unhealthy" => bad[o] >= Span

=============================================================================
