----------------------------- MODULE Ownership -----------------------------
(***************************************************************************)
(* A machine's Primary Ownership: the two platform processes of one        *)
(* machine taking turns Passive and Active through one lease file          *)
(* (platform/internal/machine/redundancy, composed by internal/app).       *)
(*                                                                         *)
(* Every read and every write of the lease file is a step of its own, so   *)
(* the two instances' read-decide-write sequences interleave.  Steps take  *)
(* no time; time passes only when nobody has anything due (Tick), except   *)
(* for an instance that is stalled: its steps wait while time goes on.     *)
(*                                                                         *)
(* What can go wrong from outside (a crash, a stop request, a stall, an    *)
(* unreadable file, a lost probe, a refused record, a request that         *)
(* outlasts the drain) is paid for from the budget `faults`, one unit      *)
(* each; the kinds are chosen by Faults.                                   *)
(***************************************************************************)
EXTENDS Lease

CONSTANTS
  ShutdownTimeout,  \* bound of the drain of requests on the Active surface
  Faults,           \* the kinds of fault that may happen
  MaxFaults,        \* how many happen in all
  MaxStall          \* longest stall, in units of time

FaultKinds == {"crash", "stop", "stall", "outage", "probe", "store", "request"}

ASSUME OwnershipAssumption ==
  /\ ShutdownTimeout \in Nat \ {0}
  /\ Faults \subseteq FaultKinds
  /\ MaxFaults \in Nat
  /\ MaxStall \in Nat
  \* an operation's captured instant never reaches the horizon
  /\ Horizon >= Duration + (IF "stall" \in Faults THEN MaxFaults * MaxStall ELSE 0)

VARIABLES
  file,     \* the lease file: NoGrant or the last record written
  main,     \* ManageOwnership's goroutine in each instance
  lease,    \* each instance's Lease handle, and its operation in flight
  loops,    \* the renewal and failback goroutines and the tickers
  stall,    \* units of time each instance stays stalled
  outage,   \* whether each instance's file operations fail
  faults,   \* faults still to come
  \* history
  lost,     \* some write replaced a record its writer had not read
  overlap,  \* units of time for which both compositions have been open
  account   \* each instance's activation is in the machine's event record
            \* as started and not as ended

env     == <<stall, outage, faults>>
history == <<lost, overlap, account>>
vars    == <<file, main, lease, loops, env, history>>

Labels == {"down", "first", "again", "read", "write", "confirm", "waiting",
           "observe", "probe", "acquired", "starting", "activating", "active",
           "draining", "joining", "releaseRead", "releaseWrite", "ended"}

\* passive: the Passive composition; quit: stopActive was called; failed: whose
\* error, Active's or release's, is about to be returned.
Down == [pc |-> "down", passive |-> "none", stopping |-> FALSE, quit |-> FALSE,
         failed |-> "none", drain |-> 0]

\* at: the instant captured when the operation began; seen: the record it read.
NoHandle == [held |-> FALSE, owned |-> 0, releasedAt |-> -Horizon,
             at |-> 0, seen |-> NoGrant]

\* stable: how long the Primary has looked healthy, -1 when it does not.
NoLoops == [renewal |-> "none", failback |-> "none", stable |-> -1,
            renewIn |-> 0, renewDue |-> FALSE, checkIn |-> 0, checkDue |-> FALSE]

\* Longest stretch for which two compositions may stay open, and the history
\* variable's cap above it.
OverlapBound ==
  ShutdownTimeout + (IF "outage" \in Faults THEN Duration ELSE RenewalInterval)
                  + (IF "stall" \in Faults THEN MaxFaults * MaxStall ELSE 0)

OverlapCap == OverlapBound + 1

Init ==
  /\ file = NoGrant
  /\ main = [i \in Roles |-> Down]
  /\ lease = [i \in Roles |-> NoHandle]
  /\ loops = [i \in Roles |-> NoLoops]
  /\ stall = [i \in Roles |-> 0]
  /\ outage = [i \in Roles |-> FALSE]
  /\ faults = MaxFaults
  /\ lost = FALSE
  /\ overlap = 0
  /\ account = [i \in Roles |-> FALSE]

(***************************************************************************)
(* What a state says.                                                      *)
(***************************************************************************)
Running(i) == main[i].pc # "down" /\ stall[i] = 0

At(i, label) == Running(i) /\ main[i].pc = label

\* The Active composition is open: Active has been called and not returned.
Open(i) == main[i].pc \in {"activating", "active", "draining"}

\* The context Active and its loops run under is cancelled.
Cancelled(i) == main[i].stopping \/ main[i].quit

BothOpen == \A i \in Roles : Open(i)

Spend(kind) == kind \in Faults /\ faults > 0 /\ faults' = faults - 1

(***************************************************************************)
(* Moves shared by the actions.                                            *)
(***************************************************************************)
Goto(i, label) == main' = [main EXCEPT ![i].pc = label]

\* The process returns from ManageOwnership and exits.
Leave(i) ==
  /\ main' = [main EXCEPT ![i] = Down]
  /\ lease' = [lease EXCEPT ![i] = NoHandle]
  /\ loops' = [loops EXCEPT ![i] = NoLoops]

\* The operation in flight ends; what it captured is forgotten.
EndOperation(i) ==
  lease' = [lease EXCEPT ![i] = [@ EXCEPT !.at = 0, !.seen = NoGrant]]

\* A new turn starts Passive, with a fresh promotion ticker.
EnterPassive(i) ==
  /\ main' = [main EXCEPT ![i] = [Down EXCEPT !.pc = "waiting",
                                              !.passive = "running",
                                              !.stopping = main[i].stopping]]
  /\ EndOperation(i)
  /\ loops' = [loops EXCEPT ![i] = [NoLoops EXCEPT !.checkIn = HealthCheckInterval]]

\* tryAcquire reported that the lease was not acquired.
NotAcquired(i) ==
  IF main[i].passive = "none"
  THEN EnterPassive(i)
  ELSE /\ Goto(i, "waiting")
       /\ EndOperation(i)
       /\ UNCHANGED loops

\* tryAcquire or observe returned an error: fatal on the first turn, otherwise
\* left to the next tick.
AcquireFails(i) == IF main[i].passive = "none" THEN Leave(i) ELSE NotAcquired(i)

\* A write of the lease file, with the history of updates lost by it.
Put(i, g) ==
  /\ file' = g
  /\ lost' = (lost \/ file # lease[i].seen)
  /\ UNCHANGED <<overlap, account>>

\* A statement on the turn-taking path is published or ends the turn.  The
\* machine's record refuses a cancelled context (eventstore.File.Append).
Recorded(i) == ~main[i].stopping /\ UNCHANGED faults

Refused(i) == IF main[i].stopping THEN UNCHANGED faults ELSE Spend("store")

(***************************************************************************)
(* The process and the top of its loop.                                    *)
(***************************************************************************)
Start(i) ==
  /\ main[i].pc = "down"
  /\ Goto(i, "first")
  /\ UNCHANGED <<file, lease, loops, env, history>>

\* Leave if asked to stop, or if LeaseOpened, or OwnershipWaiting on a later
\* turn, cannot be written to the instance's own log.
LoopTop(i) ==
  /\ Running(i)
  /\ main[i].pc \in {"first", "again"}
  /\ \/ Refused(i) /\ Leave(i)
     \/ Recorded(i) /\ main[i].pc = "first" /\ Goto(i, "read") /\ UNCHANGED <<lease, loops>>
     \/ Recorded(i) /\ main[i].pc = "again" /\ EnterPassive(i)
  /\ UNCHANGED <<file, stall, outage, history>>

(***************************************************************************)
(* Lease.tryAcquire: read, write, confirm.                                 *)
(***************************************************************************)
AcquireRead(i) ==
  /\ At(i, "read")
  /\ \/ outage[i] /\ AcquireFails(i)
     \/ ~outage[i] /\ ~Free(file, lease[i].at) /\ NotAcquired(i)
     \/ /\ ~outage[i]
        /\ Free(file, lease[i].at)
        /\ Goto(i, "write")
        /\ lease' = [lease EXCEPT ![i].seen = file]
        /\ UNCHANGED loops
  /\ UNCHANGED <<file, env, history>>

AcquireWrite(i) ==
  /\ At(i, "write")
  /\ UNCHANGED env
  /\ \/ outage[i] /\ AcquireFails(i) /\ UNCHANGED <<file, history>>
     \/ /\ ~outage[i]
        /\ Put(i, Granted(i, lease[i].at))
        /\ Goto(i, "confirm")
        /\ UNCHANGED <<lease, loops>>

Confirmed(i) == Names(file, i)

\* Ownership is held from here.  After a Passive turn its composition is
\* stopped and joined first; if that had failed the instance leaves instead.
AcquireConfirm(i) ==
  /\ At(i, "confirm")
  /\ \/ outage[i] /\ AcquireFails(i)
     \/ ~outage[i] /\ ~Confirmed(i) /\ NotAcquired(i)
     \/ ~outage[i] /\ Confirmed(i) /\ main[i].passive = "failed" /\ Leave(i)
     \/ /\ ~outage[i]
        /\ Confirmed(i)
        /\ main[i].passive # "failed"
        /\ main' = [main EXCEPT ![i] = [@ EXCEPT !.pc = "acquired", !.passive = "none"]]
        /\ lease' = [lease EXCEPT ![i] =
                       [@ EXCEPT !.held = TRUE, !.owned = Granted(i, lease[i].at).expires,
                                 !.at = 0, !.seen = NoGrant]]
        /\ loops' = [loops EXCEPT ![i] = NoLoops]
  /\ UNCHANGED <<file, env, history>>

(***************************************************************************)
(* waitWhilePassive and evaluatePromotion.                                 *)
(***************************************************************************)
WaitStopped(i) ==
  /\ At(i, "waiting")
  /\ main[i].stopping \/ main[i].passive = "failed"
  /\ Leave(i)
  /\ UNCHANGED <<file, env, history>>

PassiveFails(i) ==
  /\ At(i, "waiting")
  /\ main[i].passive = "running"
  /\ Spend("store")
  /\ main' = [main EXCEPT ![i].passive = "failed"]
  /\ UNCHANGED <<file, lease, loops, stall, outage, history>>

\* A tick of the promotion ticker: the select may prefer it to a stop request
\* that is also ready.
PromotionTick(i) ==
  /\ At(i, "waiting")
  /\ loops[i].checkDue
  /\ Goto(i, "observe")
  /\ loops' = [loops EXCEPT ![i].checkDue = FALSE]
  /\ UNCHANGED <<file, lease, env, history>>

\* This instance released the lease less than one Duration before the tick.
InHandover(i) == lease[i].at - lease[i].releasedAt < Duration

DecisionWithoutHandover(i) ==
  LET av == Availability(file, lease[i].at)
  IN  IF av = "held" THEN "decline"
      ELSE IF av = "lapsed" /\ ~Names(file, i) THEN "probe" ELSE "acquire"

DecisionWithoutProbe(i) ==
  LET av == Availability(file, lease[i].at)
  IN  IF av = "held" \/ (av = "released" /\ Names(file, i)) THEN "decline"
      ELSE "acquire"

DecisionWithoutReclaim(i) ==
  LET av == Availability(file, lease[i].at)
  IN  IF av = "absent" \/ (av = "released" /\ ~Names(file, i)) THEN "acquire"
      ELSE IF av = "lapsed" THEN "probe" ELSE "decline"

Decision(i) ==
  LET av == Availability(file, lease[i].at)
      own == Names(file, i)
  IN  IF av = "absent" \/ (av = "released" /\ ~own) \/ (av = "lapsed" /\ own)
      THEN "acquire"
      ELSE IF av = "lapsed" \/ (av = "released" /\ ~InHandover(i))
      THEN "probe"
      ELSE "decline"

Observe(i) ==
  /\ At(i, "observe")
  /\ IF outage[i] \/ Decision(i) = "decline" THEN NotAcquired(i)
     ELSE /\ Goto(i, IF Decision(i) = "probe" THEN "probe" ELSE "read")
          /\ UNCHANGED <<lease, loops>>
  /\ UNCHANGED <<file, env, history>>

\* One GET of the peer's health endpoint.  A process that runs answers it in
\* every state; a cancelled context, or a probe that is lost, says unhealthy.
PeerHealthy(i, cancelled) ==
  ~cancelled /\ Running(Peer(i)) /\ UNCHANGED faults

PeerUnhealthy(i, cancelled) ==
  IF ~cancelled /\ Running(Peer(i)) THEN Spend("probe") ELSE UNCHANGED faults

Probe(i) ==
  /\ At(i, "probe")
  /\ \/ PeerHealthy(i, main[i].stopping) /\ NotAcquired(i)
     \/ /\ PeerUnhealthy(i, main[i].stopping)
        /\ Goto(i, "read")
        /\ UNCHANGED <<lease, loops>>
  /\ UNCHANGED <<file, stall, outage, history>>

(***************************************************************************)
(* activate.                                                               *)
(***************************************************************************)
\* Publish OwnershipAcquired.
AnnounceOwnership(i) ==
  /\ At(i, "acquired")
  /\ \/ Recorded(i) /\ Goto(i, "starting") /\ UNCHANGED <<lease, loops>>
     \/ Refused(i) /\ Leave(i)
  /\ UNCHANGED <<file, stall, outage, history>>

\* The renewal loop, and on a Standby the failback watcher, each with its ticker.
Watching(i) == i = "standby" /\ FailbackStabilization > 0

LoopsWithSwappedWatch(i) ==
  [NoLoops EXCEPT !.renewal = "idle", !.renewIn = RenewalInterval,
                  !.failback = IF Watching(i) THEN "none" ELSE "idle",
                  !.checkIn = IF Watching(i) THEN 0 ELSE HealthCheckInterval]

LoopsStarted(i) ==
  [NoLoops EXCEPT !.renewal = "idle", !.renewIn = RenewalInterval,
                  !.failback = IF Watching(i) THEN "idle" ELSE "none",
                  !.checkIn = IF Watching(i) THEN HealthCheckInterval ELSE 0]

\* Publish ActivationStarted, then start the loops.
StartActivation(i) ==
  /\ At(i, "starting")
  /\ \/ /\ Recorded(i)
        /\ Goto(i, "activating")
        /\ loops' = [loops EXCEPT ![i] = LoopsStarted(i)]
        /\ account' = [account EXCEPT ![i] = TRUE]
        /\ UNCHANGED <<lease, lost, overlap>>
     \/ Refused(i) /\ Leave(i) /\ UNCHANGED history
  /\ UNCHANGED <<file, stall, outage>>

\* runActive: the epoch is advanced and the Active surface swapped in, or the
\* epoch could not be recorded and Active returns at once.
BeginActive(i) ==
  /\ At(i, "activating")
  /\ \/ Goto(i, "active") /\ UNCHANGED <<faults, overlap>>
     \/ /\ Spend("store")
        /\ main' = [main EXCEPT ![i] = [@ EXCEPT !.pc = "joining", !.failed = "active",
                                                 !.quit = TRUE]]
        /\ overlap' = 0
  /\ UNCHANGED <<file, lease, loops, stall, outage, lost, account>>

\* Active stops serving: its context is cancelled, or its listener died or its
\* record was refused.  The Passive surface takes the listener back and the
\* requests in flight drain.
EndActive(i) ==
  /\ At(i, "active")
  /\ \/ /\ Cancelled(i)
        /\ main' = [main EXCEPT ![i] = [@ EXCEPT !.pc = "draining",
                                                 !.drain = ShutdownTimeout]]
        /\ UNCHANGED faults
     \/ /\ Spend("store")
        /\ main' = [main EXCEPT ![i] = [@ EXCEPT !.pc = "draining",
                                                 !.drain = ShutdownTimeout,
                                                 !.failed = "active"]]
  /\ UNCHANGED <<file, lease, loops, stall, outage, history>>

\* The last request ends; or the timeout does, or APIStopped is refused, and
\* Active returns an error.
EndDrain(i) ==
  /\ At(i, "draining")
  /\ \E failing \in BOOLEAN :
       /\ IF failing THEN (main[i].drain = 0 /\ Spend("request")) \/ Spend("store")
                     ELSE UNCHANGED faults
       /\ main' = [main EXCEPT ![i] =
                     [@ EXCEPT !.pc = "joining", !.quit = TRUE, !.drain = 0,
                               !.failed = IF failing THEN "active" ELSE main[i].failed]]
  /\ overlap' = 0
  /\ UNCHANGED <<file, lease, loops, stall, outage, lost, account>>

\* Active has returned and both loops have ended: release begins by giving up
\* the handle's claim.
LoopsEnded(i) == loops[i].renewal = "none" /\ loops[i].failback = "none"

Join(i) ==
  /\ At(i, "joining")
  /\ LoopsEnded(i)
  /\ Goto(i, IF lease[i].held THEN "releaseRead" ELSE "ended")
  /\ lease' = [lease EXCEPT ![i] = [@ EXCEPT !.held = FALSE, !.owned = 0]]
  /\ loops' = [loops EXCEPT ![i] = NoLoops]
  /\ UNCHANGED <<file, env, history>>

ReleaseFails(i) ==
  /\ main' = [main EXCEPT ![i] =
                [@ EXCEPT !.pc = "ended",
                          !.failed = IF main[i].failed = "none" THEN "release"
                                     ELSE main[i].failed]]
  /\ EndOperation(i)

ReleaseRead(i) ==
  /\ At(i, "releaseRead")
  /\ \/ outage[i] /\ ReleaseFails(i)
     \/ /\ ~outage[i]
        /\ ~Names(file, i)
        /\ Goto(i, "ended")
        /\ lease' = [lease EXCEPT ![i].at = 0]
     \/ /\ ~outage[i]
        /\ Names(file, i)
        /\ Goto(i, "releaseWrite")
        /\ lease' = [lease EXCEPT ![i].seen = file]
  /\ UNCHANGED <<file, loops, env, history>>

ReleaseWrite(i) ==
  /\ At(i, "releaseWrite")
  /\ \/ outage[i] /\ ReleaseFails(i) /\ UNCHANGED <<file, history>>
     \/ /\ ~outage[i]
        /\ Put(i, GivenUp(lease[i].seen))
        /\ Goto(i, "ended")
        /\ lease' = [lease EXCEPT ![i] = [@ EXCEPT !.releasedAt = lease[i].at,
                                                   !.at = 0, !.seen = NoGrant]]
  /\ UNCHANGED <<loops, env>>

\* Publish ActivationCompleted or ActivationFailed; any error collected on the
\* way, this one included, ends the process.
EndActivation(i) ==
  /\ At(i, "ended")
  /\ \/ /\ Recorded(i)
        /\ account' = [account EXCEPT ![i] = FALSE]
        /\ IF main[i].failed # "none" THEN Leave(i)
           ELSE Goto(i, "again") /\ UNCHANGED <<lease, loops>>
        /\ UNCHANGED <<lost, overlap>>
     \/ Refused(i) /\ Leave(i) /\ UNCHANGED history
  /\ UNCHANGED <<file, stall, outage>>

(***************************************************************************)
(* startRenewal and Lease.renew.                                           *)
(***************************************************************************)
Renewing(i, label) == Running(i) /\ loops[i].renewal = label

RenewalTick(i) ==
  /\ Renewing(i, "idle")
  /\ loops[i].renewDue
  /\ loops' = [loops EXCEPT ![i] = [@ EXCEPT !.renewal = "read", !.renewDue = FALSE]]
  /\ UNCHANGED <<file, main, lease, env, history>>

\* The loop ends: its ticker goes with it.
StopRenewal(i) ==
  loops' = [loops EXCEPT ![i] = [@ EXCEPT !.renewal = "none", !.renewIn = 0,
                                          !.renewDue = FALSE]]

RenewalEndsReleasing(i) ==
  /\ Renewing(i, "idle")
  /\ Cancelled(i)
  /\ StopRenewal(i)
  /\ file' = IF Names(file, i) THEN GivenUp(file) ELSE file
  /\ UNCHANGED <<main, lease, env, history>>

RenewalEnds(i) ==
  /\ Renewing(i, "idle")
  /\ Cancelled(i)
  /\ StopRenewal(i)
  /\ UNCHANGED <<file, main, lease, env, history>>

\* The record names somebody else, or nobody: ownership was taken over.
NeverTakenOver(i) == FALSE

TakenOver(i) == ~Names(file, i)

RenewRead(i) ==
  /\ Renewing(i, "read")
  /\ \/ /\ outage[i]
        /\ loops' = [loops EXCEPT ![i].renewal = "check"]
        /\ UNCHANGED <<main, lease>>
     \/ /\ ~outage[i]
        /\ TakenOver(i)
        /\ lease' = [lease EXCEPT ![i] = [@ EXCEPT !.held = FALSE, !.at = 0,
                                                   !.owned = 0]]
        /\ main' = [main EXCEPT ![i].quit = TRUE]
        /\ StopRenewal(i)
     \/ /\ ~outage[i]
        /\ ~TakenOver(i)
        /\ lease' = [lease EXCEPT ![i].seen = file]
        /\ loops' = [loops EXCEPT ![i].renewal = "write"]
        /\ UNCHANGED main
  /\ UNCHANGED <<file, env, history>>

RenewWrite(i) ==
  /\ Renewing(i, "write")
  /\ \/ /\ outage[i]
        /\ loops' = [loops EXCEPT ![i].renewal = "check"]
        /\ UNCHANGED <<file, lease, history>>
     \/ /\ ~outage[i]
        /\ LET next == Renewed(lease[i].seen, lease[i].at)
           IN  /\ Put(i, next)
               /\ lease' = [lease EXCEPT ![i] = [@ EXCEPT !.owned = next.expires,
                                                          !.at = 0, !.seen = NoGrant]]
        /\ loops' = [loops EXCEPT ![i].renewal = "idle"]
  /\ UNCHANGED <<main, env>>

\* A renewal that failed is retried on the next tick, within the grace.
GraceCheck(i) ==
  /\ Renewing(i, "check")
  /\ EndOperation(i)
  /\ \/ /\ PastGrace(lease[i].owned)
        /\ main' = [main EXCEPT ![i].quit = TRUE]
        /\ StopRenewal(i)
     \/ /\ WithinGrace(lease[i].owned)
        /\ loops' = [loops EXCEPT ![i].renewal = "idle"]
        /\ UNCHANGED main
  /\ UNCHANGED <<file, env, history>>

(***************************************************************************)
(* startFailback.                                                          *)
(***************************************************************************)
StopFailback(i) ==
  loops' = [loops EXCEPT ![i] = [@ EXCEPT !.failback = "none", !.stable = -1,
                                          !.checkIn = 0, !.checkDue = FALSE]]

FailbackTick(i) ==
  /\ Running(i)
  /\ loops[i].failback = "idle"
  /\ loops[i].checkDue
  /\ loops' = [loops EXCEPT ![i] = [@ EXCEPT !.failback = "probe", !.checkDue = FALSE]]
  /\ UNCHANGED <<file, main, lease, env, history>>

FailbackEnds(i) ==
  /\ Running(i)
  /\ loops[i].failback = "idle"
  /\ Cancelled(i)
  /\ StopFailback(i)
  /\ UNCHANGED <<file, main, lease, env, history>>

\* Healthy for the whole window: FailbackInitiated, and the turn ends.
Counting(i) == loops[i].stable # -1
Stable(i) == loops[i].stable >= FailbackStabilization

FailbackProbe(i) ==
  /\ Running(i)
  /\ loops[i].failback = "probe"
  /\ \/ /\ PeerUnhealthy(i, Cancelled(i))
        /\ loops' = [loops EXCEPT ![i] = [@ EXCEPT !.failback = "idle", !.stable = -1]]
        /\ UNCHANGED main
     \/ /\ PeerHealthy(i, Cancelled(i))
        /\ IF Stable(i)
           THEN main' = [main EXCEPT ![i].quit = TRUE] /\ StopFailback(i)
           ELSE /\ loops' = [loops EXCEPT ![i] =
                              [@ EXCEPT !.failback = "idle",
                                        !.stable = IF Counting(i) THEN loops[i].stable ELSE 0]]
                /\ UNCHANGED main
  /\ UNCHANGED <<file, lease, stall, outage, history>>

(***************************************************************************)
(* The environment.                                                        *)
(***************************************************************************)
Crash(i) ==
  /\ main[i].pc # "down"
  /\ Spend("crash")
  /\ Leave(i)
  /\ stall' = [stall EXCEPT ![i] = 0]
  /\ overlap' = 0
  /\ UNCHANGED <<file, outage, lost, account>>

\* os.Interrupt cancels the process's context.
StopRequest(i) ==
  /\ main[i].pc # "down"
  /\ ~main[i].stopping
  /\ Spend("stop")
  /\ main' = [main EXCEPT ![i].stopping = TRUE]
  /\ UNCHANGED <<file, lease, loops, stall, outage, history>>

Stall(i) ==
  /\ Running(i)
  /\ Spend("stall")
  /\ \E n \in 1..MaxStall : stall' = [stall EXCEPT ![i] = n]
  /\ UNCHANGED <<file, main, lease, loops, outage, history>>

OutageBegins(i) ==
  /\ Running(i)
  /\ ~outage[i]
  /\ Spend("outage")
  /\ outage' = [outage EXCEPT ![i] = TRUE]
  /\ UNCHANGED <<file, main, lease, loops, stall, history>>

OutageEnds(i) ==
  /\ outage[i]
  /\ outage' = [outage EXCEPT ![i] = FALSE]
  /\ UNCHANGED <<file, main, lease, loops, stall, faults, history>>

\* Nothing the instance would do is due at the present instant.
Quiet(i) ==
  \/ ~Running(i)
  \/ main[i].pc = "waiting" /\ ~main[i].stopping /\ main[i].passive = "running"
       /\ ~loops[i].checkDue
  \/ main[i].pc = "active" /\ ~Cancelled(i)
       /\ loops[i].renewal = "idle" /\ ~loops[i].renewDue
       /\ loops[i].failback \in {"idle", "none"} /\ ~loops[i].checkDue
  \/ main[i].pc = "draining" /\ main[i].drain > 0 /\ LoopsEnded(i)

\* A time.Ticker: on its period it leaves one tick, dropping any after it.
Fires(left) == left = 1
Rewind(left, period) == IF left = 1 THEN period ELSE IF left = 0 THEN 0 ELSE left - 1

OlderLoops(l) ==
  [l EXCEPT !.renewDue = @ \/ Fires(l.renewIn),
            !.renewIn = Rewind(@, RenewalInterval),
            !.checkDue = @ \/ Fires(l.checkIn),
            !.checkIn = Rewind(@, HealthCheckInterval),
            !.stable = IF @ = -1 \/ @ >= FailbackStabilization THEN @ ELSE @ + 1]

InOperation(i) ==
  \/ main[i].pc \in {"read", "write", "confirm", "observe", "probe",
                     "releaseRead", "releaseWrite"}
  \/ loops[i].renewal \in {"read", "write", "check"}

OlderLease(i) ==
  [lease[i] EXCEPT !.owned = IF lease[i].held THEN Older(@) ELSE @,
                   !.releasedAt = Older(@),
                   !.at = IF InOperation(i) THEN Older(@) ELSE @,
                   !.seen = OlderGrant(@)]

Tick ==
  /\ \A i \in Roles : Quiet(i)
  /\ file' = OlderGrant(file)
  /\ lease' = [i \in Roles |-> OlderLease(i)]
  /\ loops' = [i \in Roles |-> OlderLoops(loops[i])]
  /\ main' = [i \in Roles |-> [main[i] EXCEPT !.drain = IF @ = 0 THEN 0 ELSE @ - 1]]
  /\ stall' = [i \in Roles |-> IF stall[i] = 0 THEN 0 ELSE stall[i] - 1]
  /\ overlap' = IF ~BothOpen THEN 0
                ELSE IF overlap < OverlapCap THEN overlap + 1 ELSE overlap
  /\ UNCHANGED <<outage, faults, lost, account>>

Step(i) ==
  \/ LoopTop(i) \/ AcquireRead(i) \/ AcquireWrite(i) \/ AcquireConfirm(i)
  \/ WaitStopped(i) \/ PromotionTick(i) \/ Observe(i) \/ Probe(i)
  \/ AnnounceOwnership(i) \/ StartActivation(i) \/ BeginActive(i) \/ EndActive(i)
  \/ EndDrain(i) \/ Join(i) \/ ReleaseRead(i) \/ ReleaseWrite(i) \/ EndActivation(i)
  \/ RenewalTick(i) \/ RenewalEnds(i) \/ RenewRead(i) \/ RenewWrite(i) \/ GraceCheck(i)
  \/ FailbackTick(i) \/ FailbackEnds(i) \/ FailbackProbe(i)

Environment(i) ==
  \/ Start(i) \/ PassiveFails(i) \/ Crash(i) \/ StopRequest(i)
  \/ Stall(i) \/ OutageBegins(i) \/ OutageEnds(i)

Next == Tick \/ \E i \in Roles : Step(i) \/ Environment(i)

Spec == Init /\ [][Next]_vars

\* The scheduler runs every goroutine that has something to do, time passes,
\* and the file becomes accessible again.  Nothing obliges a service manager
\* to restart a process.
Fairness ==
  /\ WF_vars(Tick)
  /\ \A i \in Roles : WF_vars(Step(i)) /\ WF_vars(OutageEnds(i))

FairSpec == Spec /\ Fairness

(***************************************************************************)
(* Properties.                                                             *)
(***************************************************************************)
MainStates == [pc : Labels, passive : {"none", "running", "failed"},
               stopping : BOOLEAN, quit : BOOLEAN, failed : {"none", "active", "release"},
               drain : 0..ShutdownTimeout]

LeaseStates == [held : BOOLEAN, owned : Instants, releasedAt : -Horizon..0,
                at : -Horizon..0, seen : Grants]

LoopStates == [renewal : {"none", "idle", "read", "write", "check"},
               failback : {"none", "idle", "probe"},
               stable : -1..FailbackStabilization,
               renewIn : 0..RenewalInterval, renewDue : BOOLEAN,
               checkIn : 0..HealthCheckInterval, checkDue : BOOLEAN]

\* The type invariant.
TypeOK ==
  /\ file \in Grants
  /\ main \in [Roles -> MainStates]
  /\ lease \in [Roles -> LeaseStates]
  /\ loops \in [Roles -> LoopStates]
  /\ stall \in [Roles -> 0..MaxStall]
  /\ outage \in [Roles -> BOOLEAN]
  /\ faults \in 0..MaxFaults
  /\ lost \in BOOLEAN
  /\ overlap \in 0..OverlapCap
  /\ account \in [Roles -> BOOLEAN]

\* The released record is what invites the peer to take over, so it never
\* stands in the file while its writer's Active composition is open
\* (ownership.go, activate: release only after Active has returned).
ReleasedMeansClosed ==
  \A i \in Roles : file.released /\ Names(file, i) => ~Open(i)

\* Each instance's own grant in the file is live from the moment it is written
\* until its release, every renewal and release rewrites a record that was its
\* own, and no renewal loop outlives its activation: what makes
\* ReleasedMeansClosed inductive.
Holding == {"confirm", "acquired", "starting", "activating", "active",
            "draining", "joining", "releaseRead", "releaseWrite"}

LiveGrant(i) == main[i].pc \in Holding /\ Names(file, i) => ~file.released

OwnRecordSeen(i) ==
  main[i].pc = "releaseWrite" \/ loops[i].renewal = "write" => Names(lease[i].seen, i)

LoopsWithActive(i) ==
  loops[i].renewal # "none" => main[i].pc \in {"activating", "active", "draining", "joining"}

OwnGrantIsLive ==
  \A i \in Roles : LiveGrant(i) /\ OwnRecordSeen(i) /\ LoopsWithActive(i)

\* The instances keep the promise of Handover: an offer is a released record.
TurnOf(i) == IF main[i].pc = "down" THEN "out" ELSE IF Open(i) THEN "active" ELSE "idle"

Turns == [i \in Roles |-> TurnOf(i)]

Offered == IF file.released THEN file.owner ELSE "none"

H == INSTANCE Handover WITH Instances <- Roles, turn <- Turns, offer <- Offered

HandoverSpec == H!Spec

\* Two Active compositions are open at once only after one instance's write
\* replaced a record it had not read (the write-then-confirm window the lease
\* accepts): renewal, probing, handover and restart never cause it.
SingleOwnerUnlessLostUpdate == BothOpen => lost

\* Until an update is lost, an open Active composition is covered by its own
\* unexpired, unreleased grant: renewal keeps ahead of expiry, and what is
\* left of the grant outlasts the drain.
OpenIsGranted ==
  \A i \in Roles : Open(i) /\ ~lost =>
    Names(file, i) /\ ~file.released /\ ~Expired(file, 0)

\* However it came about, two open compositions are resolved: the one the file
\* does not name steps down at its next renewal, or when its own grant runs out
\* if it cannot read the file, and drains.
OverlapIsResolved == overlap <= OverlapBound

\* A step of i whose write takes the lease from a Passive turn.
Promotes(i) ==
  main[i].pc = "write" /\ main'[i].pc = "confirm" /\ main[i].passive # "none"

\* An instance never takes back, within one Duration, the lease it handed over:
\* no sequence of ticks, probes and re-reads leads a Passive instance to write
\* over its own released grant while the peer may still be claiming it.
HandoverIsHonoured ==
  [][\A i \in Roles :
       Promotes(i) /\ file.released /\ Names(file, i) => ~InHandover(i)]_vars

\* A slow but serving owner is not failed over: a Passive instance writes over
\* its peer's lapsed grant only when the peer's composition is closed, unless
\* the peer reopened it after the promoter read the file.
ServingOwnerIsNotFailedOver ==
  [][\A i \in Roles :
       Promotes(i) /\ Names(file, Peer(i)) /\ Open(Peer(i)) => lost']_vars

Up(i) == main[i].pc # "down"
Serving(i) == main[i].pc = "active"

\* Once an instance stays up, somebody serves and keeps serving: no crash,
\* stop or outage leaves a grant behind that nobody can take.
SomebodyServes ==
  \A i \in Roles : <>[]Up(i) => <>[](\E j \in Roles : Serving(j))

\* Preferred Primary: with both instances up for good, ownership comes to rest
\* with the Primary alone, whoever held it.
PrimaryIsPreferred ==
  <>[](\A i \in Roles : Up(i)) => <>[](Serving("primary") /\ ~Open("standby"))
=============================================================================
