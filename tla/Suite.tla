-------------------------------- MODULE Suite --------------------------------
(***************************************************************************)
(* The scenarios that run in parallel (scenarios/internal/harness): each   *)
(* takes its share of the suite's budget, its ports and one of the build   *)
(* slots, runs a platform process, and gives everything back on whichever  *)
(* path it ends.                                                           *)
(***************************************************************************)
EXTENDS Naturals, FiniteSets, FiniteSetsExt, Semaphore, ProcessTree

CONSTANTS
  Scenario,
  Machines,      \* the machines of each scenario's project: its weight
  Capacity,      \* what semaphore.New makes of the host's processors
  BuildCapacity,
  Ports,         \* the ports each project listens on
  Band           \* the ports the pool may hand out, 1 .. Band

ASSUME SuiteAssumption ==
  /\ IsFiniteSet(Scenario)
  /\ Machines \in [Scenario -> Nat \ {0}] /\ Ports \in [Scenario -> Nat]
  /\ Capacity \in Nat /\ BuildCapacity \in Nat /\ Band \in Nat

VARIABLES
  budget, builds,  \* the two semaphores
  at,              \* how far each scenario is
  ended,           \* the scenarios whose context is cancelled
  cursor,          \* poolCursor: the candidates checked so far
  ports,           \* what each scenario was given
  child            \* the process of each scenario

shares == <<budget, builds>>
vars == <<shares, at, ended, cursor, ports, child>>

Init ==
  /\ budget = New(Capacity) /\ builds = New(BuildCapacity)
  /\ at = [s \in Scenario |-> "new"] /\ ended = {}
  /\ cursor = 0 /\ ports = [s \in Scenario |-> {}]
  /\ child = [s \in Scenario |-> NoChild]

Go(s, from, to) == at[s] = from /\ at' = [at EXCEPT ![s] = to]

\* DeploySite.
AskBudget(s) ==
  /\ Go(s, "new", "wanting") /\ budget' = Acquire(budget, s, Machines[s])
  /\ UNCHANGED <<builds, ended, cursor, ports, child>>

TakeBudget(s) ==
  /\ Granted(budget, s) /\ Go(s, "wanting", "staging") /\ budget' = Noticed(budget, s)
  /\ UNCHANGED <<builds, ended, cursor, ports, child>>

\* The error of a cancelled wait fails the scenario, which has nothing to release.
LeaveQueue(s) ==
  /\ s \in ended /\ MayLeave(budget, s)
  /\ Go(s, "wanting", "new") /\ budget' = Cancelled(budget, s)
  /\ ended' = ended \ {s}
  /\ UNCHANGED <<builds, cursor, ports, child>>

-----------------------------------------------------------------------------
(* Staging: the ports, and the blueprint. *)

\* Variant: every call searches the whole band.
CandidatesAnew == 1 .. Band

\* The candidates that no call has checked.
Candidates == cursor + 1 .. Band

\* Take: as many of them as are wanted, those in between being in use; or the
\* band runs out, which it stays.
Stage(s) ==
  /\ \/ \E taken \in SUBSET Candidates :
          /\ Cardinality(taken) = Ports[s] /\ Go(s, "staging", "staged")
          /\ ports' = [ports EXCEPT ![s] = taken] /\ cursor' = Max({cursor} \cup taken)
     \/ Go(s, "staging", "cleanup") /\ cursor' = Band /\ UNCHANGED ports
  /\ UNCHANGED <<shares, ended, child>>

\* What was staged could not be written.
StageFails(s) ==
  /\ Go(s, "staged", "cleanup")
  /\ UNCHANGED <<shares, ended, cursor, ports, child>>

-----------------------------------------------------------------------------
(* buildProject. *)

AskBuild(s) ==
  /\ Go(s, "staged", "build_wanting") /\ builds' = Acquire(builds, s, 1)
  /\ UNCHANGED <<budget, ended, cursor, ports, child>>

TakeBuild(s) ==
  /\ Granted(builds, s) /\ Go(s, "build_wanting", "building") /\ builds' = Noticed(builds, s)
  /\ UNCHANGED <<budget, ended, cursor, ports, child>>

LeaveBuildQueue(s) ==
  /\ s \in ended /\ MayLeave(builds, s)
  /\ Go(s, "build_wanting", "cleanup") /\ builds' = Cancelled(builds, s)
  /\ UNCHANGED <<budget, ended, cursor, ports, child>>

\* The slot is released whether or not the build succeeded; a cancelled one fails.
EndBuild(s) ==
  /\ \/ Go(s, "building", "running") /\ s \notin ended
     \/ Go(s, "building", "cleanup")
  /\ builds' = Release(builds, 1)
  /\ UNCHANGED <<budget, ended, cursor, ports, child>>

-----------------------------------------------------------------------------
(* The scenario and its process. *)

\* Machine.Start, StartManaged: processtree.Start step by step, on the
\* scenario's goroutine.  A failure fails the scenario, which has registered no
\* cleanup for the process.
StartChild(s) ==
  /\ \/ /\ Go(s, "running", "starting") /\ child[s].at = "idle"
        /\ child' = [child EXCEPT ![s] = Created(@)]
     \/ /\ at[s] = "starting" /\ child[s].at = "created" /\ s \notin ended
        /\ child' = [child EXCEPT ![s] = Launched(@)] /\ UNCHANGED at
     \/ /\ at[s] = "starting" /\ child[s].at = "launched"
        /\ child' = [child EXCEPT ![s] = Assigned(@)] /\ UNCHANGED at
     \/ /\ Go(s, "starting", "running") /\ child[s].at = "assigned"
        /\ child' = [child EXCEPT ![s] = Resumed(@)]
  /\ UNCHANGED <<shares, ended, cursor, ports>>

StartFails(s) ==
  /\ \/ /\ Go(s, "starting", "cleanup") /\ child[s].at = "created"
        /\ child' = [child EXCEPT ![s] = NoChild]
     \/ /\ Go(s, "starting", "cleanup") /\ child[s].at = "launched"
        /\ child' = [child EXCEPT ![s] = AssignFailed(@)]
     \/ /\ at[s] = "starting" /\ child[s].at = "assigned"
        /\ child' = [child EXCEPT ![s] = ResumeFailed(@)] /\ UNCHANGED at
  /\ UNCHANGED <<shares, ended, cursor, ports>>

\* What the process does: it starts another, it exits.
ChildActs(s) ==
  /\ child[s].proc = "live"
  /\ \/ child[s].kin = "none" /\ child' = [child EXCEPT ![s] = Spawned(@)]
     \/ child' = [child EXCEPT ![s] = Exited(@)]
  /\ UNCHANGED <<shares, at, ended, cursor, ports>>

\* The context of a started command is watched, and its end kills the tree.
WatchKills(s) ==
  /\ s \in ended /\ MayKill(child[s]) /\ child[s].job
  /\ child' = [child EXCEPT ![s] = Closed(@)]
  /\ UNCHANGED <<shares, at, ended, cursor, ports>>

\* Process.Kill, by the scenario or by the cleanup of what it started.
Kill(s) ==
  /\ at[s] \in {"running", "cleanup"} /\ MayKill(child[s]) /\ ~Done(child[s])
  /\ child' = [child EXCEPT ![s] = Killed(@)]
  /\ UNCHANGED <<shares, at, ended, cursor, ports>>

\* Kill returns; the scenario may start the machine again.
KillReturns(s) ==
  /\ at[s] = "running" /\ Done(child[s])
  /\ child' = [child EXCEPT ![s] = NoChild]
  /\ UNCHANGED <<shares, at, ended, cursor, ports>>

\* The scenario passed or failed.
EndRun(s) ==
  /\ Go(s, "running", "cleanup")
  /\ UNCHANGED <<shares, ended, cursor, ports, child>>

\* The cleanups run last in, first out: the budget's was registered before the
\* processes'.
Cleaned(s) == child[s].at \in {"idle", "refused"} \/ Done(child[s])

\* The suite may run the scenario again (-count).
CleanUp(s) ==
  /\ Cleaned(s)
  /\ Go(s, "cleanup", "new") /\ budget' = Release(budget, Machines[s])
  /\ ended' = ended \ {s}
  /\ ports' = [ports EXCEPT ![s] = {}]
  /\ child' = [child EXCEPT ![s] = IF Lives(@) THEN @ ELSE NoChild]
  /\ UNCHANGED <<builds, cursor>>

\* The context a scenario was given ends.
Cancel(s) ==
  /\ at[s] # "new" /\ s \notin ended /\ ended' = ended \cup {s}
  /\ UNCHANGED <<shares, at, cursor, ports, child>>

Step(s) ==
  \/ TakeBudget(s) \/ LeaveQueue(s) \/ Stage(s) \/ StageFails(s)
  \/ AskBuild(s) \/ TakeBuild(s) \/ LeaveBuildQueue(s) \/ EndBuild(s)
  \/ StartChild(s) \/ StartFails(s) \/ EndRun(s)
  \/ (at[s] = "cleanup" /\ Kill(s)) \/ CleanUp(s)

Next ==
  \E s \in Scenario :
    \/ AskBudget(s) \/ Step(s) \/ Cancel(s)
    \/ ChildActs(s) \/ WatchKills(s) \/ (at[s] = "running" /\ Kill(s)) \/ KillReturns(s)

Spec == Init /\ [][Next]_vars

\* A scenario that may go on does, and ends; none has to be started, and none is
\* cancelled of necessity.
FairSpec == Spec /\ \A s \in Scenario : WF_vars(Step(s)) /\ SF_vars(EndRun(s))

-----------------------------------------------------------------------------
Holds(s) ==
  \/ at[s] \in {"staging", "staged", "build_wanting", "building", "running", "starting", "cleanup"}
  \/ at[s] = "wanting" /\ Granted(budget, s)
Builds(s) == at[s] = "building" \/ (at[s] = "build_wanting" /\ Granted(builds, s))

\* Capacity is neither lost nor made: what a semaphore counts is what its holders
\* hold - one that was granted as its context ended and has not noticed included -
\* also for scenarios that ask for more than there is.
CapacityIsAccounted ==
  /\ budget.cur = MapThenSumSet(LAMBDA s : Clamped(budget, Machines[s]), {s \in Scenario : Holds(s)})
  /\ budget.cur <= budget.max
  /\ builds.cur = Cardinality({s \in Scenario : Builds(s)}) /\ builds.cur <= builds.max

\* Nobody waits for room that is there: the head of a queue does not fit, also
\* after one in front of it gave up.
NobodyWaitsInVain ==
  \A q \in {budget, builds} : q.waiters # <<>> => q.cur + Head(q.waiters).n > q.max

\* What runs at once is apart: no process that Start created, and nothing it
\* started, outlives the share its scenario holds of the budget, whatever fails
\* and whoever kills it (StartTogether is outside the model); and no two scenarios
\* were given one port.
ScenariosAreApart ==
  \A s \in Scenario :
    /\ Lives(child[s]) => Holds(s)
    /\ \A r \in Scenario \ {s} : ports[s] \cap ports[r] = {}

\* A scenario that waits for its share is served, or was cancelled: smaller ones
\* do not pass it by forever.  A start that waits for itself keeps its share.
EveryScenarioIsServed ==
  \A s \in Scenario :
    at[s] = "wanting" ~> at[s] # "wanting" \/ \E r \in Scenario : child[r].at = "stuck"
=============================================================================
