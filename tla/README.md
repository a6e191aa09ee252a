# Formal model of the platform

TLA+ models of the parts of this repository whose correctness depends on the
order in which things happen, or on two parts that must agree without sharing
code: what two processes of one machine do to one lease file, what the instances
of a site learn of each other's services over a network that loses and reorders
what they say, how a process starts, serves and ends, what its record says, what
the builder plans and packages, and how the scenarios share one host. TLC
checks the models on small instances and TLAPS proves the main results for all
values of the constants.

## The system

A deployment is a site of machines. Each machine runs a platform process as the
Primary Instance and, when its blueprint asks for it, a second one as the
Standby Instance. The two processes share a host, a clock and a directory, and
nothing else.

| Component | State | Operations | Interacts with |
|---|---|---|---|
| `internal/machine/redundancy` | the lease file; in each process a handle (`held`, `owned`, `releasedAt`) and the turn it is in | `tryAcquire`, `renew`, `release`, `observe`; `ManageOwnership`, `waitWhilePassive`, `evaluatePromotion`, `activate`, `startRenewal`, `startFailback` | the peer, through the file and its health endpoint; `internal/app` through `Runtime.Passive` and `Runtime.Active`; the event publisher |
| `internal/app` | the process: role, epoch, listener, the handler it serves, what it has opened | `Run`, `runProcess`, `runPassive`, `runActive`, `advanceEpoch`; `instanceServer.serveWith`, `drain`, `shutdown`; `peerHealthCheck` | everything below |
| `internal/instance/state` | the epoch record and its file | `Open`, `Advance` | `internal/app` |
| `internal/machine/servicehealth` | per target: status, consecutive failures | one worker per target: probe, record, report | a sink in `internal/app` |
| `internal/site/healthfabric` | sequence, pending map, wake-up; the subscriber's handle | `Publish`, `run`/`drain`, `Close`; `Subscribe`, deliver, `Close` | monitor (sink), view, NATS |
| `internal/site/healthview` | per unit and observer: last epoch, sequence, status | `Apply`, `Snapshot` | fabric, HTTP surface |
| `internal/events/storage`, `instance/eventlog`, `machine/eventstore` | closed flag, publications in flight, append-only files | `Publish`, `Close`, `Append` | everything that states a fact |
| `internal/httpapi`, `platform/api` | none | `/health` and its gate, `/health/services`, stateless answers | read lease, view, state, fabric |
| `internal/instance/natsserver`, `site/eventfabric` | the embedded broker, a connection | start, `Check`, stop | third-party server |
| `platform/config` | none | decode, validate, load | runs before any process does; reads what the builder wrote |
| `builder/internal/blueprint`, `resolve`, `builder/deployment` | none | validate a blueprint, resolve it, validate the descriptors | the platform, through the descriptors |
| `builder/internal/pack`, `builder/build` | the output directory | one package per machine: overlay, compile, describe, sums | earlier builds, through the directory |
| `scenarios` | the two semaphores, ports, child processes in job objects | `Acquire`, `Release`; `DeploySite`; `processtree.Start`, `Kill` | each other, through the host |
| `conformance-tests` | none | black-box tests | the built product |
| `utils` | testnet's port pool | atomic file replace, JSON fields, ports | the above |

What is hard in each, and the properties that make it correct:

* **Ownership.** Every operation of the lease reads the file, decides, and
  writes it in separate steps, so two processes' operations interleave; time
  passes in a stalled process between its read and its write; renewal is
  periodic and may fail; a handover names its former owner. At most one Active
  composition; a release only after the composition is closed; an owner covered
  by a live grant; no failover of a serving owner; no bouncing back; somebody
  serves eventually; the Primary is preferred.
* **State epoch.** A crash between the write and the assignment. An epoch a
  caller acted on is never handed out again.
* **Service health monitor.** Shutdown cancels probes in flight; reports are
  ordered per target. A cancelled probe is not a failure; status changes exactly
  at the retry boundary.
* **Health fabric and view.** Senders and subscribers run concurrently, messages
  are lost, duplicated and reordered, observers restart. A view only moves
  forward, and what is pending is eventually sent or superseded.
* **Events.** `Close` against publications in flight. No backend is used after
  it is closed.
* **Process and server.** Requests are counted before the handler they run on is
  loaded, against the swap and the drain; what was opened is closed in reverse on
  every error path. After a successful drain no request runs on the Active
  handler; the fabric outlives its requests; a stop ends the process.
* **Health surface.** An instance judges its own monitor by what reaches its own
  view; its peer judges it by an answer that must come in time. An instance that
  runs vouches for itself; a broken dependency moves nothing.
* **Builder and configuration.** Two validations written by hand on the two sides
  of a file. What the builder plans starts; a site's machines agree on its fabric
  and inventory; a truncated descriptor is refused.
* **Packages.** A build fails between two files of an earlier package. Sums that
  verify belong to one build.
* **Scenarios.** Cancellation racing a grant; a process that runs before it is
  contained. Capacity is conserved; nothing outlives its share; whoever waits is
  served.

## Modules

| Module | Models |
|---|---|
| `Lease` | the record in the lease file and the pure decisions made on one copy of it (`lease.go`: `record`, `free`, `observe`'s classification, the records `tryAcquire`, `renew` and `release` write), and relative time |
| `Ownership` | both instances taking turns (`lease.go`, `ownership.go`, and `runPassive`, `runActive`, `peerHealthCheck` of `internal/app` as ownership calls them) and the faults around them |
| `Handover` | abstract: what two instances promise each other, with no file, clock or failure |
| `OwnershipProofs` | type correctness of `Ownership`, the inductive invariant of the handover, and the refinement of `Handover`; then what the grants and their timings secure: a handover is honoured; without stalls, one owner, covered by its grant, not failed over while it serves, and overlaps that end |
| `HealthView` | the pure decisions of the site health view: which report a slot keeps and why one is dropped (`healthview/view.go`) |
| `SiteHealth` | workers, publisher, subscriber and views of a site's instances, without time (`machine/servicehealth`, `healthfabric`, `app/servicehealth.go`), with the epoch from `instance/state` |
| `SiteHealthProofs` | the inductive invariant of the fence: reports are identified, slots keep the newest, equal offers give equal views; and of the ledger: no report is lost without being counted, and one's own are news |
| `ServiceProbe` | one service, its observers and one reader, in time: jitter, attempts, the tracker, freshness, and what a snapshot reduces the reports to (`monitor.go`, `tracker.go`, `snapshot.go`, `HealthCheck.FreshFor`) |
| `InstanceHealth` | over `ServiceProbe`: each observer's `/health`, the gate its peer promotes through, and the distribution the reader reports (`platform/api/http.go`, `eventfabric/client.go`, `app/lease.go`, `app/servicehealth.go`) |
| `ServiceProbeProofs` | of both: what the reader is told is current, earned and in time, and a running instance vouches for its monitor, for all timings |
| `ProcessLife` | one process from `Run` to its end: what is opened, stated and closed, the server and its requests, activations, the epoch (`app/app.go`, `runtime.go`, `server.go`, `instance/state`) |
| `ProcessLifeProofs` | its safety and action properties, for all numbers of requests and incarnations |
| `EventStorage` | two instances' publishers with their event logs and the machine's shared file (`events/storage`, `events/factory.go`, `instance/eventlog`, `machine/eventstore`) |
| `EventStorageProofs` | no publication loses its backends, what was accepted is recorded |
| `Blueprint`, `Descriptor`, `PlatformConfig`, `Resolve` | operators: when the builder accepts a project, when a descriptor is complete, what a platform process makes of one, what a project resolves to |
| `Build` | an author edits a project and the builder plans it or refuses; composes the four |
| `BuildProofs` | what a plan promises of every project: it starts, its sites agree on fabric and inventory, and no truncation of it is acted on |
| `Pack`, `PackProofs` | the packages a plan is written to, by builds that fail; what their sums vouch for |
| `Semaphore` | operators: the weighted FIFO semaphore (`scenarios/internal/semaphore`) |
| `ProcessTree` | operators: a child process, what it starts, and the job object around them (`scenarios/internal/processtree`, `procrun`) |
| `Suite` | the scenarios that share a budget, build slots, ports and a host (`scenarios/internal/harness`, `utils/testnet`); composes the two |
| `SuiteProofs` | the semaphore's theory, and that capacity is accounted for, nobody waits in vain and scenarios stay apart, for all suites |
| `SiteHealthMC`, `InstanceHealthMC`, `BuildMC`, `PackMC`, `EventStorageMC`, `SuiteMC` | constants for TLC |

`Ownership` extends `Lease`. It instantiates `Handover` as `H` with
`turn <- Turns` (an instance is `"out"` of the machine, `"idle"`, or `"active"`
while its Active composition is open) and `offer <- Offered` (the owner named in
a released record). `SiteHealth` extends `HealthView`. `ServiceProbe` is the same subsystem with time
and without the fabric, whose part in it is a loss, a bounded delay and a broker
that stops carrying;
`InstanceHealth` extends it. `Build` extends `Resolve`, which extends
`PlatformConfig`, `Descriptor` and `Blueprint` in turn. `Suite` extends
`Semaphore` and `ProcessTree`. `ProcessLife` and `EventStorage` meet in what a
statement is: one step that is accepted or refused in the first, everything that
takes in the second; `ProcessLife` and `Ownership` in what an activation is,
which the first takes as given and the second decides.

Definitions whose comment begins with "Variant" are not part of the model. Each
states how one definition would read with a plausible mistake in the code, and
is there to show that the property it is paired with (`PROJECT.json`, "mutants")
would notice.

### State and actions of `Ownership`

| Variable | In the code |
|---|---|
| `file` | the machine-wide lease file: the last `record` written, or none |
| `main[i]` | where `ManageOwnership`'s goroutine stands (`pc`), the Passive goroutine (`passive`), the process's cancelled context (`stopping`), `stopActive` having been called (`quit`), the error about to be returned (`failed`), what is left of the drain |
| `lease[i]` | the `Lease` handle (`held`, `owned`'s expiry, `releasedAt`) and the operation in flight: the instant it captured (`at`) and the record it read (`seen`) |
| `loops[i]` | the renewal and failback goroutines with their tickers, and how long the Primary has looked healthy |
| `stall`, `outage`, `faults` | the environment: how long an instance stays stalled, whether it can read and write the file, how many faults are still to come |
| `lost`, `overlap`, `account` | history: whether some write replaced a record its writer had not read, for how long both compositions have been open, and whether the machine's record shows an activation that has not ended |

A step is what one goroutine does up to its next access to something shared:

| Action | Code |
|---|---|
| `Start`, `LoopTop` | `runProcess`; `LeaseOpened`, the top of the loop, `OwnershipWaiting` |
| `AcquireRead`, `AcquireWrite`, `AcquireConfirm` | `tryAcquire`'s read, write and confirming read; then, after a Passive turn, stop and join the Passive composition |
| `WaitStopped`, `PassiveFails`, `PromotionTick` | the three branches of `waitWhilePassive`'s select |
| `Observe`, `Probe` | `evaluatePromotion`: the decision, and the peer's health endpoint |
| `AnnounceOwnership`, `StartActivation` | `OwnershipAcquired`; `ActivationStarted` and the start of both loops |
| `BeginActive`, `EndActive`, `EndDrain` | `runActive`: epoch and swap; cancelled, or the listener died; the bounded drain and `APIStopped` |
| `Join`, `ReleaseRead`, `ReleaseWrite`, `EndActivation` | the rest of `activate`: both loops joined, `release`, `ActivationCompleted` or `ActivationFailed` |
| `RenewalTick`, `RenewRead`, `RenewWrite`, `GraceCheck`, `RenewalEnds` | `startRenewal` and `renew` |
| `FailbackTick`, `FailbackProbe`, `FailbackEnds` | `startFailback` |
| `Crash`, `StopRequest`, `Stall`, `OutageBegins`, `OutageEnds` | the environment |
| `Tick` | one unit of time passes, for everybody |

**Time** is relative: an instant is stored as its distance from the present, and
`Tick` moves all of them down by one. Instants more than `Horizon` ago are one
instant, which no decision can tell apart as long as an operation's captured
instant stays above the horizon (`OwnershipAssumption`). Steps take no time:
`Tick` is enabled only when no running instance has anything due, so a goroutine
that is ready runs before the clock moves, unless its process is stalled. A tick
that is ready and a context that is cancelled race, as in a Go select.
`GraceCheck` reads the clock a moment after the unit of time began, so exactly
on the boundary it may go either way.

**Statements.** A machine-scoped statement is refused when the process's context
is cancelled (`eventstore/file.go`, `Append`) or when the store fails; on the
turn-taking path a refusal ends the process. Best-effort statements
(`SteppedDown`, `FailbackInitiated`, ...) change nothing and are left out.

**Faults** are chosen by the constant `Faults`, and `MaxFaults` bounds how many
happen in one behaviour. Restarting (`Start`) is free and never obliged.

### State and actions of `SiteHealth`

| Variable | In the code |
|---|---|
| `durable[i]`, `epoch[i]` | the epoch in the state file; the epoch `startServiceHealth` was given, which the publisher keeps |
| `proc[i]` | running; `"stopping"` (the context is cancelled, `Monitor.Stop` waits), `"closing"` (`Publisher.Close` waits), or gone |
| `worker[i][s]`, `stamped[i][s]` | one goroutine per service: in its wait or its probe, with an outcome, after the lock of `Publish`, after the wake-up; and the stamped observation it will apply |
| `sequence`, `pending`, `wake`, `counts` | the fields of `Publisher` of the same names; the wake channel holds one token |
| `sender[i]`, `batch[i]` | where `Publisher.run` stands, and the map that `drain` took |
| `view[i]` | the slots of `View`, as a set of reports |
| `seen[i]` | for which reasons something was rejected or dropped (the keys of the counters, not the counts) |
| `wire[i]` | what is on its way to `i`; a set, so it reorders |
| `stated`, `heard[i]` | history: every report ever stamped; what was offered to `i`'s present view |

| Action | Code |
|---|---|
| `Start` | `Advance` and `startServiceHealth`, which starts the workers last |
| `Activate` | `advanceEpoch` at an activation: the file moves on, the publisher does not |
| `Interrupt`, `MonitorStopped`, `Stopped` | `serviceHealth.Stop`, step by step |
| `EndAttempt`, `Cancelled` | the end of `attempt`'s probe; its two checks of the context |
| `Publish`, `Wake`, `ApplyOwn` | `Publish` under its lock and after it; `localSink.Observed` applying what came back |
| `SenderWakes`, `TakeBatch`, `Send`, `SendFails`, `Drained`, `SenderEnds` | `run`'s select and `drain` |
| `Deliver`, `Reject`, `Stray` | `Subscriber.deliver`, on a report of the site, on bytes that `decode` refuses, on a report the view cannot place |
| `Crash` | the process dies; its messages in flight do not |

### State and actions of `ServiceProbe`

`well` and `steady` say how the service really is and since when; `phase`,
`timer`, `status` and `failures` are each observer's worker and tracker; `wire`
and `slot` what the reader has of each observer. `Begin` and `EndAttempt` are
`worker.attempt`; an attempt may succeed if the service was well at some moment
of it and fail if it was failing at some moment. `Leave` is a stop or a crash:
both end a worker without a record (`attempt` looks at the parent context after
the probe). A report is sent with a bounded delay or lost, and all of them are lost
once the reader's broker has stopped carrying (`BreakDown`), for good; what is on
its way by then arrives. `missed` counts what was lost since the last arrival, up
to two. A lost report, a leave and a breakdown are each one of `MaxFaults`. `Current`, `Reduce` and `Answer` are `renderUnit` and `reduce`
evaluated now. Time is relative, and `Tick` waits for what is due, as in
`Ownership`.

### State and actions of `InstanceHealth`

`own[o]` is the age of observer `o`'s own report in its own view: `localSink`
applies it whatever becomes of the message, and it ages with everything else.
The rest is evaluated in a state: `Check` with what it takes, `MonitorStatus`
(`serviceMonitorStatus`), `Health` (`NewHealth`), `PeerHealthy`
(`peerHealthCheck`), and the reader's `Missing`, `Stale`, `Heard` and
`Distribution`.

### State and actions of `ProcessLife`

`pc` says where the main goroutine is; where it states a fact, `pc` is the
fact's name and `Then` says where it goes if the fact is accepted and where if
it is refused. `up` is what `Run` opened (publisher, broker, fabric client,
health), which `Unwind` closes last first. `listener`, `returned` and `handler`
are the `instanceServer`; `request[r]` is how far a request is; `passive` and
`loops` are the goroutines beside the main one. `disk` and `mem` are the epoch
in the state file and in `Store`.

| Action | Code |
|---|---|
| `Launch`, `Advance`, `Start`, `Listen` | `Run` up to the ownership turns: opening the record and the state file, `Advance` for both reasons, broker, client, health, lease, listener |
| `Turn`, `StartPassive`, `PassiveGoes`, `Decline`, `Promote`, `StopWaiting`, `JoinPassive` | a turn and the Passive composition; who owns the lease is left open |
| `StartLoops`, `LoopTicks`, `LoopEnds`, `Swap`, `Serve`, `Retire`, `Drain`, `Join`, `EndTurn` | `activate` and `runActive` |
| `Shutdown`, `ShutdownEnds`, `Unwind` | `runProcess`'s deferred shutdown, `Run`'s deferred closes |
| `Arrive`, `ServeHTTP`, `ListenerDies`, `Interrupt`, `Crash` | requests, and what happens to the process |

A write of the state file that is reported as failed may have replaced it
(`AdvanceEpoch`), and a crash in the middle of an advance may too.

### State and actions of `EventStorage`

`call[i][t]` is what a thread's `Publish` is doing: stamped (`Wrap`), in the
event log (`StoreLog`), in the machine's file (`StoreMachine`), back (`Return`).
`closed` and `inFlight` are the publisher's; `open` are the backends whose file
is open. A file is the facts on lines of their own (`lines`), those appended to a
torn line (`glued`), and whether it ends with one (`torn`): a write may be whole,
whole without its sync, or cut short, and both instances append to one machine
file. `End` cancels the context, `Close` and `CloseBackend` close; `Crash` and
`Restart` leave the files as they are.

### State and actions of `Build` and `Pack`

`Build` has a `project`, the `edits` made to it and the `plan`. `Author` replaces
one value of the project; `BuildPlan` resolves it, or refuses it. Everything else
is operators: `ProjectAccepted` (blueprint validation), `DescriptorOf` and
`Resolves` (resolution and the builder's own validation), `Decodes`, `Loads` and
`Starts` (the platform's, from decoding to the parts that check again). A text is
a word, its spelling and whether it is padded with blanks, which is what the
comparisons in the code tell apart: by path key, by trimmed value, byte by byte.

`Pack` builds the machines of a plan one after another, a step per file:
`Stage`, `Compile`, `Describe`, `HashBinary`, `WriteManifest`, `WriteRelease`,
`WriteChecksums`, `Remove`. `Fail` ends a build at any of them; `Author` changes
the blueprint between builds, and `Run` starts one over what is there.

### State and actions of `Suite`

`budget` and `builds` are the two semaphores, `at` is how far each scenario is
(it waits for its budget, stages, waits for a build slot, builds, runs, starts a
process, cleans up), `cursor` and `ports` are the pool and what it gave, and
`child` is the scenario's process with its job object. `AskBudget`, `TakeBudget`
and `LeaveQueue` are `Acquire` step by step, as `AskBuild`, `TakeBuild` and
`LeaveBuildQueue` are; `Stage` is `testnet.Take`; `StartChild` and `StartFails`
are `processtree.Start` step by step; `WatchKills`, `Kill` and `KillReturns` end
the process; `CleanUp` runs the cleanups last in, first out. Scenarios pass a
context that is not cancelled while they wait; `Cancel` cancels it at any time,
which is what `Acquire` is written for.

## Runs

### Ownership

All of these use `Duration = 3`, `RenewalInterval = 1`, `HealthCheckInterval = 1`,
`FailbackStabilization = 2`, `ShutdownTimeout = 1` unless said otherwise. Three
units are the shortest grant in which a renewal may fail, be retried, and the
owner still step down within its grace with a drain of one unit before expiry;
the stabilization window spans several checks. Both roles exist, as in every
machine with a lease; there is no third instance in the system.

| Run | Faults | Checks |
|---|---|---|
| `own_timed` | 3 of crash, stop, lost probe, refused record, slow request | Two compositions are open only after a lost update (`SingleOwnerUnlessLostUpdate`); an open one is covered by its own live grant (`OpenIsGranted`); two open ones do not last (`OverlapIsResolved`) |
| `own_disturbed` | 2 of stall (one unit each), crash, outage, stop; `Horizon = 5` | the inductive invariant `OwnGrantIsLive`, the refinement `HandoverSpec`, and `HandoverIsHonoured`: an instance never takes back, within one `Duration`, what it handed over |
| `own_live` (`FailbackStabilization = 3`) | 2 of outage, crash, refused record, slow request; fair | `ServingOwnerIsNotFailedOver`, `SomebodyServes`, `PrimaryIsPreferred` |

What the bounds leave out. `SingleOwnerUnlessLostUpdate` and `OpenIsGranted` need
`RenewalInterval + ShutdownTimeout < Duration`, goroutines that run when they are
due and a file that can be read; `own_disturbed` states what still holds with
stalls and outages. The bound is tight: with a shutdown timeout of 2 instead of 1,
the run finds both violated. Nothing in the code asks for it: `lease.go:121-126`
and `builder/deployment/deployment.go:241` compare the renewal interval with the
duration only, and the timings of `examples/customer-a` and of the builder's
`testdata` (15 s, renewed every 5 s, a shutdown of 10 s) are exactly on the
boundary.
`ServingOwnerIsNotFailedOver` is checked without lost probes and stop requests:
a lost probe is precisely what makes a serving peer look unhealthy, and a
cancelled context makes every probe say so (`peerHealthCheck`).

The model shows executions that a reader of the comments would not expect:

* Both instances read a free lease; one writes and confirms; then the other
  writes and confirms. Both are Active until the first one's next renewal
  (`lease.go:137-140` says the confirm resolves this to one owner; the file's
  header accepts it as practically unreachable). This is one of the lost updates
  of `SingleOwnerUnlessLostUpdate`, and `OverlapIsResolved` bounds it.
* An owner that cannot renew steps down in its grace, but its drain may outlast
  the grant, because `ShutdownTimeout` is not related to the lease's timings. The
  same holds of an owner that renewed an interval ago and is then told to stop.
* For the same reason a peer that starts anew may open while an instance is still
  closing.
* A stop between the acquisition and `ActivationStarted` refuses the statement,
  and the process leaves without a release.
* An outage keeps an owner from renewing, and its peer, started then, takes the
  lapsed lease on its first turn, which probes nobody (`ownership.go:163`;
  `docs/01-architecture.md:228` gates a takeover by the peer's health).
* A stall between `release`'s read and its write: the peer takes the lapsed lease
  and the write replaces its grant (`lease.go:231`; lines 205-207 say a release
  leaves a new owner alone).
* A release that fails ends the process (`ownership.go:375`; lines 430-433 speak of
  an instance that goes on).
* After a graceful stop `ActivationCompleted` is published under the cancelled
  context and refused (`eventstore/file.go:56`; `docs/02-events.md:98-99` pairs
  every activation with its end).

**Fairness** (`Ownership!FairSpec`): every step of a running instance that stays enabled is
taken (the Go scheduler runs every goroutine that is ready), time passes, and a
file outage ends. Nothing obliges a crashed process to be restarted, so
`SomebodyServes` speaks of an instance that stays up from some point on. The
fault budget is finite, so faults eventually stop, which is what "for good"
means in these properties.

### Service health

| Run | Instance | Checks |
|---|---|---|
| `health_site` | two instances, one service; the Primary reports three times, the Standby listens, each may be restarted once after a crash; repeated messages and strays | `NewestReportWins`; `SameReportsSameView`; `OwnReportIsNews`: what an instance finds out itself is news to its own view |
| `health_process` | one instance, two services, two reports, refused sends, an activation, stops and restarts; fair | `ReportsAreUnique`; `EveryReportIsCounted`: sent, superseded, refused or waiting, and the newest of a service is what waits, also while a stop goes on; `ReportsLeave`: what is handed to a publisher that keeps running leaves it; `StopCompletes` |
| `probe_both` | both observers of a machine; `Interval = 2`, `Timeout = 1`, `Retries = 2`, one lost report, leave or breakdown; fair | `FreshWhileHeard`: what is heard stays current, and one lost report makes it stale for no longer than an attempt (and a delay); `HealthIsSeenPromptly`, `UnhealthyIsEarned`; `RecoveryIsSeen`, `OutageIsSeen`: the answer follows the service within a bound, whatever is lost and whoever dies; `MonitorSpeaksForItself`: an instance that runs vouches for its monitor, whatever becomes of its reports; `DistributionSettles`: the distribution ends as what there is to hear, all, some or none of the observers |
| `claim_gate` | the same instance | refutes `DependencyIsNoGate` |

Two reports from one incarnation and one from the next (or the other way round)
are the least that tell the order by epoch and sequence from the order by either.
One listener hears them in any order, with any of them lost or repeated; a second
would hear nothing that the first cannot, and equal offers are already compared
between the listener and the observer's own view. `MaxStrays = 1` lets one kind of
stray into each process: none of them changes anything but a counter, which is
what the run shows, so one after another says no more. Two services and two
reports in one process are the least for a report to be superseded, for one to be
queued while the other is sent, and for two incarnations to make different
reports. `MaxEpoch` and `MaxReports` end a behaviour: when every incarnation is
used and every process is down nothing is left to happen, so these runs do not
look for deadlocks. `StopCompletes` is where a stop that waits forever would show.

In `probe_both` the timeout is as long as it may be against the interval, which is
where freshness is tightest; two retries are the least with a
failure that counts and does not decide. The observers' phases differ by a unit, as
jitter makes them. One fault is enough to go stale, to be gone, to be restarted in
the middle of an attempt or to carry nothing. `Delay = 0` keeps the state space of the
two phase-shifted observers small enough for the liveness property: what all the
others say of a slow network, and of several faults, is proved, for every `Delay` and
`MaxFaults`. `CheckTimeout` and `PeerTimeout` are the
code's two seconds and one. What the reader's distribution says of its own machine
is not among `Heard`: its own reports arrive without the broker, and the run shows
that counting them would hide a broker that carries nothing.

`claim_gate` is a disagreement of the code with its comment (`PROJECT.json`,
"findings"): `peerHealthTimeout` is one second and `eventfabric`'s `checkTimeout` is
two, so an instance whose broker has stopped delivering answers too late and its peer
takes it for unhealthy, while `NewHealth` says that a failing dependency does not
open that gate.

Further sentences the model disagrees with, without a run of their own: `FreshFor`
is two intervals and one timeout and makes a single lost report survivable
(`config/deployment.go:439-441`, `resolve.go:162-164`,
`builder/deployment/deployment.go:536-538`), but a worker waits its interval from the
end of an attempt, so after a lost report the next may come two intervals and two
timeouts after the last that arrived, which is what `FreshWhileHeard` allows for; the
local view is written after the report is queued, and so perhaps after it is sent
(`servicehealth.go:136` says before); what is pending when `Close`
cancels the sender may still be sent, as the select finds both its cases ready
(`publisher.go:159` says dropped); and a snapshot's counts of what was dropped,
and its ages, depend on the order in which reports arrived (`snapshot.go:12-13`
says that nothing does; the slots do not).

**Fairness** (`SiteHealth!FairSpec`): workers and the sender of a running process
are scheduled, waits and probes end by their timers, and a stop that has begun is
carried on. Nothing obliges an instance to start or a message to arrive.
`InstanceHealth!FairInstances`: something always happens, be it an attempt that
begins or ends, a report in flight that arrives, or time that passes. As time waits
for what is due, and between two of its ticks only so much is due, none of them is
passed over. Faults are bounded, so they end; the service may change as
often as it likes.

### Process, record, build, packages, scenarios

| Run | Instance | Checks |
|---|---|---|
| `process` | two requests, up to three incarnations, with and without a lease; fair | `RetiredHandlerIsQuiet`: no request runs on the Active handler after a drain that succeeded; `SiteOutlivesRequests`: the fabric is closed under no request unless the shutdown ran out of time; `EndIsStatedLast`; `IncarnationsDiffer`: each acts under a higher epoch than all before; `StopEndsTheProcess` |
| `record` | two goroutines of one instance and one of the other, a fact each, two faults; fair | `BackendsOutlivePublications`; `AcceptedIsRecorded`: what `Publish` accepted is on a line of its own, or on the one line a torn write spoils; `CloseCompletes` |
| `build` | a project of two sites and three machines, about ninety edits, up to three at once | `PlannedMachinesRun`: what is planned starts, and its observations are placed; `SiteFormsOneFabric`; `SiteSharesOneInventory`: the machines of a site list one inventory, of exactly the services they host; `TruncatedDescriptorsAreRefused`: a descriptor that lost a key something is decided from is refused |
| `pack` | three machines, two of which share a directory; two versions, four builds | `ChecksumsVouch`: sums that verify are one build's |
| `suite` | two scenarios of one machine and one of three, a budget of two, one build slot, three ports; fair | `CapacityIsAccounted`, `NobodyWaitsInVain`; `ScenariosAreApart`: no process that `Start` created outlives its scenario's share, no port is given twice; `EveryScenarioIsServed` |

Two requests in `process` are one that is under way while another is accepted,
which is all that the swap, the drain and the shutdown distinguish; three
incarnations are a launch and an activation, and one of them again after a crash.
A request never ends of necessity. In `record` two faults are a torn line and
what the next writer or a restart makes of it; the other instance publishes one
fact into the shared file. Three edits in `build` reach a mistake, the choice that
hides it and one more; the words and numbers are chosen so that every guard of the
validations fails for some edit and passes for another. Four builds in `pack` are
enough for a failed one over a whole one over a failed one. In `suite` the large
scenario asks for more than the budget holds, so it is clamped and must wait for
everyone; three ports run out when the scenarios are repeated.

`process`, `build`, `suite` and the health runs do not look for deadlocks: the
epoch's bound and a plan that was made end a behaviour, and in `suite` a start
that waits for itself does.

**Fairness.** `ProcessLife`: the main goroutine, the Passive one and the loops go
on, and a wait whose context ends does not prefer its ticker forever.
`EventStorage`: a publication that was admitted goes on, and `Close` with it.
`Suite`: a scenario that may go on does, and, as a test is a finite program, one
that can keep starting and killing its process still ends (`SF` on `EndRun`).
None has to be started or cancelled.

What these models say against the repository's words, or beside them:

* An instance whose listener dies while it is Passive runs on unreachable:
  `server.go:44-46` says that this ends it, but nothing reads the outcome until the
  next activation or the end. A drain or a shutdown that runs out of time still
  closes the fabric.
* A process that fails to start before its lease is opened states no
  `process_stopped` (`app/events.go:15` says "stated last, whatever the outcome");
  a state file that cannot be opened is not stated at all.
* The line after a torn one is glued to it, so a line that was accepted and synced
  may be unreadable (`eventstore/doc.go` speaks of one synced line).
* A machine name padded with blanks is trimmed in the inventory and not in the
  descriptor, so the machine's own observations are dropped; `PlannedMachinesRun`
  excepts it. Addresses spelled in two ways pass the check for shared ones, names
  that differ only by case share a package directory on Windows, and a site
  without machines is accepted. A descriptor that lost its routes isolates an
  instance silently, and a stabilization window that is not positive is refused by
  the builder and not by the platform.
* A package whose sums verify may carry the manifest of another build: the sums
  cover the binary and the descriptor (`pack/doc.go`: "Every package is
  self-describing").
* `processtree.Start` that cannot resume its process calls `Kill`, which waits for
  the channel that only `Start`'s return closes: it waits for itself, and its
  scenario keeps its share. `EveryScenarioIsServed` excepts that case.
* The budget bounds machines, not processes (`harness.go:62`), and
  `StartTogether`, when its first instance fails, leaves the second without a
  cleanup.

## Proofs

Checked by TLAPS.

**Ownership**, for every value of the constants that `LeaseAssumption` (what
`OpenLease` enforces: positive timings and a renewal interval below the
duration) and `OwnershipAssumption` (a positive shutdown timeout; the horizon)
allow, hence for every mix and number of faults, and every length of stall.

* `OwnershipProofs!TypeCorrect`: `Spec => []TypeOK`. One lemma per family of
  actions (`AcquireType`, `ActivateType`, `LoopsType`, `FaultType`, `TickType`),
  over the conjunction `AllTyped` of the variables' types.
* `OwnershipProofs!GrantStaysLive`: `Spec => []OwnGrantIsLive`. The release comes
  after the close in `activate`'s program text, but the renewal loop and the
  peer write the same file, and a renewal that read the record before a release
  would undo or precede it. So the invariant says of each instance: from its
  write until its release the file, if it names the instance, is unreleased
  (`LiveGrant`); what a renewal or a release is about to write back is a record
  that named the instance (`OwnRecordSeen`); and no renewal loop runs outside
  its activation (`LoopsWithActive`). It is inductive together with the types.
  For each action, either the actor's part is kept by what it does, or the
  action is the peer's and then the file changes only to a record that names
  the peer (`PeerKeeps`).
* `OwnershipProofs!ReleaseFollowsClose`: a released record never stands while its
  writer's composition is open, a consequence.
* `OwnershipProofs!KeepsHandover`: `Spec => HandoverSpec`. Every action maps to
  one action of `Handover` or a stutter; `Open` needs `offer # i`, which is
  `LiveGrant`.
* `OwnershipProofs!HandoverHonoured`: `Spec => HandoverIsHonoured`, with no further
  hypothesis, stalls included. A stalled instance may claim on a record it read
  long ago, so the proof first bounds how late it can be: a captured instant is no
  older than what the faults spent so far can have stalled it (`InTime`), which the
  horizon exceeds by a duration. Then an instance on its way to the write is not in
  a handover of its own while the file is still its release (`Patient`).

The other theorems about the grants need goroutines that run when they are due
(`"stall" \notin Faults`): then an operation's instant is the present, what was
read is still so, and a ticker that ran out is due (`Prompt`). Each names what more
it needs, and holds for every other fault and every timing.

* `OpenStaysGranted` (`OpenIsGranted`) and `SingleOwner`
  (`SingleOwnerUnlessLostUpdate`): no outages, and
  `RenewalInterval + ShutdownTimeout < Duration`. What is left of an open
  composition's grant is at least what it will still be used for: the wait until
  the next renewal while the loop is idle, then nothing of the interval, and of the
  drain what has not been drained yet (`Covered`); a grant just written is whole
  (`Fresh`). The peer writes over a grant only when it lapsed, or it replaces a
  record it has not read, and then the update is lost. Two open compositions would
  both be named by the file.
* `ServingOwnerKept` (`ServingOwnerIsNotFailedOver`): no lost probes and no stop
  requests. A Passive instance past its probe knows that a peer whose grant lapsed
  has closed (`Probed`), and the peer cannot open again without writing.
* `OverlapResolved` (`OverlapIsResolved`): nothing more. However two compositions
  came to be open, one of them is not the one the file names and is on its way out
  (`Ousted`): its next renewal finds that out, or, where the file cannot be read,
  its own expiry, which a renewal never leaves more than a duration ahead
  (`Credit`); and what it drained is counted against the rest.

**The site's views**, for every set of services and instances and every bound
on restarts and reports (`SiteHealthAssumption` only says that the strays'
names are nobody's):

* `SiteHealthProofs!TypeCorrect`, `Identified` (`ReportsAreUnique`), `NewestWins`
  (`NewestReportWins`), `Converges` (`SameReportsSameView`), `OnlyStated`
  (a view holds only what instances of the site stated), all from one inductive invariant. Uniqueness is not
  inductive alone: a new report is new because its publisher works under an epoch
  no later than the durable one and, if it is the latest, has counted past every
  report of that epoch (`Fence`). What is pending, in a batch, on the wire or
  heard was stated (`Carried`), and a slot holds the newest of what was heard, one
  for each observer and service (`Slots`). `ApplyKeepsNewest` is the step that
  matters: because reports are identified, whatever `Apply` drops as a duplicate
  or as stale is no later than what the slot holds.
* `EveryReportCounted` (`EveryReportIsCounted`) and `OwnReportsAreNews`
  (`OwnReportIsNews`), from a second one, `Accounted`. The `Ledger` adds cardinalities: sequence =
  sent + superseded + failed + pending + batch, where pending holds at most one of a service and a
  publication replaces exactly that one. `News` says where a report can be before
  its worker has applied it: it is later than everything in the view of its
  observer, because only that worker states for its service (`OwnReports`) and the
  fabric does not echo. The ledger at a stop needs that the sender outlives the
  workers (`WorkersFirst`).

**What the reader is told**, for every interval, every timeout and network delay below it, all
retries, jitters and observers (`ServiceProbeAssumption`):

* `ServiceProbeProofs!TypeCorrect`, and `StaysFresh` (`FreshWhileHeard`). The
  invariant `Fresh` adds the age of a slot to what is left of the worker's timer:
  at most an interval in the wait, at most an interval and a timeout in the
  attempt, and, while the report is on its way, at most the two intervals and a
  timeout that `FreshFor` allows; and an interval and a timeout more in each case
  when one report was lost (`Gap`).
* `OutageIsEarned` (`UnhealthyIsEarned`). `Counting`: the age of a run of failures
  and what is left of the wait after the k-th add up to k waits at least.
* `RecoveryIsAlwaysSeen` and `OutageIsAlwaysSeen` (`RecoveryIsSeen`,
  `OutageIsSeen`), from one invariant, `Late`, which follows what is no longer
  true of the service from the attempt that can still find it, through the
  tracker (whose failures say how many attempts have begun since) and the wire,
  to the slot, and bounds at each place how long ago the service changed. It asks
  nothing of losses or of who runs: whatever was not said is not there to be
  believed.
* `HealthIsAlwaysSeenPromptly` (`HealthIsSeenPromptly`). `Prompt` says of an
  observer that is heard and has not called the service healthy yet how much of a
  wait, an attempt and a delay still lies ahead; a report that arrives after its
  process was restarted needs a second delay.
* `ServiceProbeProofs!MonitorAlwaysSpeaksForItself` (`MonitorSpeaksForItself`):
  the age of an observer's own report and what is left of its worker's timer add
  up to an interval and a timeout at most, an interval less than `FreshFor`.
  `InstancesWatchTheService`: a step of the instances with their `/health` is a
  step of `ServiceProbe` or a stutter, so that all of the above holds of the
  specification `probe_both` checks (`InstancesReportTruly`).

The counts of retries multiply intervals; the two products (`Waits`, `Attempts`)
are hidden behind what the lemmas `WaitsAdd` and `AttemptsAdd` say of them, which
leaves linear arithmetic.

**The process**, for every number of requests and incarnations:
`ProcessLifeProofs!RetiredHandlerIsAlwaysQuiet`, `SiteAlwaysOutlivesRequests`,
`EndIsAlwaysStatedLast` and `IncarnationsAlwaysDiffer`. The invariant ties each
place of the main goroutine to what is open, which handler is loaded and which
loops run there: a request on the Active handler was counted before the swap, so
a drain that saw none in flight leaves none; and memory never falls behind an
epoch that was acted on, nor the disk behind memory.

**The record**, for every set of instances and goroutines and every number of
faults (`StorageAssumption`): `EventStorageProofs!BackendsAlwaysOutlivePublications`
(a publication past its admission is counted, and backends close only when none
is) and `AcceptedIsAlwaysRecorded` (an accepted fact failed in neither backend,
files lose no line, and every glued line has its tear).

**Packages**, for every plan, every sharing of directories and any number of failed
builds (`PackAssumption`): `PackProofs!ChecksumsVouchAlways` and
`ReportedPackagesAreWholeAlways` (what a build reported is whole, until a later
machine of the plan that shares its directory is built). `WrittenSoFar` says which
files of the machine under way are its own at each step, `SumsArePaired` that sums
are only taken of one build's pair.

**Scenarios**, for every finite set of them, every size, number of ports and
capacity (`SuiteAssumption`; a scenario deploys at least one machine):
`SuiteProofs!CapacityAlwaysAccounted`, `NobodyEverWaitsInVain` and
`ScenariosStayApart`. The first part is a theory of the semaphore on its own. It is
`Sound` when what it counts is what its holders and those it has granted weigh, and
`Full` when its head does not fit; `notify` makes a sound one full
(`NotifiedSound`), and `Acquire` in its halves, a cancellation and `Release` keep
both (`AcquireSound`, `NoticedSound`, `CancelledSound`, `ReleaseSound`). Weights are
any that stay within the capacity, so the same lemmas serve the budget, whose
weights are clamped, and the build slots, whose weights are one. A sum over a set of
scenarios is a `Measure`: nothing weighs nothing, and one more adds its weight; that
one exists, is unique and is what `MapThenSumSet` computes is proved by looking at
a smallest set for which it would not be. The invariant then says of each semaphore
that it is sound and full for the scenarios at the places in the code where they
hold or wait; that a port that was given lies behind the cursor; and what a child
may be at each place of its scenario, which is where a process that could start
others before its job object holds it would show.

**The plan**, for every project with any number of sites, machines and services
that an author can state. `BlueprintAssumption` says of the constants that the
largest port and duration are naturals, that a missing block is not a malformed
text, and that neither an address nor a request path is empty (`net.ParseIP`
refuses the first, `validateHTTPHealthCheck` the second); `DescriptorAssumption`
that the loopback address the builder writes is an address; `BuildAssumption` that
the project the author starts from has the shape of one. The invariant is `PlanSound`: what is planned is what the project at
hand resolves to, and it was accepted. The rest says what `resolve.Build` gives:

* `BuildProofs!PlannedStart` (`PlannedMachinesRun`). The two validations were
  written by hand on the two sides of a file, so each guard of the platform is
  followed back to one of the builder's, part by part (`ValidStarts` and the lemmas
  before it): the lease, the listener, the broker, the monitor of each target, the
  view of the whole site.
* `PlannedInventories` (`SiteSharesOneInventory`). The inventory is computed from
  the blueprint and the probes from the machine's own block: that each hosted
  service has a unit and that each unit is such a service (`UnitsFrom`,
  `UnitCovers`, `PlannedInventory`) are two directions, and that no service has two
  units rests on names that are unique once trimmed (`UnitsKeyed`, `PlannedKeyed`).
  That a report stays fresh for longer than two probes is arithmetic on `FreshFor`
  (`FreshForOverlaps`).
* `PlannedFabrics` (`SiteFormsOneFabric`). Each instance dials every other of its
  site and none dials itself (`RoutesToPeer`, `RoutesToSite`); because addresses
  are apart (`AddressesApart`), a list without repetitions has as many routes as
  there are others (`CountedByList`), so nobody else is dialled.
* `TruncatedRefused` (`TruncatedDescriptorsAreRefused`). A lost key is read as its
  zero value at the end of a path; `PutOne`, `PutThree` and `PutFour` say what
  replacing it leaves alone, and a lemma for each block which guard refuses what is
  left.

A list that is put together from lists has whatever each of them has, and nothing
else (`ConcatHolds`), which is what all four rest on.

### What is left to TLC

Every safety invariant of the runs is stated by a theorem. Only model-checked are
the ownership properties where the hypotheses of their theorems fail (`own_timed`
and `own_live` choose the faults for which they hold), and the liveness properties
`SomebodyServes`, `PrimaryIsPreferred`, `ReportsLeave`, `StopCompletes`,
`DistributionSettles`, `CloseCompletes`, `StopEndsTheProcess` and
`EveryScenarioIsServed`, as liveness under fairness is out of the prover's reach.

The library's induction theorems take an operator as a parameter, which the
installed provers cannot instantiate. Where a proof needs an induction over data
(the prefix sums of a queue, the sums over sets, a list of lists), `SuiteProofs`
and `BuildProofs` take the least counterexample instead: the natural numbers are
well founded (`LeastOf`, `CountingUp`), and a finite set that is not empty has a
greatest member (`MaxOf`). The recursive functions of the model are unfolded by
what one step of them computes. The provers know nothing of `SelectSeq`, so the
routes follow the two nested loops of `natsRoutes` instead of filtering.

## Not modelled

* Statements that no decision depends on: application log lines, best-effort
  events, what a report carries for a reader.
* The bytes of a message and of the lease file: decoding is the choice between a
  record and a reason to refuse it. A file that is read as garbage is an
  unreadable one.
* The HTTP prober, the listener and the NATS server: an attempt is answered or
  not, a port is served or not, a message arrives or not.
* The machine's clock is taken to be one clock that moves forward, as both
  instances of a machine share it; a clock that is set back is not modelled.
* Integers are unbounded: the epoch and the sequence are `uint64` and start at
  one, and `FreshFor` refuses a policy whose sum overflows.
* HCL and JSON syntax, display names of Windows services and the printed summary
  of a configuration. A descriptor on the wire is its value and the keys that are
  missing.
* The application log, which nothing reads back; the two counters by reason that
  follow the epoch.
* The stateless answers of the HTTP surface, OpenAPI and the .NET SDK generated
  from it.
* Conformance tests and the scenarios themselves, which are test programs over the
  built product; a scenario's several processes are one.

## Plan

In order of what it tells about the system:

1. What the site's views promise as an abstract module (each slot moves forward in
   one order of reports), and that `SiteHealth` implements it.
2. That `ProcessLife` implements what `Ownership` takes of an activation, and the
   reverse.
3. `Suite`: `StartTogether`'s two processes.
4. `EventStorage`: the reader of the machine's file, once there is one, over lines
   that are torn and glued.
