------------------------------- MODULE Build -------------------------------
(***************************************************************************)
(* An author edits a project, and the builder resolves it into the         *)
(* descriptors its machines are built from, or refuses it                  *)
(* (builder/build, builder/internal/resolve). What the plan promises is    *)
(* stated over the processes that would start from those descriptors.      *)
(***************************************************************************)
EXTENDS Resolve, FiniteSets

CONSTANTS
  Baseline,   \* the project the author starts from
  Edits,      \* the edits on offer: <<path, value>>
  MaxEdits,   \* bound: the edits made before the build
  NoPlan,     \* nothing has been built yet
  Refused     \* the builder returned an error

ASSUME BuildAssumption == Baseline \in Projects

VARIABLES project, edits, plan

vars == <<project, edits, plan>>

\* What the first k steps of a path lead to.
Along(record, path, k) ==
  LET at[j \in 0 .. k] == IF j = 0 THEN record ELSE at[j - 1][path[j]] IN at[k]

\* The record with another value at the end of a path.
Put(record, path, value) ==
  LET put[k \in 0 .. Len(path)] ==
        IF k = Len(path) THEN value
        ELSE [Along(record, path, k) EXCEPT ![path[k + 1]] = put[k + 1]]
  IN  put[0]

\* Whether the path still leads somewhere after the edits made before.
Leads(record, path) ==
  ~ \E k \in 1 .. Len(path) :
      LET block == Along(record, path, k - 1)
      IN  block = Absent \/ path[k] \notin DOMAIN block

Init == project = Baseline /\ edits = {} /\ plan = NoPlan

Author ==
  /\ plan = NoPlan /\ Cardinality(edits) < MaxEdits
  /\ \E edit \in Edits \ edits :
       /\ Leads(project, edit[1])
       /\ project' = Put(project, edit[1], edit[2])
       /\ project' \in Projects
       /\ edits' = edits \cup {edit}
  /\ UNCHANGED plan

\* build.Run up to the plan: blueprint.Load, then resolve.Build.
BuildPlan ==
  /\ plan = NoPlan
  /\ plan' = IF Resolves(project) THEN Plan(project) ELSE Refused
  /\ UNCHANGED <<project, edits>>

Next == Author \/ BuildPlan

Spec == Init /\ [][Next]_vars

-----------------------------------------------------------------------------
Planned == plan \notin {NoPlan, Refused}
Machines == DOMAIN plan
SetOf(list) == {list[i] : i \in DOMAIN list}
InstancesOf(place) == {InstanceOf(plan[place], role) : role \in SetOf(DeployedRoles(plan[place]))}
SiteOf(place) == {other \in Machines : other[1] = place[1]}

\* Every machine the builder plans is one whose deployed instances both start
\* from the descriptor they are compiled with, and each files its own
\* observations under a unit its own inventory lists - except on a machine
\* whose authored name is padded with blanks, which resolution trims on one
\* side of the contract only.
PlannedMachinesRun ==
  Planned => \A place \in Machines :
    LET d == plan[place]
    IN /\ \A role \in SetOf(DeployedRoles(d)) : Starts(Wire(d), role)
       /\ d.machine = Trim(d.machine) =>
            \A i \in DOMAIN d.services : IsPlaced(d, OwnKey(d, d.services[i].name))

\* The servers of a site form one cluster and no other: each dials every other
\* deployed instance of its site exactly where that one listens, no server is
\* named twice in the project, and no two sites name one cluster. Two machines
\* of a site listen apart unless their ips are one address spelled two ways.
SiteFormsOneFabric ==
  Planned => \A place \in Machines : \A self \in InstancesOf(place) :
    LET members == UNION {InstancesOf(other) : other \in SiteOf(place)}
    IN /\ SetOf(self.nats.routes) = {peer.nats.address : peer \in members \ {self}}
       /\ Len(self.nats.routes) = Cardinality(members) - 1
       /\ \A other \in Machines : \A peer \in InstancesOf(other) :
            /\ peer.nats.server = self.nats.server => peer = self
            /\ (peer.nats.cluster = self.nats.cluster) = (other \in SiteOf(place))
       /\ \A peer \in members \ {self} : peer.nats.address # self.nats.address

\* The unit is the service as its machine hosts and probes it: a report is
\* expected from every instance that machine deploys, and stays fresh for more
\* than two intervals of the policy it is probed by.
Covers(unit, d, service) ==
  /\ unit.machine = Trim(d.machine) /\ unit.profile = Trim(d.profile)
  /\ unit.service = service.name /\ unit.role = service.role
  /\ unit.observers = DeployedRoles(d)
  /\ unit.freshFor > 2 * service.check.interval
  /\ unit.freshFor <= MaxDuration

\* Every machine of a site is told the same: one inventory in one order, which
\* lists the services that the site's machines host, and none besides - a unit
\* nobody hosts is one no report ever comes for - each of them once.
SiteSharesOneInventory ==
  Planned => \A place \in Machines :
    LET units == plan[place].siteServices
    IN /\ \A other \in SiteOf(place) :
            /\ plan[other].siteServices = units
            /\ \A service \in SetOf(plan[other].services) :
                 \E unit \in SetOf(units) : Covers(unit, plan[other], service)
       /\ \A unit \in SetOf(units) : \E other \in SiteOf(place) :
            \E service \in SetOf(plan[other].services) : Covers(unit, plan[other], service)
       /\ \A u, v \in DOMAIN units :
            units[u].machine = units[v].machine /\ units[u].service = units[v].service => u = v

Truncated(wire, path) ==
  [value   |-> Put(wire.value, path, ZeroOf(path[Len(path)])),
   missing |-> wire.missing \cup {path}]

\* The keys whose loss leaves a descriptor that means something else; losing
\* the routes or a service identity is not among them.
GuardedKeys(d) ==
  {<<key>> : key \in {"project", "environment", "site", "machine", "profile", "ip",
                      "services", "siteServices", "machineEvents", "primary"}}
  \cup {<<role, key>> : role \in SetOf(DeployedRoles(d)),
                        key \in {"events", "state", "log", "api", "readHeader", "shutdown", "nats"}}
  \cup {<<role, "nats", key>> : role \in SetOf(DeployedRoles(d)),
                                key \in {"server", "cluster", "address"}}
  \cup {<<"services", i, key>> : i \in DOMAIN d.services, key \in {"name", "role"}}
  \cup {<<"services", i, "check", key>> : i \in DOMAIN d.services,
          key \in {"type", "port", "path", "interval", "timeout", "retries"}}
  \cup {<<"siteServices", u, key>> : u \in DOMAIN d.siteServices,
          key \in {"machine", "profile", "service", "role", "observers", "freshFor"}}
  \cup (IF HasStandby(d)
        THEN {<<"standby">>, <<"lease">>} \cup
             {<<"lease", key>> : key \in {"file", "duration", "renewal", "healthCheck", "failback"}}
        ELSE {})

\* A descriptor that lost one of the keys something is decided from is refused
\* when the process starts, whichever instance it is: never read as a timeout
\* of no limit, a grant that never expires or a peer that is not there.
TruncatedDescriptorsAreRefused ==
  Planned => \A place \in Machines : \A role \in SetOf(DeployedRoles(plan[place])) :
    \A key \in GuardedKeys(plan[place]) :
      ~ Starts(Truncated(Wire(plan[place]), key), role)

=============================================================================
