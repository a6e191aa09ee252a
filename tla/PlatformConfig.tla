--------------------------- MODULE PlatformConfig ---------------------------
(***************************************************************************)
(* What one process of the platform makes of the descriptor compiled into  *)
(* its binary: the decoding guards and the parsed timeouts                 *)
(* (platform/config), and what the parts started from it check again       *)
(* (platform/internal).                                                    *)
(*                                                                         *)
(* On the wire a descriptor is its value and the keys that are missing, a  *)
(* null among them; a missing key decodes as the zero value of its field.  *)
(***************************************************************************)
EXTENDS Descriptor

Wire(d) == [value |-> d, missing |-> {}]

\* A key is named by its path, the blocks and list positions it is under; a
\* missing one decodes as the zero value of its kind.
DurationFields == {"readHeader", "shutdown", "duration", "renewal",
                   "healthCheck", "failback", "interval", "timeout", "freshFor"}
ListFields == {"services", "siteServices", "observers", "routes"}
BlockFields == {"primary", "standby", "lease", "nats", "win"}

BlankText == [word |-> "", form |-> 1, pad |-> FALSE]
ZeroAddress == [host |-> BlankText, port |-> 0]

ZeroOf(field) ==
  CASE field \in DurationFields         -> Malformed
    [] field \in ListFields             -> << >>
    [] field \in BlockFields            -> Absent
    [] field \in {"api", "address"}     -> ZeroAddress
    [] field = "server"                 -> [machine |-> BlankText, role |-> ""]
    [] field \in {"port", "retries"}    -> 0
    [] field \in {"type", "path", "role"} -> ""
    [] OTHER                            -> BlankText

Present(wire, path) == path \notin wire.missing

-----------------------------------------------------------------------------
\* Decoding: the guards of Descriptor.UnmarshalJSON.
InstanceFieldsPresent(wire, role) ==
  /\ \A field \in {"events", "state", "log", "api", "readHeader", "shutdown", "nats"} :
       Present(wire, <<role, field>>)
  /\ \A field \in {"server", "cluster", "address"} : Present(wire, <<role, "nats", field>>)
  /\ wire.value[role].readHeader # Malformed
  /\ wire.value[role].shutdown # Malformed

\* Variant: the lease's keys are looked for, its timings are not.
LeaseBlockPresent(wire) ==
  IF HasStandby(wire.value) THEN wire.value.lease # Absent ELSE wire.value.lease = Absent

LeaseFieldsPresent(wire) ==
  IF ~ HasStandby(wire.value)
  THEN wire.value.lease = Absent
  ELSE /\ wire.value.lease # Absent
       /\ Present(wire, <<"lease", "file">>)
       /\ \A field \in {"duration", "renewal", "healthCheck", "failback"} :
            Present(wire, <<"lease", field>>) /\ wire.value.lease[field] # Malformed

ProbeRunnable(check) ==
  /\ check.type = "http"
  /\ ValidPort(check.port)
  /\ check.path \in RequestTargets
  /\ Positive(check.interval)
  /\ Positive(check.timeout)
  /\ check.timeout < check.interval
  /\ check.retries >= 1

PlatformListeners(d) ==
  <<d.primary.api, d.primary.nats.address>> \o
  (IF HasStandby(d) THEN <<d.standby.api, d.standby.nats.address>> ELSE << >>)

ProbesClearOfListeners(d) ==
  /\ \A l \in DOMAIN PlatformListeners(d) : ValidPort(PlatformListeners(d)[l].port)
  /\ \A k, l \in DOMAIN PlatformListeners(d) :
       PlatformListeners(d)[k].port = PlatformListeners(d)[l].port => k = l
  /\ \A i \in DOMAIN d.services :
       /\ \A l \in DOMAIN PlatformListeners(d) :
            d.services[i].check.port # PlatformListeners(d)[l].port
       /\ \A j \in DOMAIN d.services :
            /\ d.services[i].check.port = d.services[j].check.port
            /\ d.services[i].check.path = d.services[j].check.path
            => i = j

UnitDescribed(unit) ==
  /\ Tidy(unit.machine) /\ Tidy(unit.service) /\ Tidy(unit.profile)
  /\ unit.role \in ServiceRoles
  /\ unit.observers = SubSeq(Roles, 1, Len(unit.observers)) /\ unit.observers # << >>
  /\ Positive(unit.freshFor)

InventoryConsistent(d) ==
  \A u, v \in DOMAIN d.siteServices :
    d.siteServices[u].machine = d.siteServices[v].machine =>
      /\ d.siteServices[u].service = d.siteServices[v].service => u = v
      /\ d.siteServices[u].profile = d.siteServices[v].profile
      /\ d.siteServices[u].observers = d.siteServices[v].observers

\* Each half of the health contract names this machine's services, and says
\* the same of each.
OwnUnits(d) ==
  {u \in DOMAIN d.siteServices : d.siteServices[u].machine = Trim(d.machine)}

HalvesAgree(d) ==
  /\ \A u \in OwnUnits(d) : \E i \in DOMAIN d.services :
       d.services[i].name = d.siteServices[u].service
  /\ \A i \in DOMAIN d.services : \E u \in OwnUnits(d) :
       /\ d.siteServices[u].service = d.services[i].name
       /\ d.siteServices[u].role = d.services[i].role
       /\ d.siteServices[u].profile = Trim(d.profile)
       /\ d.siteServices[u].observers = DeployedRoles(d)
       /\ FreshFor(d.services[i].check) # Malformed
       /\ d.siteServices[u].freshFor = FreshFor(d.services[i].check)

HealthDecodes(d) ==
  /\ d.services # << >> /\ d.siteServices # << >>
  /\ \A i \in DOMAIN d.services :
       /\ Tidy(d.services[i].name)
       /\ \A j \in DOMAIN d.services : d.services[i].name = d.services[j].name => i = j
       /\ d.services[i].role \in ServiceRoles
       /\ ProbeRunnable(d.services[i].check)
  /\ ProbesClearOfListeners(d)
  /\ \A u \in DOMAIN d.siteServices : UnitDescribed(d.siteServices[u])
  /\ InventoryConsistent(d)
  /\ HalvesAgree(d)

Decodes(wire) ==
  /\ Present(wire, <<"machineEvents">>)
  /\ Present(wire, <<"primary">>)
  /\ InstanceFieldsPresent(wire, "primary")
  /\ HasStandby(wire.value) => InstanceFieldsPresent(wire, "standby")
  /\ LeaseFieldsPresent(wire)
  /\ HealthDecodes(wire.value)

\* Load: every listener timeout is positive.
Loads(d) ==
  \A role \in {DeployedRoles(d)[i] : i \in DOMAIN DeployedRoles(d)} :
    Positive(InstanceOf(d, role).readHeader) /\ Positive(InstanceOf(d, role).shutdown)

-----------------------------------------------------------------------------
\* What the process of one role starts from the loaded descriptor.
LeaseOpens(d) ==
  d.lease = Absent \/
    /\ \A field \in {"duration", "renewal", "healthCheck", "failback"} :
         d.lease[field] # Malformed
    /\ \/ d.lease.file = BlankText
       \/ /\ Positive(d.lease.duration)
          /\ Positive(d.lease.renewal)
          /\ Positive(d.lease.healthCheck)
          /\ d.lease.renewal < d.lease.duration

\* Variant: a server without a peer is refused.
BrokerNeedsPeers(nats) ==
  /\ IsIP(nats.address.host) /\ ValidPort(nats.address.port)
  /\ nats.server.role # ""
  /\ ~ Blank(nats.cluster)
  /\ nats.routes # << >>
  /\ \A i \in DOMAIN nats.routes : ~ Blank(nats.routes[i].host)

BrokerStarts(nats) ==
  /\ IsIP(nats.address.host) /\ ValidPort(nats.address.port)
  /\ nats.server.role # ""
  /\ ~ Blank(nats.cluster)
  /\ \A i \in DOMAIN nats.routes : ~ Blank(nats.routes[i].host)

MonitorStarts(d) ==
  /\ IsIP(Trim(d.ip))
  /\ \A i \in DOMAIN d.services :
       /\ d.services[i].check.type = "http"
       /\ ~ Blank(d.services[i].name)
       /\ Positive(d.services[i].check.interval)
       /\ Positive(d.services[i].check.timeout)
       /\ d.services[i].check.timeout < d.services[i].check.interval
       /\ d.services[i].check.retries >= 1
       /\ \A j \in DOMAIN d.services : d.services[i].name = d.services[j].name => i = j

UnitKeeps(unit) ==
  /\ ~ Blank(unit.machine) /\ ~ Blank(unit.service) /\ ~ Blank(unit.profile)
  /\ unit.role # ""
  /\ unit.observers # << >>
  /\ unit.freshFor > 0

ViewBuilds(d) ==
  /\ ~ Blank(d.project) /\ ~ Blank(d.environment) /\ ~ Blank(d.site)
  /\ ~ Blank(d.machine)
  /\ \A u \in DOMAIN d.siteServices : UnitKeeps(d.siteServices[u])
  /\ \A u, v \in DOMAIN d.siteServices :
       /\ d.siteServices[u].machine = d.siteServices[v].machine
       /\ d.siteServices[u].service = d.siteServices[v].service
       => u = v

Starts(wire, role) ==
  /\ Decodes(wire)
  /\ Loads(wire.value)
  /\ BrokerStarts(InstanceOf(wire.value, role).nats)
  /\ MonitorStarts(wire.value)
  /\ ViewBuilds(wire.value)
  /\ LeaseOpens(wire.value)

\* The key this instance files its own observations under, and where it looks.
OwnKey(d, service) == [machine |-> d.machine, service |-> service]
IsPlaced(d, key) ==
  \E u \in DOMAIN d.siteServices :
    d.siteServices[u].machine = key.machine /\ d.siteServices[u].service = key.service

=============================================================================
