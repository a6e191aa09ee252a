----------------------------- MODULE Descriptor -----------------------------
(***************************************************************************)
(* One machine's deployment descriptor, and when the builder finds it      *)
(* complete enough to deploy (builder/deployment).                         *)
(*                                                                         *)
(* An address is a host and a port; a route is the address its URL names.  *)
(* Each list and field is checked for what it is, never for where it came  *)
(* from: a descriptor is also read back from a package.                    *)
(***************************************************************************)
EXTENDS Blueprint

CONSTANT Loopback    \* the word of 127.0.0.1

ASSUME DescriptorAssumption == Loopback \in IPWords

HasStandby(d) == d.standby # Absent

\* The roles whose instances the machine deploys, in descriptor order.
DeployedRoles(d) == IF HasStandby(d) THEN Roles ELSE <<"primary">>

InstanceOf(d, role) == IF role = "primary" THEN d.primary ELSE d.standby

AddressUsable(address) == ~ Blank(address.host) /\ ValidPort(address.port)

OnLoopback(address) == IsIP(address.host) /\ address.host.word = Loopback
OnMachine(address, ip) == IsIP(address.host) /\ address.host.word = ip.word

-----------------------------------------------------------------------------
\* The health contract: the services probed here, and the units of the site.
PolicyComplete(check) ==
  /\ check.type = "http"
  /\ ValidPort(check.port)
  /\ check.path \in RequestTargets
  /\ Positive(check.interval) /\ Positive(check.timeout)
  /\ check.timeout < check.interval
  /\ check.retries >= 1

\* Variant: one probe interval and a timeout.
FreshForOneInterval(check) ==
  IF check.interval > MaxDuration - check.timeout
  THEN Malformed ELSE check.interval + check.timeout

\* Two probe intervals plus a timeout, or Malformed when that overflows.
FreshFor(check) ==
  IF check.interval > (MaxDuration - check.timeout) \div 2
  THEN Malformed ELSE 2 * check.interval + check.timeout

HostedServicesComplete(d) ==
  /\ d.services # << >>
  /\ \A i \in DOMAIN d.services :
       /\ Tidy(d.services[i].name)
       /\ d.services[i].role \in ServiceRoles
       /\ PolicyComplete(d.services[i].check)
  /\ \A i, j \in DOMAIN d.services :
       d.services[i].name = d.services[j].name => i = j

UnitComplete(unit) ==
  /\ Tidy(unit.machine) /\ Tidy(unit.service)
  /\ unit.role \in ServiceRoles
  /\ Tidy(unit.profile)
  /\ unit.observers \in {<<"primary">>, Roles}
  /\ Positive(unit.freshFor)

UnitsAgree(units) ==
  \A i, j \in DOMAIN units : units[i].machine = units[j].machine =>
    /\ units[i].service = units[j].service => i = j
    /\ units[i].profile = units[j].profile
    /\ units[i].observers = units[j].observers

\* The two halves agree about this machine: every unit listed for it is one it
\* hosts, and every service it hosts is listed, with the values that follow
\* from its own policy.
HostedServicesAreListed(d) ==
  /\ \A u \in DOMAIN d.siteServices : d.siteServices[u].machine = Trim(d.machine) =>
       \E i \in DOMAIN d.services : d.services[i].name = d.siteServices[u].service
  /\ \A i \in DOMAIN d.services : \E u \in DOMAIN d.siteServices :
       /\ d.siteServices[u].machine = Trim(d.machine)
       /\ d.siteServices[u].service = d.services[i].name
       /\ d.siteServices[u].role = d.services[i].role
       /\ d.siteServices[u].profile = Trim(d.profile)
       /\ d.siteServices[u].observers = DeployedRoles(d)
       /\ FreshFor(d.services[i].check) # Malformed
       /\ d.siteServices[u].freshFor = FreshFor(d.services[i].check)

SiteServicesComplete(d) ==
  /\ d.siteServices # << >>
  /\ \A u \in DOMAIN d.siteServices : UnitComplete(d.siteServices[u])
  /\ UnitsAgree(d.siteServices)
  /\ HostedServicesAreListed(d)

-----------------------------------------------------------------------------
\* What each deployed instance binds and writes.
RoutesUsable(nats) ==
  /\ \A i \in DOMAIN nats.routes :
       AddressUsable(nats.routes[i]) /\ nats.routes[i] # nats.address
  /\ \A i, j \in DOMAIN nats.routes : nats.routes[i] = nats.routes[j] => i = j

InstanceEndpointsComplete(instance, ip) ==
  /\ AddressUsable(instance.api) /\ OnLoopback(instance.api)
  /\ \A f \in {instance.events, instance.state, instance.log} : ~ Blank(f)
  /\ PathKey(instance.events) # PathKey(instance.state)
  /\ Positive(instance.readHeader) /\ Positive(instance.shutdown)
  /\ ~ Blank(instance.nats.server.machine) /\ ~ Blank(instance.nats.cluster)
  /\ AddressUsable(instance.nats.address) /\ OnMachine(instance.nats.address, ip)
  /\ RoutesUsable(instance.nats)

Listeners(d) ==
  <<d.primary.api.port, d.primary.nats.address.port>> \o
  (IF HasStandby(d) THEN <<d.standby.api.port, d.standby.nats.address.port>> ELSE << >>)

ProbeEndpointsFree(d) ==
  /\ \A i \in DOMAIN d.services, l \in DOMAIN Listeners(d) :
       d.services[i].check.port # Listeners(d)[l]
  /\ \A i, j \in DOMAIN d.services :
       /\ d.services[i].check.port = d.services[j].check.port
       /\ d.services[i].check.path = d.services[j].check.path
       => i = j

ListenersApart(d) ==
  \A i, j \in DOMAIN Listeners(d) : Listeners(d)[i] = Listeners(d)[j] => i = j

EndpointsComplete(d) ==
  /\ InstanceEndpointsComplete(d.primary, d.ip)
  /\ HasStandby(d) => InstanceEndpointsComplete(d.standby, d.ip)
  /\ ListenersApart(d)
  /\ ProbeEndpointsFree(d)

WinServicesComplete(d) ==
  /\ d.primary.win # Absent /\ ~ Blank(d.primary.win.name)
  /\ HasStandby(d) => /\ d.standby.win # Absent /\ ~ Blank(d.standby.win.name)
                      /\ d.primary.win.name # d.standby.win.name

LocalFiles(d) ==
  <<d.machineEvents, d.primary.events, d.primary.state, d.primary.log>> \o
  (IF HasStandby(d)
   THEN <<d.standby.events, d.standby.state, d.standby.log, d.lease.file>> ELSE << >>)

LocalFilesApart(d) ==
  \A i, j \in DOMAIN LocalFiles(d) :
    PathKey(LocalFiles(d)[i]) = PathKey(LocalFiles(d)[j]) => i = j

LeaseComplete(lease) ==
  /\ lease # Absent
  /\ ~ Blank(lease.file)
  /\ Positive(lease.duration) /\ Positive(lease.renewal)
  /\ Positive(lease.healthCheck) /\ Positive(lease.failback)
  /\ lease.renewal < lease.duration

\* Descriptor.Validate.
DescriptorValid(d) ==
  /\ \A t \in {d.project, d.environment, d.site, d.machine, d.profile} : ~ Blank(t)
  /\ IsIP(d.ip)
  /\ ~ Blank(d.machineEvents)
  /\ IF HasStandby(d) THEN LeaseComplete(d.lease) ELSE d.lease = Absent
  /\ HostedServicesComplete(d)
  /\ SiteServicesComplete(d)
  /\ WinServicesComplete(d)
  /\ EndpointsComplete(d)
  /\ LocalFilesApart(d)

=============================================================================
