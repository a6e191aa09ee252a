------------------------------- MODULE Resolve -------------------------------
(***************************************************************************)
(* The descriptors a project resolves to (builder/internal/resolve): every *)
(* machine's own record, and, on each, what the rest of its site is told   *)
(* about it - the units to expect reports on and the peers to route to.    *)
(***************************************************************************)
EXTENDS PlatformConfig, SequencesExt

Concat(lists) == FlattenSeq(lists)

LoopbackText == [word |-> Loopback, form |-> 1, pad |-> FALSE]

ObserverRoles(machine) == IF machine.standby.disabled THEN <<"primary">> ELSE Roles

\* One service of a machine, as every machine of the site is told about it.
UnitOf(machine, service) ==
  [machine   |-> Trim(machine.name),
   profile   |-> Trim(machine.profile),
   service   |-> Trim(service.name),
   role      |-> service.role,
   observers |-> ObserverRoles(machine),
   freshFor  |-> FreshFor(service.check)]

\* The units of the site, in authored order.
SiteServices(site) ==
  Concat([m \in DOMAIN site.machines |->
    [i \in DOMAIN site.machines[m].services |->
       UnitOf(site.machines[m], site.machines[m].services[i])]])

\* Variant: the units of one site follow those of another.
InventoryOfAllSites(project, site) ==
  Concat([s \in DOMAIN project.sites |-> SiteServices(project.sites[s])])

\* What the descriptors of a site's machines list: that site's units.
Inventory(project, site) == SiteServices(site)

\* The peer's deployed instances, but for the one the routes are resolved for,
\* by the addresses they listen on.
RoutesTo(peer, self, role) ==
  Concat([k \in DOMAIN Roles |->
    IF Authored(peer, Roles[k]) = Absent \/ (peer.name = self.name /\ Roles[k] = role)
    THEN << >>
    ELSE << [host |-> peer.ip, port |-> Authored(peer, Roles[k]).nats.port] >>])

\* Variant: a server is told only about the other machines.
RoutesToOtherMachines(site, self, role) ==
  Concat([m \in DOMAIN site.machines |->
    IF site.machines[m].name = self.name THEN << >> ELSE RoutesTo(site.machines[m], self, role)])

\* Every deployed instance of the site but one.
NatsRoutes(site, self, role) ==
  Concat([m \in DOMAIN site.machines |-> RoutesTo(site.machines[m], self, role)])

InstanceRecord(site, machine, role) ==
  LET authored == Authored(machine, role)
  IN IF authored = Absent THEN Absent ELSE
     [win        |-> [name |-> authored.win.name],
      events     |-> Trim(authored.eventlog),
      state      |-> Trim(authored.state),
      log        |-> Trim(authored.log),
      api        |-> [host |-> LoopbackText, port |-> authored.api.port],
      readHeader |-> authored.api.readHeader,
      shutdown   |-> authored.api.shutdown,
      nats       |-> [server  |-> [machine |-> machine.name, role |-> role],
                      cluster |-> Trim(site.cluster),
                      address |-> [host |-> Trim(machine.ip), port |-> authored.nats.port],
                      routes  |-> NatsRoutes(site, machine, role)]]

LeaseRecord(machine) ==
  IF machine.standby.disabled THEN Absent ELSE machine.standby.lease

DescriptorOf(project, place) ==
  LET site == project.sites[place[1]]
      machine == MachineAt(project, place)
  IN [project       |-> project.name,
      environment   |-> project.environment,
      site          |-> site.name,
      machine       |-> machine.name,
      profile       |-> machine.profile,
      ip            |-> machine.ip,
      services      |-> [i \in DOMAIN machine.services |->
                          [machine.services[i] EXCEPT !.name = Trim(@)]],
      siteServices  |-> Inventory(project, site),
      machineEvents |-> Trim(machine.eventstore),
      primary       |-> InstanceRecord(site, machine, "primary"),
      standby       |-> InstanceRecord(site, machine, "standby"),
      lease         |-> LeaseRecord(machine)]

\* The inventory of a site whose freshness overflows is not resolved at all.
SiteResolves(site) ==
  \A m \in DOMAIN site.machines : \A i \in DOMAIN site.machines[m].services :
    FreshFor(site.machines[m].services[i].check) # Malformed

\* resolve.Build: a plan, or nothing.
Resolves(project) ==
  /\ ProjectAccepted(project)
  /\ \A place \in Places(project) :
       /\ SiteResolves(project.sites[place[1]])
       /\ DescriptorValid(DescriptorOf(project, place))

Plan(project) == [place \in Places(project) |-> DescriptorOf(project, place)]

=============================================================================
