----------------------------- MODULE Blueprint -----------------------------
(***************************************************************************)
(* What an author states about a project, and when the builder accepts it  *)
(* (builder/internal/blueprint).                                           *)
(*                                                                         *)
(* A text is a word, the form it is written in (the letter case of a name  *)
(* or a path, the spelling of an ip) and whether it is padded with blanks; *)
(* a duration is a number, or Malformed when its parser refuses it.        *)
(***************************************************************************)
EXTENDS Integers, Sequences

CONSTANTS
  Absent,          \* a block that is not authored
  Malformed,       \* what a parser refuses: a blank or invalid duration
  IPWords,         \* the words net.ParseIP accepts
  RequestTargets,  \* a path, perhaps a query: no host, scheme, fragment, blank
  MaxPort,         \* 65535
  MaxDuration      \* the longest time.Duration

ASSUME BlueprintAssumption ==
  /\ "" \notin IPWords /\ "" \notin RequestTargets
  /\ MaxPort \in Nat /\ MaxDuration \in Nat
  /\ Absent # Malformed

Blank(text) == text.word = ""
Trim(text) == [text EXCEPT !.pad = FALSE]
Tidy(text) == ~ Blank(text) /\ text = Trim(text)

\* Windows paths: cleaned and case-folded, so the word alone names the file.
PathKey(path) == path.word

IsIP(text) == text.word \in IPWords /\ ~ text.pad
ValidPort(port) == port \in 1 .. MaxPort
Positive(duration) == duration # Malformed /\ duration > 0

\* No two entries of the list agree on what key says of them.
Distinct(list, key(_)) ==
  \A i, j \in DOMAIN list : key(list[i]) = key(list[j]) => i = j

All(list, accepts(_)) == \A i \in DOMAIN list : accepts(list[i])

-----------------------------------------------------------------------------
(* The blocks of a project, as they are decoded: each field has its type, a *)
(* duration is still a text, and a block that may be left out may be absent.*)
Texts == [word : STRING, form : Nat, pad : BOOLEAN]
Durations == Int \cup {Malformed}
Optional(blocks) == blocks \cup {Absent}

Checks == [type : STRING, port : Int, path : STRING, interval : Durations,
           timeout : Durations, retries : Int]
ServiceBlocks == [name : Texts, role : STRING, check : Checks]

ApiBlocks == [port : Int, readHeader : Durations, shutdown : Durations]
NatsBlocks == [port : Int]
WinBlocks == [name : Texts, legal : BOOLEAN]
LeaseBlocks == [file : Texts, duration : Durations, renewal : Durations,
                healthCheck : Durations, failback : Durations]
PrimaryBlocks ==
  [eventlog : Texts, state : Texts, log : Texts, api : Optional(ApiBlocks),
   nats : Optional(NatsBlocks), win : Optional(WinBlocks)]
StandbyBlocks ==
  [disabled : BOOLEAN, eventlog : Texts, state : Texts, log : Texts,
   lease : Optional(LeaseBlocks), api : Optional(ApiBlocks),
   nats : Optional(NatsBlocks), win : Optional(WinBlocks)]

MachineBlocks ==
  [name : Texts, profile : Texts, ip : Texts, services : Seq(ServiceBlocks),
   eventstore : Texts, primary : Optional(PrimaryBlocks), standby : Optional(StandbyBlocks)]
SiteBlocks == [name : Texts, cluster : Optional(Texts), machines : Seq(MachineBlocks)]
Projects == [name : Texts, environment : Texts, sites : Seq(SiteBlocks)]

-----------------------------------------------------------------------------
\* One service: its name, the part it plays and how it is probed.
ServiceRoles == {"master", "slave"}

HealthCheckAccepted(check) ==
  /\ check.type = "http"
  /\ check.path \in RequestTargets
  /\ ValidPort(check.port)
  /\ Positive(check.interval)
  /\ Positive(check.timeout)
  /\ check.timeout < check.interval
  /\ check.retries >= 1

ServiceAccepted(service) ==
  /\ Tidy(service.name)
  /\ service.role \in ServiceRoles
  /\ HealthCheckAccepted(service.check)

MachineServicesAccepted(machine) ==
  /\ machine.services # << >>
  /\ All(machine.services, ServiceAccepted)
  /\ Distinct(machine.services, LAMBDA s : s.name)

-----------------------------------------------------------------------------
\* The two instances of a machine.
Roles == <<"primary", "standby">>

\* What the role's instance is authored with, or Absent when not deployed.
Authored(machine, role) ==
  IF role = "primary" THEN machine.primary
  ELSE IF machine.standby.disabled THEN Absent ELSE machine.standby

\* machine.Files of every deployed instance: the paths as the builder reads
\* them, without their padding.
Files(instance) ==
  <<Trim(instance.eventlog), Trim(instance.state), Trim(instance.log)>>

AuthoredFiles(machine) ==
  Files(machine.primary) \o
  (IF machine.standby.disabled THEN << >> ELSE Files(machine.standby))

InstanceFilesAccepted(machine) ==
  /\ All(AuthoredFiles(machine), LAMBDA f : ~ Blank(f))
  /\ Distinct(AuthoredFiles(machine), PathKey)

InstanceEndpointsAccepted(instance) ==
  /\ instance.api # Absent
  /\ ValidPort(instance.api.port)
  /\ Positive(instance.api.readHeader)
  /\ Positive(instance.api.shutdown)
  /\ instance.nats # Absent
  /\ ValidPort(instance.nats.port)

\* A standby that is not deployed states nothing an instance would use.
StandbyEndpointsAccepted(standby) ==
  IF standby.disabled
  THEN /\ \A f \in {standby.eventlog, standby.state, standby.log} : Blank(f)
       /\ standby.lease = Absent /\ standby.api = Absent /\ standby.nats = Absent
  ELSE InstanceEndpointsAccepted(standby)

WinServiceAccepted(service) == Tidy(service.name) /\ service.legal

WinServicesAccepted(machine) ==
  /\ machine.primary.win # Absent /\ WinServiceAccepted(machine.primary.win)
  /\ IF machine.standby.disabled
     THEN machine.standby.win = Absent
     ELSE /\ machine.standby.win # Absent
          /\ WinServiceAccepted(machine.standby.win)
          /\ machine.primary.win.name # machine.standby.win.name

LeaseAccepted(standby) ==
  standby.disabled \/
    /\ standby.lease # Absent
    /\ Tidy(standby.lease.file)
    /\ Positive(standby.lease.duration)
    /\ Positive(standby.lease.renewal)
    /\ Positive(standby.lease.healthCheck)
    /\ Positive(standby.lease.failback)
    /\ standby.lease.renewal < standby.lease.duration

-----------------------------------------------------------------------------
\* One machine: what its two processes bind and write must not collide.
MachineFilesAccepted(machine) ==
  LET others == {PathKey(AuthoredFiles(machine)[i]) : i \in DOMAIN AuthoredFiles(machine)}
                \cup (IF ~ machine.standby.disabled /\ machine.standby.lease # Absent
                      THEN {PathKey(machine.standby.lease.file)} ELSE {})
  IN /\ Tidy(machine.eventstore)
     /\ PathKey(machine.eventstore) \notin others

PortsOf(machine) ==
  <<machine.primary.api.port, machine.primary.nats.port>> \o
  (IF machine.standby.disabled THEN << >>
   ELSE <<machine.standby.api.port, machine.standby.nats.port>>)

ServiceProbePortsAccepted(machine) ==
  /\ \A i \in DOMAIN machine.services, j \in DOMAIN PortsOf(machine) :
       machine.services[i].check.port # PortsOf(machine)[j]
  /\ Distinct(machine.services, LAMBDA s : <<s.check.port, s.check.path>>)

MachinePortsAccepted(machine) ==
  /\ Distinct(PortsOf(machine), LAMBDA port : port)
  /\ ServiceProbePortsAccepted(machine)

MachineAccepted(machine) ==
  /\ ~ Blank(machine.name)
  /\ ~ Blank(machine.profile)
  /\ IsIP(machine.ip)
  /\ MachineServicesAccepted(machine)
  /\ machine.primary # Absent /\ machine.standby # Absent
  /\ InstanceEndpointsAccepted(machine.primary)
  /\ StandbyEndpointsAccepted(machine.standby)
  /\ InstanceFilesAccepted(machine)
  /\ MachineFilesAccepted(machine)
  /\ MachinePortsAccepted(machine)
  /\ WinServicesAccepted(machine)
  /\ LeaseAccepted(machine.standby)

-----------------------------------------------------------------------------
\* The project: its sites each form a cluster, its machines are told apart.
SiteNATSAccepted(site) == site.cluster # Absent /\ Tidy(site.cluster)

Places(project) ==
  UNION {{<<s, m>> : m \in DOMAIN project.sites[s].machines} : s \in DOMAIN project.sites}

MachineAt(project, place) == project.sites[place[1]].machines[place[2]]

ProjectAccepted(project) ==
  /\ ~ Blank(project.name) /\ ~ Blank(project.environment)
  /\ project.sites # << >>
  /\ All(project.sites, LAMBDA s : ~ Blank(s.name) /\ SiteNATSAccepted(s))
  /\ Distinct(project.sites, LAMBDA s : s.name)
  /\ Distinct(project.sites, LAMBDA s : s.cluster)
  /\ \A p \in Places(project) : MachineAccepted(MachineAt(project, p))
  /\ \A p, q \in Places(project) : p # q =>
       /\ MachineAt(project, p).name # MachineAt(project, q).name
       /\ MachineAt(project, p).ip # MachineAt(project, q).ip

=============================================================================
