------------------------------ MODULE BuildMC ------------------------------
(***************************************************************************)
(* A project of two sites: "north" with a redundant machine of two         *)
(* services and a single one, "south" with one machine of its own. Each    *)
(* edit is a mistake or a choice an author could make in one place.        *)
(***************************************************************************)
EXTENDS Build, TLC

MCIPWords == {"127.0.0.1", "ip-a", "ip-b", "ip-c"}
MCRequestTargets == {"/health", "/ready?full"}

Text(word) == [word |-> word, form |-> 1, pad |-> FALSE]
Respelled(word) == [word |-> word, form |-> 2, pad |-> FALSE]
Padded(word) == [word |-> word, form |-> 1, pad |-> TRUE]

Probe(port, path) ==
  [type |-> "http", port |-> port, path |-> path, interval |-> 40, timeout |-> 20, retries |-> 3]
Service(name, role, port, path) ==
  [name |-> Text(name), role |-> role, check |-> Probe(port, path)]

InstanceBlock(name, api, nats) ==
  [eventlog |-> Text(name \o ".events"), state |-> Text(name \o ".state"), log |-> Text(name \o ".log"),
   api  |-> [port |-> api, readHeader |-> 5, shutdown |-> 10],
   nats |-> [port |-> nats],
   win  |-> [name |-> Text(name), legal |-> TRUE]]

LeaseBlock == [file |-> Text("lease"), duration |-> 15, renewal |-> 5, healthCheck |-> 2, failback |-> 30]

NoStandby ==
  [disabled |-> TRUE, eventlog |-> Text(""), state |-> Text(""), log |-> Text(""),
   lease |-> Absent, api |-> Absent, nats |-> Absent, win |-> Absent]
StandbyBlock(api, nats) ==
  [disabled |-> FALSE, lease |-> LeaseBlock] @@ InstanceBlock("standby", api, nats)

MachineBlock(name, ip, services, standby) ==
  [name |-> Text(name), profile |-> Text("node"), ip |-> Text(ip),
   eventstore |-> Text("machine.events"), services |-> services,
   primary |-> InstanceBlock("primary", 1, 2), standby |-> standby]

MCBaseline ==
  [name |-> Text("plant"), environment |-> Text("production"),
   sites |-> <<
     [name |-> Text("north"), cluster |-> Text("north-fabric"),
      machines |-> <<
        MachineBlock("a", "ip-a",
          <<Service("feed", "master", 5, "/health"), Service("pump", "slave", 5, "/ready?full")>>,
          StandbyBlock(3, 4)),
        MachineBlock("b", "ip-b", <<Service("feed", "slave", 5, "/health")>>, NoStandby)>>],
     [name |-> Text("south"), cluster |-> Text("south-fabric"),
      machines |-> <<
        MachineBlock("c", "ip-c", <<Service("feed", "master", 5, "/health")>>, NoStandby)>>]>>]

North(m) == <<"sites", 1, "machines", m>>
South == <<"sites", 2, "machines", 1>>
To(path, values) == {<<path, value>> : value \in values}

ProjectEdits ==
  To(<<"name">>, {Text("")}) \cup To(<<"sites">>, {<< >>})
  \cup To(<<"sites", 1, "machines">>, {<< >>})
  \cup To(<<"sites", 2, "name">>, {Text(""), Text("north"), Respelled("north")})
  \cup To(<<"sites", 2, "cluster">>, {Absent, Padded("south-fabric"), Text("north-fabric")})

IdentityEdits ==
  To(North(1) \o <<"name">>, {Text(""), Padded("a"), Text("b")})
  \cup To(South \o <<"name">>, {Text("a"), Padded("a"), Respelled("a")})
  \cup To(North(1) \o <<"profile">>, {Text(""), Padded("node")})
  \cup To(North(2) \o <<"ip">>, {Text("nowhere"), Padded("ip-b"), Text("ip-a"), Respelled("ip-a"), Text("127.0.0.1")})
  \cup To(South \o <<"ip">>, {Text("ip-a")})

ServiceEdits ==
  To(North(1) \o <<"services">>, {<< >>})
  \cup To(North(1) \o <<"services", 2, "name">>, {Text(""), Padded("pump"), Text("feed")})
  \cup To(North(1) \o <<"services", 1, "role">>, {"leader"})
  \cup To(North(1) \o <<"services", 2, "check", "port">>, {0, 1, 4, 10})
  \cup To(North(1) \o <<"services", 2, "check", "path">>, {"http://elsewhere/", "/health"})
  \cup To(North(1) \o <<"services", 1, "check", "type">>, {"tcp"})
  \cup To(North(1) \o <<"services", 1, "check", "interval">>, {Malformed, 0, 20, 41})
  \cup To(North(1) \o <<"services", 1, "check", "timeout">>, {Malformed, 0, 40, 19})
  \cup To(North(1) \o <<"services", 1, "check", "retries">>, {0})

InstanceEdits ==
  To(North(1) \o <<"primary">>, {Absent})
  \cup To(North(1) \o <<"standby">>, {NoStandby})
  \cup To(North(1) \o <<"standby", "disabled">>, {TRUE})
  \cup To(North(2) \o <<"standby">>, {StandbyBlock(3, 4)})
  \cup To(North(1) \o <<"eventstore">>, {Text(""), Padded("machine.events"), Respelled("primary.state")})
  \cup To(North(1) \o <<"primary", "state">>, {Text(""), Padded("machine.events"), Respelled("standby.state")})
  \cup To(North(1) \o <<"standby", "eventlog">>, {Text("standby.log")})
  \cup To(North(1) \o <<"standby", "win">>, {Absent, [name |-> Text("primary"), legal |-> TRUE],
                                             [name |-> Text("x/y"), legal |-> FALSE]})
  \cup To(North(1) \o <<"primary", "api">>, {Absent})
  \cup To(North(1) \o <<"primary", "api", "port">>, {0, 4, 7})
  \cup To(North(1) \o <<"primary", "api", "shutdown">>, {Malformed, 0})
  \cup To(North(2) \o <<"primary", "api", "readHeader">>, {0})
  \cup To(North(1) \o <<"standby", "nats">>, {Absent})
  \cup To(North(1) \o <<"standby", "nats", "port">>, {2, 3, 8})
  \cup To(North(2) \o <<"primary", "nats", "port">>, {9})

LeaseEdits ==
  To(North(1) \o <<"standby", "lease">>, {Absent})
  \cup To(North(1) \o <<"standby", "lease", "file">>,
          {Text(""), Padded("lease"), Text("machine.events"), Respelled("standby.state")})
  \cup To(North(1) \o <<"standby", "lease", "duration">>, {Malformed, 5})
  \cup To(North(1) \o <<"standby", "lease", "renewal">>, {0, 15})
  \cup To(North(1) \o <<"standby", "lease", "healthCheck">>, {0})
  \cup To(North(1) \o <<"standby", "lease", "failback">>, {Malformed, 0})

MCEdits == ProjectEdits \cup IdentityEdits \cup ServiceEdits \cup InstanceEdits \cup LeaseEdits

=============================================================================
