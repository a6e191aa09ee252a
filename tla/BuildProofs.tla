----------------------------- MODULE BuildProofs -----------------------------
(***************************************************************************)
(* What a plan promises, for every project an author can state, of any     *)
(* number of sites, machines and services: the machines start from what    *)
(* they are compiled with, and those of a site are told one story.         *)
(***************************************************************************)
EXTENDS Build, SequenceTheorems, FiniteSetTheorems, WellFoundedInduction, TLAPS

\* What is planned is what the project at hand resolves to.
PlanSound ==
  /\ project \in Projects
  /\ Planned => Resolves(project) /\ plan = Plan(project)

LEMMA PlanSoundInit == Init => PlanSound
  BY BuildAssumption DEF Init, PlanSound, Planned

LEMMA PlanSoundNext == PlanSound /\ [Next]_vars => PlanSound'
<1> SUFFICES ASSUME PlanSound, [Next]_vars PROVE PlanSound'
  OBVIOUS
<1>1. CASE Author
  BY <1>1 DEF Author, PlanSound, Planned
<1>2. CASE BuildPlan
  BY <1>2 DEF BuildPlan, PlanSound, Planned
<1>3. CASE UNCHANGED vars
  <2>1. Planned' <=> Planned
    BY <1>3 DEF vars, Planned
  <2> QED  BY <1>3, <2>1 DEF vars, PlanSound
<1> QED  BY <1>1, <1>2, <1>3 DEF Next

\* So it is in every state.
LEMMA PlanStaysSound == Spec => []PlanSound
BY PlanSoundInit, PlanSoundNext, PTL DEF Spec

-----------------------------------------------------------------------------
(* One machine's descriptor *)

\* A machine's place in an accepted project, and what is stated there.
LEMMA PlaceFacts ==
  ASSUME NEW p \in Projects, ProjectAccepted(p), NEW place \in Places(p)
  PROVE  /\ place[1] \in DOMAIN p.sites /\ place[2] \in DOMAIN p.sites[place[1]].machines
         /\ place = <<place[1], place[2]>>
         /\ p.sites[place[1]] \in SiteBlocks
         /\ MachineAt(p, place) \in MachineBlocks /\ MachineAccepted(MachineAt(p, place))
<1>1. PICK s \in DOMAIN p.sites : \E m \in DOMAIN p.sites[s].machines : place = <<s, m>>
  BY DEF Places
<1>2. PICK m \in DOMAIN p.sites[s].machines : place = <<s, m>>
  BY <1>1
<1>3. p.sites \in Seq(SiteBlocks)
  BY DEF Projects
<1>4. p.sites[s] \in SiteBlocks
  BY <1>1, <1>3
<1>5. p.sites[s].machines \in Seq(MachineBlocks)
  BY <1>4 DEF SiteBlocks
<1>6. p.sites[s].machines[m] \in MachineBlocks
  BY <1>5
<1>7. MachineAccepted(MachineAt(p, place))
  BY DEF ProjectAccepted
<1> QED  BY <1>2, <1>4, <1>6, <1>7 DEF MachineAt

-----------------------------------------------------------------------------
(* Lists in a row *)

\* Counting up from one reaches every number of the interval.
LEMMA CountingUp ==
  ASSUME NEW n \in Nat, NEW Reached, 1 \in Reached,
         \A i \in 1 .. n - 1 : i \in Reached => i + 1 \in Reached
  PROVE  \A i \in 1 .. n : i \in Reached
<1> DEFINE Missed == {i \in 1 .. n : i \notin Reached}
<1> SUFFICES ASSUME Missed # {} PROVE FALSE
  OBVIOUS
<1>1. Missed \subseteq Nat
  OBVIOUS
<1> HIDE DEF Missed
<1>2. IsWellFoundedOn(OpToRel(<, Nat), Nat)
  BY NatLessThanWellFounded
<1>3. PICK i \in Missed : \A j \in Missed : ~ (<<j, i>> \in OpToRel(<, Nat))
  BY <1>1, <1>2, WFMin
<1>4. \A j \in Missed : ~ j < i
  BY <1>1, <1>3 DEF OpToRel
<1>5. i \in 1 .. n /\ i # 1 /\ i - 1 \in 1 .. n - 1
  BY DEF Missed
<1>6. i - 1 \in Reached
  BY <1>4, <1>5 DEF Missed
<1> QED  BY <1>5, <1>6 DEF Missed

\* The lists one after the other, up to each of them.
LEMMA ConcatSteps ==
  ASSUME NEW lists, NEW n \in Nat, n # 0, Len(lists) = n
  PROVE  \E flat : /\ flat = [i \in 1 .. n |-> IF i = 1 THEN lists[i] ELSE flat[i - 1] \o lists[i]]
                   /\ Concat(lists) = flat[n]
<1> DEFINE Steps(flat, m) ==
             flat = [i \in 1 .. m |-> IF i = 1 THEN lists[i] ELSE flat[i - 1] \o lists[i]]
           Reached == {m \in 1 .. n : \E flat : Steps(flat, m)}
<1>1. 1 \in Reached
  <2> DEFINE first == [i \in 1 .. 1 |-> lists[i]]
  <2>1. first = [i \in 1 .. 1 |-> IF i = 1 THEN lists[i] ELSE first[i - 1] \o lists[i]]
    <3>1. \A i \in 1 .. 1 : i = 1
      OBVIOUS
    <3> HIDE DEF first
    <3>2. \A i \in 1 .. 1 : (IF i = 1 THEN lists[i] ELSE first[i - 1] \o lists[i]) = lists[i]
      BY <3>1
    <3> QED  BY <3>2 DEF first
  <2>2. \E flat : Steps(flat, 1)
    <3> HIDE DEF first
    <3> QED  BY <2>1
  <2>3. 1 \in 1 .. n
    OBVIOUS
  <2> HIDE DEF Steps
  <2> QED  BY <2>2, <2>3
<1>2. ASSUME NEW m \in 1 .. n - 1, m \in Reached PROVE m + 1 \in Reached
  <2>1. PICK flat : Steps(flat, m)
    BY <1>2
  <2> DEFINE more == [i \in 1 .. m + 1 |-> IF i = m + 1 THEN flat[m] \o lists[i] ELSE flat[i]]
  <2>2. Steps(more, m + 1)
    <3>1. ASSUME NEW i \in 1 .. m + 1
          PROVE  more[i] = IF i = 1 THEN lists[i] ELSE more[i - 1] \o lists[i]
      <4>1. CASE i = m + 1
        <5>1. i # 1 /\ i - 1 = m /\ m \in 1 .. m + 1 /\ m # m + 1
          BY <4>1
        <5> QED  BY <4>1, <5>1
      <4>2. CASE i # m + 1
        <5>1. i \in 1 .. m /\ (i # 1 => i - 1 \in 1 .. m /\ i - 1 # m + 1 /\ i - 1 \in 1 .. m + 1)
          BY <4>2
        <5>2. flat[i] = IF i = 1 THEN lists[i] ELSE flat[i - 1] \o lists[i]
          BY <2>1, <5>1
        <5> QED  BY <4>2, <5>1, <5>2
      <4> QED  BY <4>1, <4>2
    <3> QED  BY <3>1
  <2> HIDE DEF Steps
  <2> QED  BY <2>2
<1>3. n \in Reached
  <2> HIDE DEF Reached
  <2>1. \A m \in 1 .. n - 1 : m \in Reached => m + 1 \in Reached
    BY <1>2
  <2>2. \A m \in 1 .. n : m \in Reached
    BY <1>1, <2>1, CountingUp
  <2>3. n \in 1 .. n
    OBVIOUS
  <2> QED  BY <2>2, <2>3
<1>4. PICK flat : Steps(flat, n)
  BY <1>3
<1>5. Concat(lists) = (CHOOSE f : Steps(f, n))[n]
  BY DEF Concat, FlattenSeq
<1>6. Steps(CHOOSE f : Steps(f, n), n)
  <2> HIDE DEF Steps
  <2> QED  BY <1>4
<1> QED  BY <1>5, <1>6

\* Lists of lists in a row: a list of what they hold.
LEMMA ConcatHolds ==
  ASSUME NEW S, NEW lists \in Seq(Seq(S))
  PROVE  /\ Concat(lists) \in Seq(S)
         /\ SetOf(Concat(lists)) = UNION {SetOf(lists[i]) : i \in DOMAIN lists}
<1> DEFINE n == Len(lists)
<1>0. n \in Nat /\ DOMAIN lists = 1 .. n /\ \A i \in 1 .. n : lists[i] \in Seq(S)
  OBVIOUS
<1>1. CASE n = 0
  <2>1. Concat(lists) = lists
    BY <1>1 DEF Concat, FlattenSeq
  <2>2. lists = << >>
    BY <1>1
  <2> QED  BY <2>1, <2>2 DEF SetOf
<1>2. CASE n # 0
  <2> HIDE DEF n
  <2>1. PICK flat : /\ flat = [i \in 1 .. n |-> IF i = 1 THEN lists[i] ELSE flat[i - 1] \o lists[i]]
                    /\ Concat(lists) = flat[n]
    BY <1>0, <1>2, ConcatSteps DEF n
  <2> DEFINE Held(m) == UNION {SetOf(lists[i]) : i \in 1 .. m}
             Reached == {m \in 1 .. n : flat[m] \in Seq(S) /\ SetOf(flat[m]) = Held(m)}
  <2>2. 1 \in Reached
    <3>1. flat[1] = lists[1] /\ 1 \in 1 .. n
      BY <1>0, <1>2, <2>1
    <3>2. 1 .. 1 = {1}
      OBVIOUS
    <3>3. Held(1) = SetOf(lists[1])
      BY <3>2
    <3> QED  BY <1>0, <3>1, <3>3
  <2>3. ASSUME NEW m \in 1 .. n - 1, m \in Reached PROVE m + 1 \in Reached
    <3>1. m + 1 \in 1 .. n /\ m + 1 # 1 /\ (m + 1) - 1 = m
      BY <1>0
    <3>2. flat[m + 1] = flat[m] \o lists[m + 1]
      BY <2>1, <3>1
    <3>3. flat[m] \in Seq(S) /\ SetOf(flat[m]) = Held(m) /\ lists[m + 1] \in Seq(S)
      BY <1>0, <2>3, <3>1
    <3>4. flat[m + 1] \in Seq(S) /\ SetOf(flat[m + 1]) = SetOf(flat[m]) \cup SetOf(lists[m + 1])
      <4> DEFINE s == flat[m]
                 t == lists[m + 1]
      <4> HIDE DEF s, t
      <4>1. s \in Seq(S) /\ t \in Seq(S) /\ flat[m + 1] = s \o t
        BY <3>2, <3>3 DEF s, t
      <4>2. SetOf(s \o t) = SetOf(s) \cup SetOf(t)
        <5>1. ASSUME NEW i \in DOMAIN s PROVE i \in DOMAIN (s \o t) /\ (s \o t)[i] = s[i]
          BY <4>1
        <5>2. ASSUME NEW i \in DOMAIN t
              PROVE  Len(s) + i \in DOMAIN (s \o t) /\ (s \o t)[Len(s) + i] = t[i]
          BY <4>1
        <5>3. ASSUME NEW i \in DOMAIN (s \o t)
              PROVE  \/ i \in DOMAIN s /\ (s \o t)[i] = s[i]
                     \/ i - Len(s) \in DOMAIN t /\ (s \o t)[i] = t[i - Len(s)]
          BY <4>1
        <5> DEFINE st == s \o t
        <5> HIDE DEF st
        <5>4. SetOf(st) \subseteq SetOf(s) \cup SetOf(t)
          BY <5>3 DEF SetOf, st
        <5>5. SetOf(s) \subseteq SetOf(st)
          BY <5>1 DEF SetOf, st
        <5>6. SetOf(t) \subseteq SetOf(st)
          <6> SUFFICES ASSUME NEW i \in DOMAIN t PROVE t[i] \in SetOf(st)
            BY DEF SetOf
          <6>1. Len(s) + i \in DOMAIN st /\ st[Len(s) + i] = t[i]
            BY <5>2 DEF st
          <6> QED  BY <6>1 DEF SetOf
        <5> QED  BY <5>4, <5>5, <5>6 DEF st
      <4> QED  BY <4>1, <4>2 DEF s, t
    <3>5. Held(m + 1) = Held(m) \cup SetOf(lists[m + 1])
      <4>1. 1 .. m + 1 = (1 .. m) \cup {m + 1}
        OBVIOUS
      <4> QED  BY <4>1
    <3> HIDE DEF Held
    <3> QED  BY <3>1, <3>3, <3>4, <3>5
  <2>4. n \in Reached
    <3> HIDE DEF Reached
    <3>1. \A m \in 1 .. n - 1 : m \in Reached => m + 1 \in Reached
      BY <2>3
    <3>2. \A m \in 1 .. n : m \in Reached
      BY <1>0, <2>2, <3>1, CountingUp
    <3>3. n \in 1 .. n
      BY <1>0, <1>2
    <3> QED  BY <3>2, <3>3
  <2>5. Held(n) = UNION {SetOf(lists[i]) : i \in DOMAIN lists}
    BY <1>0
  <2> HIDE DEF Held
  <2> QED  BY <2>1, <2>4, <2>5
<1> QED  BY <1>1, <1>2

-----------------------------------------------------------------------------
(* A complete descriptor starts its instances *)

\* The roles a descriptor deploys, as a set.
LEMMA DeployedSet ==
  ASSUME NEW d
  PROVE  SetOf(DeployedRoles(d)) = IF HasStandby(d) THEN {"primary", "standby"} ELSE {"primary"}
BY DEF SetOf, DeployedRoles, Roles

\* What the builder demands of each deployed instance.
LEMMA DeployedComplete ==
  ASSUME NEW d, DescriptorValid(d), NEW role \in SetOf(DeployedRoles(d))
  PROVE  InstanceEndpointsComplete(InstanceOf(d, role), d.ip)
BY DeployedSet DEF DescriptorValid, EndpointsComplete, InstanceOf

\* Trimming an authored text takes its padding and leaves its word.
LEMMA TrimText ==
  ASSUME NEW text \in Texts
  PROVE  /\ Trim(text) \in Texts /\ Trim(text).word = text.word /\ ~ Trim(text).pad
         /\ ~ text.pad => Trim(text) = text
BY DEF Trim, Texts

\* Two pairs in a row.
LEMMA TwoPairs ==
  ASSUME NEW a, NEW b, NEW c, NEW e
  PROVE  <<a, b>> \o <<c, e>> = <<a, b, c, e>>
<1> DEFINE T == {a, b, c, e}
           left == <<a, b>> \o <<c, e>>
           right == <<a, b, c, e>>
<1>1. <<a, b>> \in Seq(T) /\ <<c, e>> \in Seq(T) /\ right \in Seq(T)
  OBVIOUS
<1>2. left \in Seq(T) /\ Len(left) = 4 /\ Len(right) = 4
  BY <1>1
<1>3. \A i \in 1 .. 4 : left[i] = right[i]
  <2>1. \A i \in 1 .. 4 : left[i] = IF i <= 2 THEN <<a, b>>[i] ELSE <<c, e>>[i - 2]
    BY <1>1
  <2> QED  BY <2>1
<1> HIDE DEF left, right
<1>4. left = right
  BY <1>1, <1>2, <1>3, SeqEqual
<1> QED  BY <1>4 DEF left, right

\* The lists of listeners that both halves of the contract range over name the
\* same ports.
LEMMA ListenersAgree ==
  ASSUME NEW d
  PROVE  /\ DOMAIN PlatformListeners(d) = DOMAIN Listeners(d)
         /\ \A l \in DOMAIN Listeners(d) : PlatformListeners(d)[l].port = Listeners(d)[l]
<1>1. CASE HasStandby(d)
  <2>1. Listeners(d) = <<d.primary.api.port, d.primary.nats.address.port,
                         d.standby.api.port, d.standby.nats.address.port>>
    BY <1>1, TwoPairs DEF Listeners
  <2>2. PlatformListeners(d) = <<d.primary.api, d.primary.nats.address,
                                 d.standby.api, d.standby.nats.address>>
    BY <1>1, TwoPairs DEF PlatformListeners
  <2> QED  BY <2>1, <2>2
<1>2. CASE ~ HasStandby(d)
  <2>1. Listeners(d) = <<d.primary.api.port, d.primary.nats.address.port>>
    BY <1>2 DEF Listeners
  <2>2. PlatformListeners(d) = <<d.primary.api, d.primary.nats.address>>
    BY <1>2 DEF PlatformListeners
  <2> QED  BY <2>1, <2>2
<1> QED  BY <1>1, <1>2

LEMMA ListenerPorts ==
  ASSUME NEW d, DescriptorValid(d), NEW l \in DOMAIN PlatformListeners(d)
  PROVE  ValidPort(PlatformListeners(d)[l].port)
<1>1. AddressUsable(d.primary.api) /\ AddressUsable(d.primary.nats.address)
  BY DEF DescriptorValid, EndpointsComplete, InstanceEndpointsComplete
<1>2. CASE HasStandby(d)
  <2>1. PlatformListeners(d) = <<d.primary.api, d.primary.nats.address,
                                 d.standby.api, d.standby.nats.address>>
    BY <1>2, TwoPairs DEF PlatformListeners
  <2>2. AddressUsable(d.standby.api) /\ AddressUsable(d.standby.nats.address)
    BY <1>2 DEF DescriptorValid, EndpointsComplete, InstanceEndpointsComplete
  <2> QED  BY <1>1, <2>1, <2>2 DEF AddressUsable
<1>3. CASE ~ HasStandby(d)
  <2>1. PlatformListeners(d) = <<d.primary.api, d.primary.nats.address>>
    BY <1>3 DEF PlatformListeners
  <2> QED  BY <1>1, <2>1 DEF AddressUsable
<1> QED  BY <1>2, <1>3

\* What the builder completes of a unit, the process reads back.
LEMMA UnitRead ==
  ASSUME NEW unit, UnitComplete(unit)
  PROVE  UnitDescribed(unit) /\ UnitKeeps(unit)
<1>1. unit.observers = SubSeq(Roles, 1, Len(unit.observers)) /\ unit.observers # << >>
  <2>1. CASE unit.observers = <<"primary">>
    BY <2>1 DEF Roles
  <2>2. CASE unit.observers = Roles
    BY <2>2 DEF Roles
  <2> QED  BY <2>1, <2>2 DEF UnitComplete
<1>2. unit.role # ""
  BY DEF UnitComplete, ServiceRoles
<1> QED  BY <1>1, <1>2 DEF UnitComplete, UnitDescribed, UnitKeeps, Tidy, Positive

LEMMA HealthIsRead ==
  ASSUME NEW d, DescriptorValid(d)
  PROVE  HealthDecodes(d)
<1>1. HostedServicesComplete(d) /\ SiteServicesComplete(d) /\ ListenersApart(d) /\ ProbeEndpointsFree(d)
  BY DEF DescriptorValid, EndpointsComplete
<1>2. ASSUME NEW i \in DOMAIN d.services
      PROVE  /\ Tidy(d.services[i].name)
             /\ \A j \in DOMAIN d.services : d.services[i].name = d.services[j].name => i = j
             /\ d.services[i].role \in ServiceRoles
             /\ ProbeRunnable(d.services[i].check)
  BY <1>1 DEF HostedServicesComplete, PolicyComplete, ProbeRunnable
<1>3. ProbesClearOfListeners(d)
  <2>1. \A k, l \in DOMAIN PlatformListeners(d) :
          PlatformListeners(d)[k].port = PlatformListeners(d)[l].port => k = l
    BY <1>1, ListenersAgree DEF ListenersApart
  <2>2. \A i \in DOMAIN d.services, l \in DOMAIN PlatformListeners(d) :
          d.services[i].check.port # PlatformListeners(d)[l].port
    BY <1>1, ListenersAgree DEF ProbeEndpointsFree
  <2> QED  BY <1>1, <2>1, <2>2, ListenerPorts DEF ProbesClearOfListeners, ProbeEndpointsFree
<1>4. \A u \in DOMAIN d.siteServices : UnitDescribed(d.siteServices[u])
  BY <1>1, UnitRead DEF SiteServicesComplete
<1>5. InventoryConsistent(d)
  BY <1>1 DEF SiteServicesComplete, UnitsAgree, InventoryConsistent
<1>6. HalvesAgree(d)
  BY <1>1 DEF SiteServicesComplete, HostedServicesAreListed, HalvesAgree, OwnUnits
<1>7. d.services # << >> /\ d.siteServices # << >>
  BY <1>1 DEF HostedServicesComplete, SiteServicesComplete
<1> QED  BY <1>2, <1>3, <1>4, <1>5, <1>6, <1>7 DEF HealthDecodes

LEMMA LeaseIsRead ==
  ASSUME NEW d, DescriptorValid(d)
  PROVE  LeaseFieldsPresent(Wire(d)) /\ LeaseOpens(d)
<1>1. CASE ~ HasStandby(d)
  BY <1>1 DEF DescriptorValid, LeaseFieldsPresent, LeaseOpens, Wire
<1>2. CASE HasStandby(d)
  <2>1. LeaseComplete(d.lease)
    BY <1>2 DEF DescriptorValid
  <2>2. \A field \in {"duration", "renewal", "healthCheck", "failback"} :
          d.lease[field] # Malformed
    BY <2>1 DEF LeaseComplete, Positive
  <2> QED
    BY <1>2, <2>1, <2>2 DEF LeaseComplete, LeaseFieldsPresent, LeaseOpens, Wire, Present
<1> QED  BY <1>1, <1>2

\* A valid descriptor whose instance knows its own role starts that instance.
LEMMA ValidStarts ==
  ASSUME NEW d, DescriptorValid(d), d.ip \in Texts,
         NEW role \in SetOf(DeployedRoles(d)), InstanceOf(d, role).nats.server.role # ""
  PROVE  Starts(Wire(d), role)
<1>1. Wire(d).value = d
  BY DEF Wire
<1>2. \A r \in SetOf(DeployedRoles(d)) :
        /\ Positive(InstanceOf(d, r).readHeader) /\ Positive(InstanceOf(d, r).shutdown)
        /\ InstanceOf(d, r) = d[r]
  BY DeployedComplete, DeployedSet DEF InstanceEndpointsComplete, InstanceOf
<1>3. \A r \in SetOf(DeployedRoles(d)) : InstanceFieldsPresent(Wire(d), r)
  BY <1>1, <1>2 DEF InstanceFieldsPresent, Present, Wire, Positive
<1>4. Decodes(Wire(d))
  <2>1. Present(Wire(d), <<"machineEvents">>) /\ Present(Wire(d), <<"primary">>)
    BY DEF Present, Wire
  <2> QED  BY <1>1, <1>3, <2>1, DeployedSet, HealthIsRead, LeaseIsRead DEF Decodes
<1>5. Loads(d)
  BY <1>2 DEF Loads, SetOf
<1>6. BrokerStarts(InstanceOf(d, role).nats)
  BY DeployedComplete DEF InstanceEndpointsComplete, OnMachine, AddressUsable, RoutesUsable, BrokerStarts
<1>7. MonitorStarts(d)
  <2>1. IsIP(Trim(d.ip))
    BY TrimText DEF DescriptorValid, IsIP
  <2> QED  BY <2>1 DEF DescriptorValid, HostedServicesComplete, PolicyComplete, MonitorStarts, Tidy
<1>8. ViewBuilds(d)
  <2>1. SiteServicesComplete(d)
    BY DEF DescriptorValid
  <2>2. \A u \in DOMAIN d.siteServices : UnitKeeps(d.siteServices[u])
    BY <2>1, UnitRead DEF SiteServicesComplete
  <2> QED  BY <2>1, <2>2 DEF DescriptorValid, SiteServicesComplete, UnitsAgree, ViewBuilds
<1> QED  BY <1>1, <1>4, <1>5, <1>6, <1>7, <1>8, LeaseIsRead DEF Starts

-----------------------------------------------------------------------------
(* What is planned for a machine *)

\* A machine that deploys a standby is one whose standby is not disabled: the
\* lease comes and goes with it.
LEMMA StandbyDeployed ==
  ASSUME NEW p \in Projects, Resolves(p), NEW place \in Places(p)
  PROVE  HasStandby(DescriptorOf(p, place)) <=> ~ MachineAt(p, place).standby.disabled
<1> DEFINE d == DescriptorOf(p, place)
           machine == MachineAt(p, place)
           site == p.sites[place[1]]
<1>1. MachineAccepted(machine) /\ DescriptorValid(d)
  BY PlaceFacts DEF Resolves
<1>2. d.standby = InstanceRecord(site, machine, "standby") /\ d.lease = LeaseRecord(machine)
  BY DEF DescriptorOf
<1> HIDE DEF d, machine, site
<1>3. CASE machine.standby.disabled
  BY <1>2, <1>3 DEF InstanceRecord, Authored, HasStandby, machine, d
<1>4. CASE ~ machine.standby.disabled
  <2>1. machine.standby.lease # Absent
    BY <1>1, <1>4 DEF MachineAccepted, LeaseAccepted
  <2>2. d.lease # Absent
    BY <1>2, <1>4, <2>1 DEF LeaseRecord
  <2> QED  BY <1>1, <1>4, <2>2 DEF DescriptorValid, machine, d
<1> QED  BY <1>3, <1>4

\* A deployed instance is told its own role, and the address it was given.
LEMMA InstanceFacts ==
  ASSUME NEW p \in Projects, Resolves(p), NEW place \in Places(p),
         NEW role \in SetOf(DeployedRoles(DescriptorOf(p, place)))
  PROVE  LET machine == MachineAt(p, place)
             nats == InstanceOf(DescriptorOf(p, place), role).nats
         IN /\ role = "standby" => ~ machine.standby.disabled
            /\ Authored(machine, role) # Absent
            /\ nats.server = [machine |-> machine.name, role |-> role]
            /\ nats.cluster = Trim(p.sites[place[1]].cluster)
            /\ nats.address = [host |-> Trim(machine.ip),
                               port |-> Authored(machine, role).nats.port]
            /\ nats.routes = NatsRoutes(p.sites[place[1]], machine, role)
<1> DEFINE d == DescriptorOf(p, place)
           machine == MachineAt(p, place)
           site == p.sites[place[1]]
<1>0. role \in {"primary", "standby"} /\ (role = "standby" => HasStandby(d))
  BY DeployedSet
<1>1. InstanceOf(d, role) = InstanceRecord(site, machine, role)
  BY <1>0 DEF DescriptorOf, InstanceOf
<1>2. MachineAccepted(machine)
  BY PlaceFacts DEF Resolves
<1>3. role = "standby" => ~ machine.standby.disabled
  BY <1>0, StandbyDeployed
<1>5. Authored(machine, role) # Absent
  BY <1>0, <1>2, <1>3 DEF Authored, MachineAccepted
<1> HIDE DEF d, machine, site
<1>4. InstanceOf(d, role).nats =
        [server  |-> [machine |-> machine.name, role |-> role],
         cluster |-> Trim(site.cluster),
         address |-> [host |-> Trim(machine.ip), port |-> Authored(machine, role).nats.port],
         routes  |-> NatsRoutes(site, machine, role)]
  BY <1>1, <1>5 DEF InstanceRecord
<1> QED  BY <1>3, <1>4, <1>5 DEF d, machine, site

LEMMA PlannedPlace ==
  ASSUME PlanSound, Planned
  PROVE  /\ project \in Projects /\ Resolves(project) /\ Machines = Places(project)
         /\ \A place \in Machines : plan[place] = DescriptorOf(project, place)
BY DEF PlanSound, Machines, Plan

LEMMA PlannedRuns == PlanSound => PlannedMachinesRun
<1> SUFFICES ASSUME PlanSound, Planned, NEW place \in Machines
             PROVE  /\ \A role \in SetOf(DeployedRoles(plan[place])) :
                         Starts(Wire(plan[place]), role)
                    /\ plan[place].machine = Trim(plan[place].machine) =>
                         \A i \in DOMAIN plan[place].services :
                           IsPlaced(plan[place], OwnKey(plan[place], plan[place].services[i].name))
  BY DEF PlannedMachinesRun
<1> DEFINE d == plan[place]
<1>1. /\ project \in Projects /\ Resolves(project) /\ ProjectAccepted(project)
      /\ place \in Places(project) /\ d = DescriptorOf(project, place) /\ DescriptorValid(d)
  BY PlannedPlace DEF Resolves
<1>2. d.ip \in Texts
  BY <1>1, PlaceFacts DEF DescriptorOf, MachineBlocks
<1>3. ASSUME NEW role \in SetOf(DeployedRoles(d)) PROVE Starts(Wire(d), role)
  <2>1. InstanceOf(d, role).nats.server.role = role
    <3>1. role \in SetOf(DeployedRoles(DescriptorOf(project, place)))
      BY <1>1
    <3>2. InstanceOf(DescriptorOf(project, place), role).nats.server =
            [machine |-> MachineAt(project, place).name, role |-> role]
      BY <1>1, <3>1, InstanceFacts
    <3> QED  BY <1>1, <3>2
  <2>2. role # ""
    BY DeployedSet
  <2> QED  BY <1>1, <1>2, <2>1, <2>2, ValidStarts
<1>4. ASSUME d.machine = Trim(d.machine), NEW i \in DOMAIN d.services
      PROVE  IsPlaced(d, OwnKey(d, d.services[i].name))
  BY <1>1, <1>4 DEF DescriptorValid, SiteServicesComplete, HostedServicesAreListed, IsPlaced, OwnKey
<1> QED  BY <1>3, <1>4

\* Every machine the builder plans starts both its instances from the
\* descriptor compiled into them, and is found in its own inventory: what
\* resolve.Build accepts, config.Load and the platform's own constructors do.
THEOREM PlannedStart == Spec => []PlannedMachinesRun
BY PlanStaysSound, PlannedRuns, PTL

-----------------------------------------------------------------------------
(* What the machines of a site are told of one another *)

\* Half of a number, rounded down, twice over.
LEMMA HalfTwice ==
  ASSUME NEW x \in Int, NEW y \in Int, ~ y > x \div 2
  PROVE  2 * y <= x
OBVIOUS

\* A freshness that does not overflow outlives two probes of a check that the
\* builder accepts.
LEMMA FreshForOverlaps ==
  ASSUME NEW check, check.interval \in Durations, check.timeout \in Durations,
         Positive(check.interval), Positive(check.timeout), FreshFor(check) # Malformed
  PROVE  FreshFor(check) > 2 * check.interval /\ FreshFor(check) <= MaxDuration
<1> DEFINE interval == check.interval
           timeout == check.timeout
<1>1. interval \in Int /\ timeout \in Int /\ timeout > 0 /\ MaxDuration \in Int
  <2>1. MaxDuration \in Nat
    BY BlueprintAssumption
  <2>2. interval \in Int /\ timeout \in Int /\ timeout > 0
    BY DEF Durations, Positive
  <2> QED  BY <2>1, <2>2
<1>2. ~ interval > (MaxDuration - timeout) \div 2 /\ FreshFor(check) = 2 * interval + timeout
  BY DEF FreshFor
<1> HIDE DEF interval, timeout
<1>3. 2 * interval <= MaxDuration - timeout
  BY <1>1, <1>2, HalfTwice
<1>4. 2 * interval + timeout > 2 * interval /\ 2 * interval + timeout <= MaxDuration
  BY <1>1, <1>3
<1> QED  BY <1>2, <1>4 DEF interval

\* A site's units are its machines' services, machine by machine.
LEMMA UnitsFrom ==
  ASSUME NEW site \in SiteBlocks
  PROVE  /\ \A unit \in SetOf(SiteServices(site)) :
              \E m \in DOMAIN site.machines : \E i \in DOMAIN site.machines[m].services :
                unit = UnitOf(site.machines[m], site.machines[m].services[i])
         /\ \A m \in DOMAIN site.machines : \A i \in DOMAIN site.machines[m].services :
              UnitOf(site.machines[m], site.machines[m].services[i]) \in SetOf(SiteServices(site))
<1> DEFINE Units(m) == [i \in DOMAIN site.machines[m].services |->
                          UnitOf(site.machines[m], site.machines[m].services[i])]
           lists == [m \in DOMAIN site.machines |-> Units(m)]
           S == UNION {SetOf(lists[m]) : m \in DOMAIN lists}
<1>1. SiteServices(site) = Concat(lists)
  BY DEF SiteServices
<1>2. site.machines \in Seq(MachineBlocks)
  BY DEF SiteBlocks
<1>3. ASSUME NEW m \in DOMAIN site.machines PROVE lists[m] \in Seq(S)
  <2>0. site.machines[m] \in MachineBlocks
    BY <1>2
  <2>1. site.machines[m].services \in Seq(ServiceBlocks)
    BY <2>0 DEF MachineBlocks
  <2>2. PICK k \in Nat : DOMAIN site.machines[m].services = 1 .. k
    BY <2>1
  <2> DEFINE list == lists[m]
  <2>3. list = [i \in 1 .. k |-> list[i]] /\ DOMAIN list = 1 .. k
    BY <2>2
  <2>4. SetOf(list) \subseteq S
    OBVIOUS
  <2> HIDE DEF list, S
  <2>5. \A i \in 1 .. k : list[i] \in S
    BY <2>3, <2>4 DEF SetOf
  <2>6. list \in Seq(S)
    BY <2>3, <2>5
  <2> QED  BY <2>6 DEF list
<1>4. PICK n \in Nat : DOMAIN site.machines = 1 .. n
  BY <1>2
<1>5. lists = [m \in 1 .. n |-> lists[m]]
  BY <1>4
<1>6. \A m \in DOMAIN site.machines :
        SetOf(lists[m]) = {UnitOf(site.machines[m], site.machines[m].services[i]) :
                             i \in DOMAIN site.machines[m].services}
  BY DEF SetOf
<1>7. DOMAIN lists = DOMAIN site.machines
  OBVIOUS
<1>8. lists \in Seq(Seq(S))
  <2> HIDE DEF lists, S
  <2> QED  BY <1>3, <1>4, <1>5
<1> HIDE DEF lists, Units
<1>9. SetOf(Concat(lists)) = S
  <2>1. SetOf(Concat(lists)) = UNION {SetOf(lists[i]) : i \in DOMAIN lists}
    <3> HIDE DEF S
    <3> QED  BY <1>8, ConcatHolds
  <2> QED  BY <2>1
<1>10. \A unit \in S : \E m \in DOMAIN site.machines : unit \in SetOf(lists[m])
  BY <1>7
<1>11. \A m \in DOMAIN site.machines : SetOf(lists[m]) \subseteq S
  BY <1>7
<1> HIDE DEF S
<1>12. SetOf(SiteServices(site)) = S
  BY <1>1, <1>9
<1>13. ASSUME NEW unit \in S
       PROVE  \E m \in DOMAIN site.machines : \E i \in DOMAIN site.machines[m].services :
                unit = UnitOf(site.machines[m], site.machines[m].services[i])
  BY <1>6, <1>10, <1>13
<1>14. ASSUME NEW m \in DOMAIN site.machines, NEW i \in DOMAIN site.machines[m].services
       PROVE  UnitOf(site.machines[m], site.machines[m].services[i]) \in S
  BY <1>6, <1>11, <1>14
<1> QED  BY <1>12, <1>13, <1>14

\* What its machine is told of a service, the site is told of it.
LEMMA UnitCovers ==
  ASSUME NEW p \in Projects, Resolves(p), NEW place \in Places(p)
  PROVE  LET d == DescriptorOf(p, place)
             machine == MachineAt(p, place)
         IN /\ DOMAIN d.services = DOMAIN machine.services
            /\ \A i \in DOMAIN machine.services :
                 Covers(UnitOf(machine, machine.services[i]), d, d.services[i])
<1> DEFINE d == DescriptorOf(p, place)
           machine == MachineAt(p, place)
           site == p.sites[place[1]]
<1>1. /\ machine \in MachineBlocks /\ MachineAccepted(machine) /\ place[2] \in DOMAIN site.machines
      /\ machine = site.machines[place[2]]
  BY PlaceFacts DEF Resolves, MachineAt
<1>2. SiteResolves(site)
  BY DEF Resolves
<1>3. /\ d.services = [i \in DOMAIN machine.services |-> [machine.services[i] EXCEPT !.name = Trim(@)]]
      /\ d.machine = machine.name /\ d.profile = machine.profile
  BY DEF DescriptorOf
<1>4. DeployedRoles(d) = ObserverRoles(machine)
  <2>1. HasStandby(d) <=> ~ machine.standby.disabled
    BY StandbyDeployed
  <2> HIDE DEF d, machine
  <2> QED  BY <2>1 DEF DeployedRoles, ObserverRoles
<1> HIDE DEF d, machine, site
<1>5. machine.services \in Seq(ServiceBlocks)
  BY <1>1 DEF MachineBlocks
<1>6. ASSUME NEW i \in DOMAIN machine.services
      PROVE  Covers(UnitOf(machine, machine.services[i]), d, d.services[i])
  <2> DEFINE service == machine.services[i]
  <2>1. service \in ServiceBlocks
    BY <1>5, <1>6
  <2>2. /\ d.services[i].name = Trim(service.name) /\ d.services[i].role = service.role
        /\ d.services[i].check = service.check
    BY <1>3, <2>1 DEF ServiceBlocks
  <2>3. HealthCheckAccepted(service.check)
    BY <1>1 DEF MachineAccepted, MachineServicesAccepted, All, ServiceAccepted
  <2>4. FreshFor(service.check) # Malformed
    BY <1>1, <1>2 DEF SiteResolves
  <2> HIDE DEF service
  <2>5. service.check \in Checks
    BY <2>1 DEF ServiceBlocks
  <2>6. service.check.interval \in Durations /\ service.check.timeout \in Durations
    BY <2>5 DEF Checks
  <2>7. FreshFor(service.check) > 2 * service.check.interval /\ FreshFor(service.check) <= MaxDuration
    BY <2>3, <2>4, <2>6, FreshForOverlaps DEF HealthCheckAccepted
  <2>8. Covers(UnitOf(machine, service), d, d.services[i])
    BY <1>3, <1>4, <2>2, <2>7 DEF Covers, UnitOf
  <2> QED  BY <2>8 DEF service
<1>7. DOMAIN d.services = DOMAIN machine.services
  BY <1>3
<1> QED  BY <1>6, <1>7 DEF d, machine

LEMMA PlannedInventory == PlanSound => SiteSharesOneInventory
<1> SUFFICES ASSUME PlanSound, Planned, NEW place \in Machines
             PROVE  /\ \A other \in SiteOf(place) :
                         /\ plan[other].siteServices = plan[place].siteServices
                         /\ \A service \in SetOf(plan[other].services) :
                              \E unit \in SetOf(plan[place].siteServices) :
                                Covers(unit, plan[other], service)
                    /\ \A unit \in SetOf(plan[place].siteServices) : \E other \in SiteOf(place) :
                         \E service \in SetOf(plan[other].services) :
                           Covers(unit, plan[other], service)
                    /\ \A u, v \in DOMAIN plan[place].siteServices :
                         /\ plan[place].siteServices[u].machine = plan[place].siteServices[v].machine
                         /\ plan[place].siteServices[u].service = plan[place].siteServices[v].service
                         => u = v
  BY DEF SiteSharesOneInventory
<1> DEFINE site == project.sites[place[1]]
           units == plan[place].siteServices
<1>1. /\ project \in Projects /\ Resolves(project) /\ ProjectAccepted(project)
      /\ Machines = Places(project)
      /\ \A other \in Machines : plan[other] = DescriptorOf(project, other)
  BY PlannedPlace DEF Resolves
<1>2. place[1] \in DOMAIN project.sites /\ site \in SiteBlocks
  BY <1>1, PlaceFacts
<1>3. ASSUME NEW other \in SiteOf(place)
      PROVE  /\ other \in Machines /\ other[2] \in DOMAIN site.machines
             /\ MachineAt(project, other) = site.machines[other[2]]
             /\ plan[other].siteServices = SiteServices(site)
  <2>1. other \in Machines /\ other[1] = place[1]
    BY DEF SiteOf
  <2>2. other[2] \in DOMAIN project.sites[other[1]].machines
    BY <1>1, <2>1, PlaceFacts
  <2>3. DescriptorOf(project, other).siteServices = Inventory(project, project.sites[other[1]])
    BY DEF DescriptorOf
  <2>4. plan[other] = DescriptorOf(project, other)
    BY <1>1, <2>1
  <2> QED  BY <2>1, <2>2, <2>3, <2>4 DEF MachineAt, Inventory
<1>4. units = SiteServices(site)
  BY <1>3 DEF SiteOf
<1>5. ASSUME NEW other \in Machines
      PROVE  /\ DOMAIN plan[other].services = DOMAIN MachineAt(project, other).services
             /\ \A i \in DOMAIN MachineAt(project, other).services :
                  Covers(UnitOf(MachineAt(project, other), MachineAt(project, other).services[i]),
                         plan[other], plan[other].services[i])
  BY <1>1, UnitCovers
<1> HIDE DEF site, units
<1>6. ASSUME NEW other \in SiteOf(place), NEW service \in SetOf(plan[other].services)
      PROVE  \E unit \in SetOf(units) : Covers(unit, plan[other], service)
  <2>1. PICK i \in DOMAIN plan[other].services : service = plan[other].services[i]
    BY DEF SetOf
  <2>2. UnitOf(site.machines[other[2]], site.machines[other[2]].services[i]) \in SetOf(units)
    BY <1>2, <1>3, <1>4, <1>5, <2>1, UnitsFrom
  <2> QED  BY <1>3, <1>5, <2>1, <2>2
<1>7. ASSUME NEW unit \in SetOf(units)
      PROVE  \E other \in SiteOf(place) : \E service \in SetOf(plan[other].services) :
               Covers(unit, plan[other], service)
  <2>1. PICK m \in DOMAIN site.machines : \E i \in DOMAIN site.machines[m].services :
          unit = UnitOf(site.machines[m], site.machines[m].services[i])
    BY <1>2, <1>4, UnitsFrom
  <2>2. PICK i \in DOMAIN site.machines[m].services :
          unit = UnitOf(site.machines[m], site.machines[m].services[i])
    BY <2>1
  <2> DEFINE other == <<place[1], m>>
  <2>3. other \in SiteOf(place)
    BY <1>1, <1>2 DEF Places, SiteOf, site
  <2>4. other \in Machines /\ MachineAt(project, other) = site.machines[m]
    BY <1>3, <2>3
  <2> HIDE DEF other
  <2>5. i \in DOMAIN plan[other].services /\ Covers(unit, plan[other], plan[other].services[i])
    BY <1>5, <2>2, <2>4
  <2>6. plan[other].services[i] \in SetOf(plan[other].services)
    BY <2>5 DEF SetOf
  <2> QED  BY <2>3, <2>5, <2>6
<1>8. UnitsAgree(units)
  <2>1. DescriptorValid(plan[place])
    BY <1>1 DEF Resolves
  <2> QED  BY <2>1 DEF DescriptorValid, SiteServicesComplete, units
<1>9. \A other \in SiteOf(place) : plan[other].siteServices = units
  BY <1>3, <1>4
<1>10. \A u, v \in DOMAIN units :
         units[u].machine = units[v].machine /\ units[u].service = units[v].service => u = v
  BY <1>8 DEF UnitsAgree
<1> QED  BY <1>6, <1>7, <1>9, <1>10 DEF units

\* What the machines of a site are told of each other's services is one list of
\* exactly the services they host, each fresh for longer than two of its probes
\* and expected from the instances its own machine deploys: siteServices and
\* freshFor, resolved anew for every machine, never come apart.
THEOREM PlannedInventories == Spec => []SiteSharesOneInventory
BY PlanStaysSound, PlannedInventory, PTL

-----------------------------------------------------------------------------
(* The fabric of a site *)

\* Where a machine's instance listens.
AddressOf(machine, role) == [host |-> machine.ip, port |-> Authored(machine, role).nats.port]

\* A peer's addresses: one for each of its instances but the one left out.
LEMMA RoutesToPeer ==
  ASSUME NEW peer, NEW self, NEW role
  PROVE  /\ \E T : RoutesTo(peer, self, role) \in Seq(T)
         /\ \A route : route \in SetOf(RoutesTo(peer, self, role)) <=>
              \E r \in {"primary", "standby"} :
                /\ Authored(peer, r) # Absent /\ ~ (peer.name = self.name /\ r = role)
                /\ route = AddressOf(peer, r)
<1> DEFINE Skipped(r) == Authored(peer, r) = Absent \/ (peer.name = self.name /\ r = role)
           S == {AddressOf(peer, r) : r \in {"primary", "standby"}}
           lists == [k \in DOMAIN Roles |->
                       IF Skipped(Roles[k]) THEN << >> ELSE << AddressOf(peer, Roles[k]) >>]
<1>1. RoutesTo(peer, self, role) = Concat(lists)
  BY DEF RoutesTo, AddressOf
<1> HIDE DEF Skipped
<1>2. /\ DOMAIN Roles = {1, 2} /\ Roles[1] = "primary" /\ Roles[2] = "standby"
      /\ DOMAIN lists = {1, 2} /\ DOMAIN lists = 1 .. 2
  BY DEF Roles
<1>3. /\ lists[1] = IF Skipped("primary") THEN << >> ELSE << AddressOf(peer, "primary") >>
      /\ lists[2] = IF Skipped("standby") THEN << >> ELSE << AddressOf(peer, "standby") >>
  BY <1>2
<1>4. << >> \in Seq(S) /\ << AddressOf(peer, "primary") >> \in Seq(S) /\ << AddressOf(peer, "standby") >> \in Seq(S)
  OBVIOUS
<1> HIDE DEF lists, S
<1>5. lists \in Seq(Seq(S))
  <2>1. \A k \in 1 .. 2 : lists[k] \in Seq(S)
    BY <1>2, <1>3, <1>4
  <2>2. lists = [k \in 1 .. 2 |-> lists[k]]
    BY <1>2 DEF lists
  <2> QED  BY <2>1, <2>2
<1>6. Concat(lists) \in Seq(S) /\ SetOf(Concat(lists)) = UNION {SetOf(lists[k]) : k \in DOMAIN lists}
  BY <1>5, ConcatHolds
<1>7. SetOf(Concat(lists)) = SetOf(lists[1]) \cup SetOf(lists[2])
  BY <1>2, <1>6
<1>8. /\ SetOf(lists[1]) = IF Skipped("primary") THEN {} ELSE {AddressOf(peer, "primary")}
      /\ SetOf(lists[2]) = IF Skipped("standby") THEN {} ELSE {AddressOf(peer, "standby")}
  BY <1>3 DEF SetOf
<1>9. \A route : route \in SetOf(lists[1]) \cup SetOf(lists[2]) <=>
        \E r \in {"primary", "standby"} : ~ Skipped(r) /\ route = AddressOf(peer, r)
  BY <1>8
<1>10. Concat(lists) \in Seq(S)
  BY <1>6
<1> HIDE DEF S
<1>11. \A route : route \in SetOf(Concat(lists)) <=>
         \E r \in {"primary", "standby"} :
           /\ Authored(peer, r) # Absent /\ ~ (peer.name = self.name /\ r = role)
           /\ route = AddressOf(peer, r)
  BY <1>7, <1>9 DEF Skipped
<1> QED  BY <1>1, <1>10, <1>11

\* The routes of an instance are what is dialled at each machine of its site.
LEMMA RoutesToSite ==
  ASSUME NEW site, NEW n \in Nat, DOMAIN site.machines = 1 .. n, NEW self, NEW role
  PROVE  /\ DOMAIN NatsRoutes(site, self, role) = 1 .. Len(NatsRoutes(site, self, role))
         /\ Len(NatsRoutes(site, self, role)) \in Nat
         /\ SetOf(NatsRoutes(site, self, role)) =
              UNION {SetOf(RoutesTo(site.machines[m], self, role)) : m \in DOMAIN site.machines}
<1> DEFINE lists == [m \in DOMAIN site.machines |-> RoutesTo(site.machines[m], self, role)]
           S == UNION {SetOf(RoutesTo(site.machines[m], self, role)) : m \in DOMAIN site.machines}
<1>1. ASSUME NEW m \in DOMAIN site.machines PROVE lists[m] \in Seq(S)
  <2> DEFINE list == RoutesTo(site.machines[m], self, role)
  <2>1. PICK T : list \in Seq(T)
    BY RoutesToPeer
  <2>2. SetOf(list) \subseteq S
    OBVIOUS
  <2>3. \A i \in 1 .. Len(list) : list[i] \in SetOf(list)
    BY <2>1 DEF SetOf
  <2>4. list \in Seq(S)
    <3> HIDE DEF list, S
    <3>1. list = [i \in 1 .. Len(list) |-> list[i]] /\ Len(list) \in Nat
      BY <2>1
    <3>2. \A i \in 1 .. Len(list) : list[i] \in S
      BY <2>2, <2>3
    <3> QED  BY <3>1, <3>2
  <2> QED  BY <2>4
<1>2. NatsRoutes(site, self, role) = Concat(lists) /\ DOMAIN lists = DOMAIN site.machines
  BY DEF NatsRoutes
<1>3. lists \in Seq(Seq(S))
  <2>1. \A m \in 1 .. n : lists[m] \in Seq(S)
    BY <1>1
  <2>2. lists = [m \in 1 .. n |-> lists[m]]
    OBVIOUS
  <2> HIDE DEF lists, S
  <2> QED  BY <2>1, <2>2
<1>4. /\ Concat(lists) \in Seq(S)
      /\ SetOf(Concat(lists)) = UNION {SetOf(lists[m]) : m \in DOMAIN lists}
  <2> HIDE DEF lists, S
  <2> QED  BY <1>3, ConcatHolds
<1>5. UNION {SetOf(lists[m]) : m \in DOMAIN lists} = S
  OBVIOUS
<1> HIDE DEF lists, S
<1>6. DOMAIN Concat(lists) = 1 .. Len(Concat(lists)) /\ Len(Concat(lists)) \in Nat
  BY <1>4
<1> QED  BY <1>2, <1>4, <1>5, <1>6 DEF S

\* An instance of the site: the machine it is on, and its role there.
Deploys(place, role) ==
  role \in {"primary", "standby"} /\ Authored(MachineAt(project, place), role) # Absent
Member(place, role) == InstanceOf(plan[place], role)
PeersOf(place, role) ==
  {peer \in SiteOf(place) \X {"primary", "standby"} :
     Deploys(peer[1], peer[2]) /\ peer # <<place, role>>}

\* The roles that count are the same on both sides of the resolution.
LEMMA DeployedRolesAgree ==
  ASSUME PlanSound, Planned, NEW place \in Machines, NEW role
  PROVE  role \in SetOf(DeployedRoles(plan[place])) <=> Deploys(place, role)
<1> DEFINE machine == MachineAt(project, place)
<1>1. /\ project \in Projects /\ Resolves(project) /\ ProjectAccepted(project)
      /\ place \in Places(project) /\ plan[place] = DescriptorOf(project, place)
  BY PlannedPlace DEF Resolves
<1>2. MachineAccepted(machine)
  BY <1>1, PlaceFacts
<1>3. HasStandby(plan[place]) <=> ~ machine.standby.disabled
  BY <1>1, StandbyDeployed
<1>4. machine.primary # Absent /\ machine.standby # Absent
  BY <1>2 DEF MachineAccepted
<1> HIDE DEF machine
<1>5. SetOf(DeployedRoles(plan[place])) =
        IF HasStandby(plan[place]) THEN {"primary", "standby"} ELSE {"primary"}
  BY DeployedSet
<1> QED  BY <1>3, <1>4, <1>5 DEF Deploys, Authored, machine

LEMMA MembersOf ==
  ASSUME PlanSound, Planned, NEW place \in Machines
  PROVE  InstancesOf(place) = {Member(place, role) : role \in {r \in {"primary", "standby"} : Deploys(place, r)}}
<1>1. SetOf(DeployedRoles(plan[place])) = {r \in {"primary", "standby"} : Deploys(place, r)}
  BY DeployedRolesAgree DEF Deploys
<1> QED  BY <1>1 DEF InstancesOf, Member

LEMMA MemberFacts ==
  ASSUME PlanSound, Planned, NEW place \in Machines, NEW role, Deploys(place, role)
  PROVE  /\ Member(place, role).nats.server = [machine |-> MachineAt(project, place).name, role |-> role]
         /\ Member(place, role).nats.cluster = project.sites[place[1]].cluster
         /\ Member(place, role).nats.address = AddressOf(MachineAt(project, place), role)
         /\ Member(place, role).nats.routes =
              NatsRoutes(project.sites[place[1]], MachineAt(project, place), role)
         /\ RoutesUsable(Member(place, role).nats)
<1> DEFINE machine == MachineAt(project, place)
           site == project.sites[place[1]]
           nats == Member(place, role).nats
<1>1. /\ project \in Projects /\ Resolves(project) /\ ProjectAccepted(project)
      /\ place \in Places(project) /\ plan[place] = DescriptorOf(project, place)
      /\ DescriptorValid(plan[place])
  BY PlannedPlace DEF Resolves
<1>2. role \in SetOf(DeployedRoles(DescriptorOf(project, place)))
  BY <1>1, DeployedRolesAgree
<1>3. /\ place[1] \in DOMAIN project.sites /\ site \in SiteBlocks
      /\ machine \in MachineBlocks /\ MachineAccepted(machine)
  BY <1>1, PlaceFacts
<1>4. Trim(machine.ip) = machine.ip
  BY <1>3, TrimText DEF MachineBlocks, MachineAccepted, IsIP
<1>5. Trim(site.cluster) = site.cluster
  BY <1>1, <1>3 DEF ProjectAccepted, All, SiteNATSAccepted, Tidy
<1>6. /\ nats.server = [machine |-> machine.name, role |-> role]
      /\ nats.cluster = Trim(site.cluster)
      /\ nats.address = [host |-> Trim(machine.ip), port |-> Authored(machine, role).nats.port]
      /\ nats.routes = NatsRoutes(site, machine, role)
  BY <1>1, <1>2, InstanceFacts DEF Member
<1>7. RoutesUsable(nats)
  BY <1>1, <1>2, DeployedComplete DEF InstanceEndpointsComplete, Member
<1> QED  BY <1>4, <1>5, <1>6, <1>7 DEF AddressOf

\* A server's name says whose it is, and its cluster which site.
LEMMA MembersApart ==
  ASSUME PlanSound, Planned, NEW p \in Machines, NEW q \in Machines, NEW r, NEW s,
         Deploys(p, r), Deploys(q, s)
  PROVE  /\ Member(p, r).nats.server = Member(q, s).nats.server => p = q /\ r = s
         /\ Member(p, r).nats.cluster = Member(q, s).nats.cluster <=> p[1] = q[1]
<1>1. /\ project \in Projects /\ ProjectAccepted(project)
      /\ p \in Places(project) /\ q \in Places(project)
  BY PlannedPlace DEF Resolves
<1>2. p # q => MachineAt(project, p).name # MachineAt(project, q).name
  BY <1>1 DEF ProjectAccepted
<1>3. /\ p[1] \in DOMAIN project.sites /\ q[1] \in DOMAIN project.sites
  BY <1>1, PlaceFacts
<1>4. project.sites[p[1]].cluster = project.sites[q[1]].cluster => p[1] = q[1]
  BY <1>1, <1>3 DEF ProjectAccepted, Distinct
<1>5. /\ Member(p, r).nats.server = [machine |-> MachineAt(project, p).name, role |-> r]
      /\ Member(q, s).nats.server = [machine |-> MachineAt(project, q).name, role |-> s]
  BY MemberFacts
<1>6. /\ Member(p, r).nats.cluster = project.sites[p[1]].cluster
      /\ Member(q, s).nats.cluster = project.sites[q[1]].cluster
  BY MemberFacts
<1>7. Member(p, r).nats.server = Member(q, s).nats.server => p = q /\ r = s
  BY <1>2, <1>5
<1>8. Member(p, r).nats.cluster = Member(q, s).nats.cluster <=> p[1] = q[1]
  BY <1>4, <1>6
<1> QED  BY <1>7, <1>8

LEMMA MemberRoutes ==
  ASSUME PlanSound, Planned, NEW place \in Machines, NEW role, Deploys(place, role)
  PROVE  /\ DOMAIN Member(place, role).nats.routes = 1 .. Len(Member(place, role).nats.routes)
         /\ Len(Member(place, role).nats.routes) \in Nat
         /\ SetOf(Member(place, role).nats.routes) =
              {Member(peer[1], peer[2]).nats.address : peer \in PeersOf(place, role)}
<1> DEFINE site == project.sites[place[1]]
           self == MachineAt(project, place)
           routes == NatsRoutes(site, self, role)
<1>1. /\ project \in Projects /\ ProjectAccepted(project) /\ place \in Places(project)
      /\ Machines = Places(project)
  BY PlannedPlace DEF Resolves
<1>2. site \in SiteBlocks /\ place[1] \in DOMAIN project.sites
  BY <1>1, PlaceFacts
<1>3. DOMAIN site.machines = 1 .. Len(site.machines) /\ Len(site.machines) \in Nat
  BY <1>2 DEF SiteBlocks
<1>4. Member(place, role).nats.routes = routes
  BY MemberFacts
<1>5. /\ DOMAIN routes = 1 .. Len(routes) /\ Len(routes) \in Nat
      /\ SetOf(routes) = UNION {SetOf(RoutesTo(site.machines[m], self, role)) : m \in DOMAIN site.machines}
  <2> HIDE DEF site, self
  <2> QED  BY <1>3, RoutesToSite
<1>6. ASSUME NEW m \in DOMAIN site.machines, NEW r \in {"primary", "standby"}
      PROVE  /\ <<place[1], m>> \in SiteOf(place)
             /\ MachineAt(project, <<place[1], m>>) = site.machines[m]
  BY <1>1, <1>2 DEF Places, SiteOf, MachineAt
<1>7. ASSUME NEW route \in SetOf(routes)
      PROVE  \E peer \in PeersOf(place, role) : route = Member(peer[1], peer[2]).nats.address
  <2>1. PICK m \in DOMAIN site.machines : route \in SetOf(RoutesTo(site.machines[m], self, role))
    BY <1>5, <1>7
  <2> DEFINE machine == site.machines[m]
             there == <<place[1], m>>
  <2>2. PICK r \in {"primary", "standby"} :
          /\ Authored(machine, r) # Absent /\ ~ (machine.name = self.name /\ r = role)
          /\ route = AddressOf(machine, r)
    <3>1. route \in SetOf(RoutesTo(machine, self, role))
      BY <2>1
    <3> HIDE DEF site, self, machine
    <3> QED  BY <3>1, RoutesToPeer
  <2>3. there \in SiteOf(place) /\ MachineAt(project, there) = machine
    BY <1>6
  <2>4. there \in Machines /\ Deploys(there, r)
    BY <2>2, <2>3 DEF Deploys, SiteOf
  <2>5. <<there, r>> # <<place, role>>
    BY <2>2, <2>3
  <2>6. Member(there, r).nats.address = AddressOf(machine, r)
    <3> HIDE DEF machine, there
    <3>1. Member(there, r).nats.address = AddressOf(MachineAt(project, there), r)
      BY <2>4, MemberFacts
    <3> QED  BY <2>3, <3>1
  <2>7. <<there, r>> \in PeersOf(place, role)
    BY <2>3, <2>4, <2>5 DEF PeersOf
  <2> QED  BY <2>2, <2>6, <2>7
<1>8. ASSUME NEW peer \in PeersOf(place, role)
      PROVE  Member(peer[1], peer[2]).nats.address \in SetOf(routes)
  <2> DEFINE there == peer[1]
             r == peer[2]
             machine == MachineAt(project, there)
  <2>1. /\ there \in Machines /\ there[1] = place[1] /\ r \in {"primary", "standby"}
        /\ Deploys(there, r) /\ ~ (there = place /\ r = role)
    BY DEF PeersOf, SiteOf
  <2>2. there[2] \in DOMAIN site.machines /\ machine = site.machines[there[2]]
    BY <1>1, <2>1, PlaceFacts DEF MachineAt
  <2>3. ~ (machine.name = self.name /\ r = role)
    BY <1>1, <2>1 DEF ProjectAccepted
  <2>4. Member(there, r).nats.address = AddressOf(machine, r)
    <3> HIDE DEF there, r
    <3>1. Member(there, r).nats.address = AddressOf(MachineAt(project, there), r)
      BY <2>1, MemberFacts
    <3> QED  BY <3>1
  <2>5. AddressOf(machine, r) \in SetOf(RoutesTo(machine, self, role))
    <3> HIDE DEF machine, self, there, r
    <3> QED  BY <2>1, <2>3, RoutesToPeer DEF Deploys, machine
  <2> HIDE DEF there, r
  <2> QED  BY <1>5, <2>2, <2>4, <2>5 DEF there, r
<1> HIDE DEF routes
<1>9. SetOf(routes) = {Member(peer[1], peer[2]).nats.address : peer \in PeersOf(place, role)}
  BY <1>7, <1>8
<1> QED  BY <1>4, <1>5, <1>9

\* No two instances of a site listen at one address: each dials the other, and
\* none dials its own.
LEMMA AddressesApart ==
  ASSUME PlanSound, Planned, NEW p \in Machines, NEW q \in SiteOf(p), NEW r, NEW s,
         Deploys(p, r), Deploys(q, s), Member(p, r).nats.address = Member(q, s).nats.address
  PROVE  p = q /\ r = s
<1> SUFFICES ASSUME <<p, r>> # <<q, s>> PROVE FALSE
  OBVIOUS
<1>1. q \in Machines /\ p \in SiteOf(q)
  BY DEF SiteOf
<1>2. <<p, r>> \in PeersOf(q, s)
  BY <1>1 DEF PeersOf, Deploys
<1>3. Member(p, r).nats.address \in SetOf(Member(q, s).nats.routes)
  <2>1. SetOf(Member(q, s).nats.routes) =
          {Member(peer[1], peer[2]).nats.address : peer \in PeersOf(q, s)}
    BY <1>1, MemberRoutes
  <2> QED  BY <1>2, <2>1
<1>4. RoutesUsable(Member(q, s).nats)
  BY <1>1, MemberFacts
<1> QED  BY <1>3, <1>4 DEF RoutesUsable, SetOf

\* A set whose elements are told apart by what one list without repetition
\* says of them has as many elements as the list.
LEMMA CountedByList ==
  ASSUME NEW list, NEW n \in Nat, DOMAIN list = 1 .. n,
         \A i, j \in 1 .. n : list[i] = list[j] => i = j,
         NEW S, NEW f, DOMAIN f = S,
         \A x \in S : \E i \in 1 .. n : list[i] = f[x],
         \A i \in 1 .. n : \E x \in S : f[x] = list[i],
         \A x, y \in S : f[x] = f[y] => x = y
  PROVE  IsFiniteSet(S) /\ Cardinality(S) = n
<1> DEFINE h == [i \in 1 .. n |-> CHOOSE x \in S : f[x] = list[i]]
<1>1. \A i \in 1 .. n : h[i] \in S /\ f[h[i]] = list[i]
  OBVIOUS
<1>2. DOMAIN h = 1 .. n /\ h = [i \in 1 .. n |-> h[i]]
  OBVIOUS
<1> HIDE DEF h
<1>3. h \in [1 .. n -> S]
  BY <1>1, <1>2
<1>4. \A i, j \in 1 .. n : h[i] = h[j] => i = j
  BY <1>1
<1>5. \A x \in S : \E i \in 1 .. n : h[i] = x
  BY <1>1
<1>6. h \in Bijection(1 .. n, S)
  BY <1>3, <1>4, <1>5 DEF Bijection, Injection, Surjection, IsInjective
<1>7. ExistsBijection(1 .. n, S)
  BY <1>6 DEF ExistsBijection
<1> QED  BY <1>7, FS_CountingElements, FS_NatBijection

LEMMA PlannedFabric == PlanSound => SiteFormsOneFabric
<1> SUFFICES ASSUME PlanSound, Planned, NEW place \in Machines, NEW self \in InstancesOf(place)
             PROVE  LET members == UNION {InstancesOf(other) : other \in SiteOf(place)}
                    IN /\ SetOf(self.nats.routes) = {peer.nats.address : peer \in members \ {self}}
                       /\ Len(self.nats.routes) = Cardinality(members) - 1
                       /\ \A other \in Machines : \A peer \in InstancesOf(other) :
                            /\ peer.nats.server = self.nats.server => peer = self
                            /\ (peer.nats.cluster = self.nats.cluster) = (other \in SiteOf(place))
                       /\ \A peer \in members \ {self} : peer.nats.address # self.nats.address
  BY DEF SiteFormsOneFabric
<1> DEFINE members == UNION {InstancesOf(other) : other \in SiteOf(place)}
           others == members \ {self}
           routes == self.nats.routes
<1>1. PICK role \in {"primary", "standby"} : Deploys(place, role) /\ self = Member(place, role)
  BY MembersOf
<1>2. ASSUME NEW other \in Machines, NEW peer \in InstancesOf(other)
      PROVE  \E r \in {"primary", "standby"} : Deploys(other, r) /\ peer = Member(other, r)
  BY <1>2, MembersOf
<1>3. ASSUME NEW other \in Machines, NEW r, Deploys(other, r)
      PROVE  Member(other, r) \in InstancesOf(other)
  BY <1>3, MembersOf DEF Deploys
<1>4. place \in SiteOf(place) /\ SiteOf(place) \subseteq Machines
  BY DEF SiteOf
<1>5. self \in members
  BY <1>1, <1>3, <1>4
<1>6. others = {Member(peer[1], peer[2]) : peer \in PeersOf(place, role)}
  <2>1. ASSUME NEW peer \in others
        PROVE  \E there \in PeersOf(place, role) : peer = Member(there[1], there[2])
    <3>1. PICK other \in SiteOf(place) : peer \in InstancesOf(other)
      OBVIOUS
    <3>2. PICK r \in {"primary", "standby"} : Deploys(other, r) /\ peer = Member(other, r)
      BY <1>2, <1>4, <3>1
    <3>3. <<other, r>> # <<place, role>>
      BY <1>1, <3>2
    <3>4. <<other, r>> \in PeersOf(place, role)
      BY <3>1, <3>2, <3>3 DEF PeersOf
    <3> QED  BY <3>2, <3>4
  <2>2. ASSUME NEW there \in PeersOf(place, role) PROVE Member(there[1], there[2]) \in others
    <3>1. /\ there[1] \in SiteOf(place) /\ Deploys(there[1], there[2])
          /\ ~ (there[1] = place /\ there[2] = role)
      BY DEF PeersOf
    <3>2. Member(there[1], there[2]) \in members
      BY <1>3, <1>4, <3>1
    <3>3. Member(there[1], there[2]).nats.server # self.nats.server
      BY <1>1, <1>4, <3>1, MembersApart
    <3> QED  BY <3>2, <3>3
  <2> QED  BY <2>1, <2>2
<1>7. SetOf(routes) = {peer.nats.address : peer \in others}
  <2>1. SetOf(routes) = {Member(peer[1], peer[2]).nats.address : peer \in PeersOf(place, role)}
    BY <1>1, MemberRoutes
  <2> HIDE DEF others, routes
  <2> QED  BY <1>6, <2>1
<1>8. \A p, q \in members : p.nats.address = q.nats.address => p = q
  <2> SUFFICES ASSUME NEW p \in members, NEW q \in members, p.nats.address = q.nats.address
               PROVE  p = q
    OBVIOUS
  <2>1. PICK here \in SiteOf(place) : p \in InstancesOf(here)
    OBVIOUS
  <2>2. PICK there \in SiteOf(place) : q \in InstancesOf(there)
    OBVIOUS
  <2>3. PICK r : Deploys(here, r) /\ p = Member(here, r)
    BY <1>2, <1>4, <2>1
  <2>4. PICK s : Deploys(there, s) /\ q = Member(there, s)
    BY <1>2, <1>4, <2>2
  <2>5. here \in Machines /\ there \in SiteOf(here)
    BY DEF SiteOf
  <2> QED  BY <2>3, <2>4, <2>5, AddressesApart
<1>9. Len(routes) = Cardinality(members) - 1
  <2> DEFINE n == Len(routes)
             f == [peer \in others |-> peer.nats.address]
  <2>1. DOMAIN routes = 1 .. n /\ n \in Nat
    BY <1>1, MemberRoutes
  <2>2. \A i, j \in 1 .. n : routes[i] = routes[j] => i = j
    <3>1. RoutesUsable(self.nats)
      BY <1>1, MemberFacts
    <3> QED  BY <2>1, <3>1 DEF RoutesUsable
  <2> HIDE DEF n, routes
  <2>3. \A x \in others : \E i \in 1 .. n : routes[i] = f[x]
    BY <1>7, <2>1 DEF SetOf
  <2>4. \A i \in 1 .. n : \E x \in others : f[x] = routes[i]
    BY <1>7, <2>1 DEF SetOf
  <2>5. \A x, y \in others : f[x] = f[y] => x = y
    BY <1>8
  <2>6. DOMAIN f = others
    OBVIOUS
  <2> HIDE DEF f, others
  <2>7. IsFiniteSet(others) /\ Cardinality(others) = n
    BY <2>1, <2>2, <2>3, <2>4, <2>5, <2>6, CountedByList
  <2>8. Cardinality(others \cup {self}) = n + 1
    BY <2>7, FS_AddElement DEF others
  <2>9. others \cup {self} = members
    BY <1>5 DEF others
  <2> HIDE DEF members
  <2>10. Cardinality(members) = n + 1
    BY <2>8, <2>9, Zenon
  <2>11. n = Cardinality(members) - 1
    BY <2>1, <2>10
  <2> QED  BY <2>11 DEF n
<1>10. ASSUME NEW other \in Machines, NEW peer \in InstancesOf(other)
       PROVE  /\ peer.nats.server = self.nats.server => peer = self
              /\ (peer.nats.cluster = self.nats.cluster) = (other \in SiteOf(place))
  <2>1. PICK r : Deploys(other, r) /\ peer = Member(other, r)
    BY <1>2
  <2>2. other \in SiteOf(place) <=> other[1] = place[1]
    BY DEF SiteOf
  <2>3. peer.nats.server = self.nats.server => peer = self
    BY <1>1, <2>1, MembersApart
  <2>4. peer.nats.cluster = self.nats.cluster <=> other[1] = place[1]
    BY <1>1, <2>1, MembersApart
  <2> QED  BY <2>2, <2>3, <2>4
<1>11. \A peer \in others : peer.nats.address # self.nats.address
  BY <1>5, <1>8
<1> QED  BY <1>7, <1>9, <1>10, <1>11

\* The embedded servers of a site form one cluster whichever member starts
\* first, and never a second one or another site's: natsRoutes lists every
\* other deployed instance once, at the address that instance listens on, and
\* server names and clusters are unique where they have to be.
THEOREM PlannedFabrics == Spec => []SiteFormsOneFabric
BY PlanStaysSound, PlannedFabric, PTL

-----------------------------------------------------------------------------
(* A descriptor that lost a key *)

\* Where a path leads, one step after another.
LEMMA AlongStart ==
  ASSUME NEW record, NEW path
  PROVE  /\ Along(record, path, 0) = record
         /\ Along(record, path, 1) = record[path[1]]
         /\ Along(record, path, 2) = record[path[1]][path[2]]
         /\ Along(record, path, 3) = record[path[1]][path[2]][path[3]]
<1> DEFINE Steps(at, k) == at = [j \in 0 .. k |-> IF j = 0 THEN record ELSE at[j - 1][path[j]]]
           leads == [j \in 0 .. 3 |-> IF j = 0 THEN record ELSE IF j = 1 THEN record[path[1]]
                                      ELSE IF j = 2 THEN record[path[1]][path[2]]
                                      ELSE record[path[1]][path[2]][path[3]]]
           first(k) == [j \in 0 .. k |-> leads[j]]
<1>1. ASSUME NEW k \in 0 .. 3 PROVE Along(record, path, k) = leads[k]
  <2>1. Steps(first(k), k)
    <3>1. ASSUME NEW j \in 0 .. k
          PROVE  first(k)[j] = IF j = 0 THEN record ELSE first(k)[j - 1][path[j]]
      <4>1. CASE j = 0
        BY <4>1
      <4>2. CASE j = 1
        BY <4>2
      <4>3. CASE j = 2
        BY <4>3
      <4>4. CASE j = 3
        BY <4>4
      <4>5. j = 0 \/ j = 1 \/ j = 2 \/ j = 3
        OBVIOUS
      <4> HIDE DEF first
      <4> QED  BY <4>1, <4>2, <4>3, <4>4, <4>5
    <3> HIDE DEF leads
    <3> QED  BY <3>1
  <2>2. \E at : Steps(at, k)
    <3> HIDE DEF Steps, first
    <3> QED  BY <2>1
  <2> DEFINE at == CHOOSE f : Steps(f, k)
  <2>3. Steps(at, k)
    <3> HIDE DEF Steps
    <3> QED  BY <2>2
  <2>4. Along(record, path, k) = at[k]
    BY DEF Along
  <2> HIDE DEF at
  <2>5. \A j \in 0 .. k : at[j] = IF j = 0 THEN record ELSE at[j - 1][path[j]]
    BY <2>3
  <2>6. CASE k = 0
    BY <2>4, <2>5, <2>6
  <2>7. CASE k = 1
    <3>1. at[0] = record
      BY <2>5, <2>7
    <3>2. at[1] = at[0][path[1]]
      BY <2>5, <2>7
    <3> QED  BY <2>4, <2>7, <3>1, <3>2
  <2>8. CASE k = 2
    <3>1. at[0] = record
      BY <2>5, <2>8
    <3>2. at[1] = at[0][path[1]]
      BY <2>5, <2>8
    <3>3. at[2] = at[1][path[2]]
      BY <2>5, <2>8
    <3> QED  BY <2>4, <2>8, <3>1, <3>2, <3>3
  <2>9. CASE k = 3
    <3>1. at[0] = record
      BY <2>5, <2>9
    <3>2. at[1] = at[0][path[1]]
      BY <2>5, <2>9
    <3>3. at[2] = at[1][path[2]]
      BY <2>5, <2>9
    <3>4. at[3] = at[2][path[3]]
      BY <2>5, <2>9
    <3> QED  BY <2>4, <2>9, <3>1, <3>2, <3>3, <3>4
  <2> QED  BY <2>6, <2>7, <2>8, <2>9
<1>2. /\ leads[0] = record /\ leads[1] = record[path[1]]
      /\ leads[2] = record[path[1]][path[2]] /\ leads[3] = record[path[1]][path[2]][path[3]]
  OBVIOUS
<1>3. 0 \in 0 .. 3 /\ 1 \in 0 .. 3 /\ 2 \in 0 .. 3 /\ 3 \in 0 .. 3
  OBVIOUS
<1> HIDE DEF leads
<1> QED  BY <1>1, <1>2, <1>3

\* What each step of a path is replaced by, the value at its end first.
Replaced(put, record, path, value, n) ==
  /\ put[n] = value
  /\ \A k \in 0 .. n - 1 : put[k] = [Along(record, path, k) EXCEPT ![path[k + 1]] = put[k + 1]]

LEMMA PutSteps ==
  ASSUME NEW record, NEW path, NEW value, NEW n \in Nat, Len(path) = n
  PROVE  \E put : Put(record, path, value) = put[0] /\ Replaced(put, record, path, value, n)
<1> DEFINE Step(k, more) == IF k = n THEN value ELSE [Along(record, path, k) EXCEPT ![path[k + 1]] = more]
           Steps(put, m) == put = [k \in m .. n |-> Step(k, put[k + 1])]
           Reached == {m \in 1 .. n + 1 : \E put : Steps(put, n + 1 - m)}
<1>1. 1 \in Reached
  <2> DEFINE last == [k \in n .. n |-> value]
  <2>1. Steps(last, n)
    <3>1. \A k \in n .. n : Step(k, last[k + 1]) = value
      OBVIOUS
    <3> HIDE DEF Step
    <3> QED  BY <3>1
  <2>2. \E put : Steps(put, n)
    <3> HIDE DEF last, Steps
    <3> QED  BY <2>1
  <2>3. n + 1 - 1 = n /\ 1 \in 1 .. n + 1
    OBVIOUS
  <2> HIDE DEF Steps
  <2> QED  BY <2>2, <2>3
<1>2. ASSUME NEW i \in 1 .. (n + 1) - 1, i \in Reached PROVE i + 1 \in Reached
  <2> DEFINE m == n - i
  <2>1. /\ m \in 0 .. n - 1 /\ n + 1 - i = m + 1 /\ n + 1 - (i + 1) = m /\ i + 1 \in 1 .. n + 1
    OBVIOUS
  <2> HIDE DEF m
  <2>2. PICK put : Steps(put, m + 1)
    BY <1>2, <2>1
  <2> DEFINE more == [k \in m .. n |-> IF k = m THEN Step(m, put[m + 1]) ELSE put[k]]
  <2>3. Steps(more, m)
    <3>1. ASSUME NEW k \in m .. n PROVE more[k] = Step(k, more[k + 1])
      <4> HIDE DEF Step
      <4>1. CASE k = m
        <5>1. m + 1 \in m .. n /\ m + 1 # m
          BY <2>1
        <5>2. more[m + 1] = put[m + 1]
          BY <5>1
        <5> QED  BY <4>1, <5>2
      <4>2. CASE k # m /\ k # n
        <5>1. k \in m + 1 .. n /\ k + 1 \in m .. n /\ k + 1 # m
          BY <2>1, <4>2
        <5>2. put[k] = Step(k, put[k + 1])
          BY <2>2, <5>1
        <5>3. more[k] = put[k] /\ more[k + 1] = put[k + 1]
          BY <4>2, <5>1
        <5> QED  BY <5>2, <5>3
      <4>3. CASE k # m /\ k = n
        <5>1. k \in m + 1 .. n
          BY <2>1, <4>3
        <5>2. put[k] = Step(k, put[k + 1])
          BY <2>2, <5>1
        <5>3. more[k] = put[k]
          BY <4>3
        <5> QED  BY <4>3, <5>2, <5>3 DEF Step
      <4> QED  BY <4>1, <4>2, <4>3
    <3> HIDE DEF Step
    <3>2. more = [k \in m .. n |-> more[k]]
      OBVIOUS
    <3> HIDE DEF more
    <3> QED  BY <3>1, <3>2
  <2> HIDE DEF Steps, more
  <2> QED  BY <2>1, <2>3
<1>3. \E put : Steps(put, 0)
  <2> HIDE DEF Steps
  <2>1. n + 1 \in Reached
    <3> HIDE DEF Reached
    <3>1. \A i \in 1 .. (n + 1) - 1 : i \in Reached => i + 1 \in Reached
      BY <1>2
    <3>2. \A i \in 1 .. n + 1 : i \in Reached
      BY <1>1, <3>1, CountingUp
    <3>3. n + 1 \in 1 .. n + 1
      OBVIOUS
    <3> QED  BY <3>2, <3>3
  <2>2. n + 1 - (n + 1) = 0
    OBVIOUS
  <2> QED  BY <2>1, <2>2
<1> DEFINE put == CHOOSE f : Steps(f, 0)
<1>4. Steps(put, 0)
  <2> HIDE DEF Steps
  <2> QED  BY <1>3
<1>5. Put(record, path, value) = put[0]
  BY DEF Put
<1> HIDE DEF put
<1>6. \A k \in 0 .. n : put[k] = Step(k, put[k + 1])
  BY <1>4
<1>7. put[n] = value
  <2>1. n \in 0 .. n /\ Step(n, put[n + 1]) = value
    OBVIOUS
  <2> HIDE DEF Step
  <2> QED  BY <1>6, <2>1
<1>8. \A k \in 0 .. n - 1 : put[k] = [Along(record, path, k) EXCEPT ![path[k + 1]] = put[k + 1]]
  <2> TAKE k \in 0 .. n - 1
  <2>1. k \in 0 .. n /\ k # n
    OBVIOUS
  <2> QED  BY <1>6, <2>1
<1>9. Replaced(put, record, path, value, n)
  BY <1>7, <1>8 DEF Replaced
<1> QED  BY <1>5, <1>9

LEMMA PutOne ==
  ASSUME NEW record, NEW a, NEW value
  PROVE  Put(record, <<a>>, value) = [record EXCEPT ![a] = value]
<1> DEFINE path == <<a>>
<1>1. Len(path) = 1 /\ path[1] = a
  OBVIOUS
<1> HIDE DEF path
<1>2. PICK put : Put(record, path, value) = put[0] /\ Replaced(put, record, path, value, 1)
  BY <1>1, PutSteps
<1>3. put[0] = [Along(record, path, 0) EXCEPT ![path[1]] = put[1]]
  BY <1>2 DEF Replaced
<1>4. put[1] = value
  BY <1>2 DEF Replaced
<1>5. Put(record, path, value) = [record EXCEPT ![a] = value]
  BY <1>1, <1>2, <1>3, <1>4, AlongStart
<1> QED  BY <1>5 DEF path

\* Only the block under the first key of a path is touched.
LEMMA PutFirst ==
  ASSUME NEW record, NEW path, NEW value, Len(path) \in Nat, Len(path) > 0
  PROVE  \A key \in DOMAIN record : key # path[1] => Put(record, path, value)[key] = record[key]
<1>1. PICK put : Put(record, path, value) = put[0] /\ Replaced(put, record, path, value, Len(path))
  BY PutSteps
<1>2. 0 \in 0 .. Len(path) - 1
  OBVIOUS
<1>3. put[0] = [Along(record, path, 0) EXCEPT ![path[1]] = put[1]]
  BY <1>1, <1>2 DEF Replaced
<1>4. Put(record, path, value) = [record EXCEPT ![path[1]] = put[1]]
  BY <1>1, <1>3, AlongStart
<1> QED  BY <1>4

LEMMA PutThree ==
  ASSUME NEW record, NEW a, NEW b, NEW c, NEW value
  PROVE  Put(record, <<a, b, c>>, value) =
           [record EXCEPT ![a] = [record[a] EXCEPT ![b] = [record[a][b] EXCEPT ![c] = value]]]
<1> DEFINE path == <<a, b, c>>
<1>1. Len(path) = 3 /\ path[1] = a /\ path[2] = b /\ path[3] = c
  OBVIOUS
<1> HIDE DEF path
<1>2. PICK put : Put(record, path, value) = put[0] /\ Replaced(put, record, path, value, 3)
  BY <1>1, PutSteps
<1>3. put[0] = [Along(record, path, 0) EXCEPT ![path[1]] = put[1]]
  BY <1>2 DEF Replaced
<1>4. put[1] = [Along(record, path, 1) EXCEPT ![path[2]] = put[2]]
  BY <1>2 DEF Replaced
<1>5. put[2] = [Along(record, path, 2) EXCEPT ![path[3]] = put[3]]
  BY <1>2 DEF Replaced
<1>9. put[3] = value
  BY <1>2 DEF Replaced
<1>6. put[2] = [record[a][b] EXCEPT ![c] = value]
  BY <1>1, <1>5, <1>9, AlongStart
<1>7. put[1] = [record[a] EXCEPT ![b] = put[2]]
  BY <1>1, <1>4, AlongStart
<1>8. put[0] = [record EXCEPT ![a] = put[1]]
  BY <1>1, <1>3, AlongStart
<1> QED  BY <1>2, <1>6, <1>7, <1>8 DEF path

LEMMA PutFour ==
  ASSUME NEW record, NEW a, NEW b, NEW c, NEW e, NEW value
  PROVE  Put(record, <<a, b, c, e>>, value) =
           [record EXCEPT ![a] = [record[a] EXCEPT ![b] =
              [record[a][b] EXCEPT ![c] = [record[a][b][c] EXCEPT ![e] = value]]]]
<1> DEFINE path == <<a, b, c, e>>
<1>1. Len(path) = 4 /\ path[1] = a /\ path[2] = b /\ path[3] = c /\ path[4] = e
  OBVIOUS
<1> HIDE DEF path
<1>2. PICK put : Put(record, path, value) = put[0] /\ Replaced(put, record, path, value, 4)
  BY <1>1, PutSteps
<1>3. put[0] = [Along(record, path, 0) EXCEPT ![path[1]] = put[1]]
  BY <1>2 DEF Replaced
<1>4. put[1] = [Along(record, path, 1) EXCEPT ![path[2]] = put[2]]
  BY <1>2 DEF Replaced
<1>5. put[2] = [Along(record, path, 2) EXCEPT ![path[3]] = put[3]]
  BY <1>2 DEF Replaced
<1>6. put[3] = [Along(record, path, 3) EXCEPT ![path[4]] = put[4]]
  BY <1>2 DEF Replaced
<1>11. put[4] = value
  BY <1>2 DEF Replaced
<1>7. put[3] = [record[a][b][c] EXCEPT ![e] = value]
  BY <1>1, <1>6, <1>11, AlongStart
<1>8. put[2] = [record[a][b] EXCEPT ![c] = put[3]]
  BY <1>1, <1>5, AlongStart
<1>9. put[1] = [record[a] EXCEPT ![b] = put[2]]
  BY <1>1, <1>4, AlongStart
<1>10. put[0] = [record EXCEPT ![a] = put[1]]
  BY <1>1, <1>3, AlongStart
<1> QED  BY <1>2, <1>7, <1>8, <1>9, <1>10 DEF path

\* What a lost key reads as, and that none of it is taken for a value.
LEMMA LostReadsAs ==
  /\ \A key \in {"project", "environment", "site", "machine", "profile", "ip", "name", "service"} :
       ZeroOf(key) = BlankText
  /\ \A key \in {"interval", "timeout", "freshFor"} : ZeroOf(key) = Malformed
  /\ \A key \in {"services", "siteServices", "observers"} : ZeroOf(key) = << >>
  /\ \A key \in {"standby", "lease"} : ZeroOf(key) = Absent
  /\ \A key \in {"port", "retries"} : ZeroOf(key) = 0
  /\ \A key \in {"type", "path", "role"} : ZeroOf(key) = ""
BY DEF ZeroOf, DurationFields, ListFields, BlockFields

LEMMA BlankTextIsBlank == Blank(BlankText) /\ Blank(Trim(BlankText)) /\ ~ IsIP(Trim(BlankText))
<1>1. Trim(BlankText).word = "" /\ BlankText.word = ""
  BY DEF Trim, BlankText
<1> QED  BY <1>1, BlueprintAssumption DEF Blank, IsIP

\* The keys a descriptor has, as far as what is lost below goes.
Keyed(d) ==
  /\ DOMAIN d = {"project", "environment", "site", "machine", "profile", "ip", "services",
                 "siteServices", "machineEvents", "primary", "standby", "lease"}
  /\ DOMAIN d.services # {}
  /\ \A i \in DOMAIN d.services :
       /\ DOMAIN d.services[i] = {"name", "role", "check"}
       /\ DOMAIN d.services[i].check = {"type", "port", "path", "interval", "timeout", "retries"}
  /\ \A u \in DOMAIN d.siteServices :
       DOMAIN d.siteServices[u] = {"machine", "profile", "service", "role", "observers", "freshFor"}

LEMMA TopKeyRefused ==
  ASSUME NEW d, DescriptorValid(d), Keyed(d), NEW role,
         NEW key \in {"project", "environment", "site", "machine", "profile", "ip",
                      "services", "siteServices", "machineEvents", "primary"}
  PROVE  ~ Starts(Truncated(Wire(d), <<key>>), role)
<1> DEFINE wire == Truncated(Wire(d), <<key>>)
           e == wire.value
<1> SUFFICES ASSUME Starts(wire, role) PROVE FALSE
  OBVIOUS
<1>1. Len(<<key>>) = 1 /\ <<key>>[1] = key
  OBVIOUS
<1>2. e = [d EXCEPT ![key] = ZeroOf(key)] /\ wire.missing = {<<key>>}
  BY <1>1, PutOne DEF Truncated, Wire
<1> HIDE DEF wire
<1>3. key \in DOMAIN d
  BY DEF Keyed
<1>4. Decodes(wire) /\ HealthDecodes(e) /\ ViewBuilds(e) /\ MonitorStarts(e)
  BY DEF Starts, Decodes
<1>5. CASE key \in {"project", "environment", "site", "machine"}
  <2>1. e[key] = BlankText
    BY <1>2, <1>3, <1>5, LostReadsAs
  <2> QED  BY <1>4, <1>5, <2>1, BlankTextIsBlank DEF ViewBuilds
<1>6. CASE key = "ip"
  <2>1. e.ip = BlankText
    BY <1>2, <1>3, <1>6, LostReadsAs
  <2> QED  BY <1>4, <2>1, BlankTextIsBlank DEF MonitorStarts
<1>7. CASE key \in {"services", "siteServices"}
  <2>1. e[key] = << >>
    BY <1>2, <1>3, <1>7, LostReadsAs
  <2> QED  BY <1>4, <1>7, <2>1 DEF HealthDecodes
<1>8. CASE key \in {"machineEvents", "primary"}
  BY <1>2, <1>4, <1>8 DEF Decodes, Present
<1>9. CASE key = "profile"
  <2>1. e.profile = BlankText
    BY <1>2, <1>3, <1>9, LostReadsAs
  <2>2. e.services = d.services
    BY <1>2, <1>9 DEF Keyed
  <2>3. PICK i \in DOMAIN e.services : TRUE
    BY <2>2 DEF Keyed
  <2>4. PICK u \in OwnUnits(e) : e.siteServices[u].profile = Trim(e.profile)
    BY <1>4, <2>3 DEF HealthDecodes, HalvesAgree
  <2>5. u \in DOMAIN e.siteServices
    BY DEF OwnUnits
  <2>6. ~ Blank(e.siteServices[u].profile)
    BY <1>4, <2>5 DEF HealthDecodes, UnitDescribed, Tidy
  <2> QED  BY <2>1, <2>4, <2>6, BlankTextIsBlank
<1> QED  BY <1>5, <1>6, <1>7, <1>8, <1>9

\* A descriptor that lost a key of the standby's or the lease is still read as
\* one with a standby: the lease is there.
LEMMA StandbyKept ==
  ASSUME NEW d, DescriptorValid(d), Keyed(d), HasStandby(d), NEW role, NEW path,
         Len(path) \in Nat, Len(path) > 0, path[1] # "lease",
         Starts(Truncated(Wire(d), path), role)
  PROVE  HasStandby(Truncated(Wire(d), path).value)
<1> DEFINE wire == Truncated(Wire(d), path)
<1>1. wire.value = Put(d, path, ZeroOf(path[Len(path)]))
  BY DEF Truncated, Wire
<1> HIDE DEF wire
<1>2. wire.value.lease = d.lease
  BY <1>1, PutFirst DEF Keyed
<1>3. d.lease # Absent
  BY DEF DescriptorValid, LeaseComplete
<1>4. LeaseFieldsPresent(wire)
  BY DEF Starts, Decodes, wire
<1>5. HasStandby(wire.value)
  BY <1>2, <1>3, <1>4 DEF LeaseFieldsPresent
<1> QED  BY <1>5 DEF wire

LEMMA InstanceKeyRefused ==
  ASSUME NEW d, DescriptorValid(d), Keyed(d), NEW role,
         NEW which \in SetOf(DeployedRoles(d)), NEW path, Len(path) \in Nat, Len(path) > 0,
         path[1] = which,
         \/ \E key \in {"events", "state", "log", "api", "readHeader", "shutdown", "nats"} :
              path = <<which, key>>
         \/ \E key \in {"server", "cluster", "address"} : path = <<which, "nats", key>>
  PROVE  ~ Starts(Truncated(Wire(d), path), role)
<1> DEFINE wire == Truncated(Wire(d), path)
<1> SUFFICES ASSUME Starts(wire, role) PROVE FALSE
  OBVIOUS
<1>1. wire.missing = {path}
  BY DEF Truncated, Wire
<1>2. which = "standby" => HasStandby(d)
  BY DeployedSet
<1>3. which \in {"primary", "standby"}
  BY DeployedSet
<1>4. which = "standby" => HasStandby(wire.value)
  BY <1>2, StandbyKept
<1> HIDE DEF wire
<1>5. InstanceFieldsPresent(wire, which)
  BY <1>3, <1>4 DEF Starts, Decodes
<1>6. ~ Present(wire, path)
  BY <1>1 DEF Present
<1> QED  BY <1>5, <1>6 DEF InstanceFieldsPresent

LEMMA StandbyKeyRefused ==
  ASSUME NEW d, DescriptorValid(d), Keyed(d), HasStandby(d), NEW role
  PROVE  /\ ~ Starts(Truncated(Wire(d), <<"standby">>), role)
         /\ ~ Starts(Truncated(Wire(d), <<"lease">>), role)
         /\ \A key \in {"file", "duration", "renewal", "healthCheck", "failback"} :
              ~ Starts(Truncated(Wire(d), <<"lease", key>>), role)
<1>1. d.lease # Absent
  BY DEF DescriptorValid, LeaseComplete
<1>2. ASSUME NEW key \in {"standby", "lease"}, Starts(Truncated(Wire(d), <<key>>), role)
      PROVE  FALSE
  <2> DEFINE wire == Truncated(Wire(d), <<key>>)
  <2>1. Len(<<key>>) = 1 /\ <<key>>[1] = key
    OBVIOUS
  <2>2. wire.value = [d EXCEPT ![key] = ZeroOf(key)]
    BY <2>1, PutOne DEF Truncated, Wire
  <2>3. LeaseFieldsPresent(wire)
    BY <1>2 DEF Starts, Decodes
  <2>4. ZeroOf(key) = Absent
    BY LostReadsAs
  <2> HIDE DEF wire
  <2>5. wire.value[key] = Absent
    BY <2>2, <2>4 DEF Keyed
  <2>6. CASE key = "standby"
    <3>1. wire.value.lease = d.lease
      BY <2>2, <2>6 DEF Keyed
    <3> QED  BY <1>1, <2>3, <2>5, <2>6, <3>1 DEF LeaseFieldsPresent, HasStandby
  <2>7. CASE key = "lease"
    <3>1. wire.value.standby = d.standby
      BY <2>2, <2>7 DEF Keyed
    <3> QED  BY <2>3, <2>5, <2>7, <3>1 DEF LeaseFieldsPresent, HasStandby
  <2> QED  BY <2>6, <2>7
<1>3. ASSUME NEW key \in {"file", "duration", "renewal", "healthCheck", "failback"},
             Starts(Truncated(Wire(d), <<"lease", key>>), role)
      PROVE  FALSE
  <2> DEFINE path == <<"lease", key>>
             wire == Truncated(Wire(d), path)
  <2>1. Len(path) \in Nat /\ Len(path) > 0 /\ path[1] = "lease"
    OBVIOUS
  <2> HIDE DEF path
  <2>2. wire.value = Put(d, path, ZeroOf(path[Len(path)]))
    BY DEF Truncated, Wire
  <2>3. wire.missing = {path}
    BY DEF Truncated, Wire
  <2>4. LeaseFieldsPresent(wire)
    BY <1>3 DEF Starts, Decodes, path
  <2> HIDE DEF wire
  <2>5. wire.value.standby = d.standby
    BY <2>1, <2>2, PutFirst DEF Keyed
  <2>6. HasStandby(wire.value)
    BY <2>5 DEF HasStandby
  <2> QED  BY <2>3, <2>4, <2>6 DEF LeaseFieldsPresent, Present, path
<1> QED  BY <1>2, <1>3

LEMMA ServiceKeyRefused ==
  ASSUME NEW d, Keyed(d), NEW i \in DOMAIN d.services, NEW role
  PROVE  /\ \A key \in {"name", "role"} : ~ Starts(Truncated(Wire(d), <<"services", i, key>>), role)
         /\ \A key \in {"type", "port", "path", "interval", "timeout", "retries"} :
              ~ Starts(Truncated(Wire(d), <<"services", i, "check", key>>), role)
<1>1. ASSUME NEW key \in {"name", "role"}, Starts(Truncated(Wire(d), <<"services", i, key>>), role)
      PROVE  FALSE
  <2> DEFINE path == <<"services", i, key>>
             e == Truncated(Wire(d), path).value
  <2>1. path[Len(path)] = key
    OBVIOUS
  <2>2. e = [d EXCEPT !["services"] = [d.services EXCEPT ![i] = [d.services[i] EXCEPT ![key] = ZeroOf(key)]]]
    BY <2>1, PutThree DEF Truncated, Wire
  <2>3. HealthDecodes(e)
    BY <1>1 DEF Starts, Decodes
  <2> HIDE DEF e
  <2>4. e.services[i][key] = ZeroOf(key) /\ i \in DOMAIN e.services
    BY <2>2 DEF Keyed
  <2>5. Tidy(e.services[i].name) /\ e.services[i].role \in ServiceRoles
    BY <2>3, <2>4 DEF HealthDecodes
  <2>6. CASE key = "name"
    BY <2>4, <2>5, <2>6, LostReadsAs, BlankTextIsBlank DEF Tidy
  <2>7. CASE key = "role"
    BY <2>4, <2>5, <2>7, LostReadsAs DEF ServiceRoles
  <2> QED  BY <2>6, <2>7
<1>2. ASSUME NEW key \in {"type", "port", "path", "interval", "timeout", "retries"},
             Starts(Truncated(Wire(d), <<"services", i, "check", key>>), role)
      PROVE  FALSE
  <2> DEFINE path == <<"services", i, "check", key>>
             e == Truncated(Wire(d), path).value
             check == e.services[i].check
  <2>1. path[Len(path)] = key
    OBVIOUS
  <2>2. e = [d EXCEPT !["services"] = [d.services EXCEPT ![i] =
               [d.services[i] EXCEPT !["check"] = [d.services[i].check EXCEPT ![key] = ZeroOf(key)]]]]
    BY <2>1, PutFour DEF Truncated, Wire
  <2>3. HealthDecodes(e)
    BY <1>2 DEF Starts, Decodes
  <2> HIDE DEF e
  <2>4. check[key] = ZeroOf(key) /\ i \in DOMAIN e.services
    BY <2>2 DEF Keyed
  <2>5. ProbeRunnable(check)
    BY <2>3, <2>4 DEF HealthDecodes
  <2> HIDE DEF check
  <2>6. CASE key = "port"
    <3>1. check.port = 0
      BY <2>4, <2>6, LostReadsAs
    <3>2. check.port \in 1 .. MaxPort
      BY <2>5 DEF ProbeRunnable, ValidPort
    <3>3. MaxPort \in Nat
      BY BlueprintAssumption
    <3> QED  BY <3>1, <3>2, <3>3
  <2>7. CASE key = "retries"
    <3>1. check.retries = 0
      BY <2>4, <2>7, LostReadsAs
    <3> QED  BY <2>5, <3>1 DEF ProbeRunnable
  <2>8. CASE key \in {"interval", "timeout"}
    <3>1. check[key] = Malformed
      BY <2>4, <2>8, LostReadsAs
    <3> QED  BY <2>5, <2>8, <3>1 DEF ProbeRunnable, Positive
  <2>9. CASE key \in {"type", "path"}
    <3>1. check[key] = ""
      BY <2>4, <2>9, LostReadsAs
    <3>2. check.type = "http" /\ check.path \in RequestTargets
      BY <2>5 DEF ProbeRunnable
    <3> QED  BY <2>9, <3>1, <3>2, BlueprintAssumption
  <2> QED  BY <2>6, <2>7, <2>8, <2>9
<1> QED  BY <1>1, <1>2

LEMMA UnitKeyRefused ==
  ASSUME NEW d, Keyed(d), NEW u \in DOMAIN d.siteServices, NEW role,
         NEW key \in {"machine", "profile", "service", "role", "observers", "freshFor"}
  PROVE  ~ Starts(Truncated(Wire(d), <<"siteServices", u, key>>), role)
<1> DEFINE path == <<"siteServices", u, key>>
           e == Truncated(Wire(d), path).value
           unit == e.siteServices[u]
<1> SUFFICES ASSUME Starts(Truncated(Wire(d), path), role) PROVE FALSE
  OBVIOUS
<1>1. path[Len(path)] = key
  OBVIOUS
<1>2. e = [d EXCEPT !["siteServices"] =
             [d.siteServices EXCEPT ![u] = [d.siteServices[u] EXCEPT ![key] = ZeroOf(key)]]]
  BY <1>1, PutThree DEF Truncated, Wire
<1>3. HealthDecodes(e)
  BY DEF Starts, Decodes
<1> HIDE DEF e
<1>4. unit[key] = ZeroOf(key) /\ u \in DOMAIN e.siteServices
  BY <1>2 DEF Keyed
<1>5. UnitDescribed(unit)
  BY <1>3, <1>4 DEF HealthDecodes
<1> HIDE DEF unit
<1>6. CASE key \in {"machine", "profile", "service"}
  <2>1. unit[key] = BlankText
    BY <1>4, <1>6, LostReadsAs
  <2> QED  BY <1>5, <1>6, <2>1, BlankTextIsBlank DEF UnitDescribed, Tidy
<1>7. CASE key = "role"
  <2>1. unit.role = ""
    BY <1>4, <1>7, LostReadsAs
  <2> QED  BY <1>5, <2>1 DEF UnitDescribed, ServiceRoles
<1>8. CASE key = "observers"
  <2>1. unit.observers = << >>
    BY <1>4, <1>8, LostReadsAs
  <2> QED  BY <1>5, <2>1 DEF UnitDescribed
<1>9. CASE key = "freshFor"
  <2>1. unit.freshFor = Malformed
    BY <1>4, <1>9, LostReadsAs
  <2> QED  BY <1>5, <2>1 DEF UnitDescribed, Positive
<1> QED  BY <1>6, <1>7, <1>8, <1>9

\* Every unit of a site's inventory was put there with all its keys.
LEMMA UnitsKeyed ==
  ASSUME NEW site \in SiteBlocks, NEW unit \in SetOf(SiteServices(site))
  PROVE  DOMAIN unit = {"machine", "profile", "service", "role", "observers", "freshFor"}
<1>1. PICK m \in DOMAIN site.machines : \E i \in DOMAIN site.machines[m].services :
        unit = UnitOf(site.machines[m], site.machines[m].services[i])
  BY UnitsFrom
<1> QED  BY <1>1 DEF UnitOf

LEMMA PlannedKeyed ==
  ASSUME NEW p \in Projects, Resolves(p), NEW place \in Places(p)
  PROVE  Keyed(DescriptorOf(p, place))
<1> DEFINE d == DescriptorOf(p, place)
           site == p.sites[place[1]]
           machine == MachineAt(p, place)
<1>1. site \in SiteBlocks /\ machine \in MachineBlocks /\ MachineAccepted(machine)
  BY PlaceFacts DEF Resolves
<1>2. DOMAIN d = {"project", "environment", "site", "machine", "profile", "ip", "services",
                  "siteServices", "machineEvents", "primary", "standby", "lease"}
  BY DEF DescriptorOf
<1>3. /\ d.services = [i \in DOMAIN machine.services |-> [machine.services[i] EXCEPT !.name = Trim(@)]]
      /\ d.siteServices = SiteServices(site)
  BY DEF DescriptorOf, Inventory
<1> HIDE DEF d, machine, site
<1>4. machine.services \in Seq(ServiceBlocks) /\ machine.services # << >>
  BY <1>1 DEF MachineBlocks, MachineAccepted, MachineServicesAccepted
<1>5. DOMAIN d.services # {}
  BY <1>3, <1>4
<1>6. ASSUME NEW i \in DOMAIN d.services
      PROVE  /\ DOMAIN d.services[i] = {"name", "role", "check"}
             /\ DOMAIN d.services[i].check = {"type", "port", "path", "interval", "timeout", "retries"}
  <2>1. i \in DOMAIN machine.services
    BY <1>3
  <2>2. machine.services[i] \in ServiceBlocks
    BY <1>4, <2>1
  <2>3. d.services[i] = [machine.services[i] EXCEPT !.name = Trim(@)]
    BY <1>3, <2>1
  <2>4. machine.services[i].check \in Checks
    BY <2>2 DEF ServiceBlocks
  <2>5. d.services[i].check = machine.services[i].check
    BY <2>2, <2>3 DEF ServiceBlocks
  <2>6. DOMAIN machine.services[i] = {"name", "role", "check"}
    BY <2>2 DEF ServiceBlocks
  <2>7. DOMAIN machine.services[i].check = {"type", "port", "path", "interval", "timeout", "retries"}
    BY <2>4 DEF Checks
  <2> QED  BY <2>3, <2>5, <2>6, <2>7
<1>7. ASSUME NEW u \in DOMAIN d.siteServices
      PROVE  DOMAIN d.siteServices[u] = {"machine", "profile", "service", "role", "observers", "freshFor"}
  BY <1>1, <1>3, <1>7, UnitsKeyed DEF SetOf
<1> QED  BY <1>2, <1>5, <1>6, <1>7 DEF Keyed, d

LEMMA PlannedRefuses == PlanSound => TruncatedDescriptorsAreRefused
<1> SUFFICES ASSUME PlanSound, Planned, NEW place \in Machines,
                    NEW role \in SetOf(DeployedRoles(plan[place])), NEW key \in GuardedKeys(plan[place])
             PROVE  ~ Starts(Truncated(Wire(plan[place]), key), role)
  BY DEF TruncatedDescriptorsAreRefused
<1> DEFINE d == plan[place]
<1>1. /\ project \in Projects /\ Resolves(project) /\ place \in Places(project)
      /\ d = DescriptorOf(project, place) /\ DescriptorValid(d)
  BY PlannedPlace DEF Resolves
<1>2. Keyed(d)
  BY <1>1, PlannedKeyed
<1> HIDE DEF d
<1>3. CASE \E k \in {"project", "environment", "site", "machine", "profile", "ip",
                     "services", "siteServices", "machineEvents", "primary"} : key = <<k>>
  BY <1>1, <1>2, <1>3, TopKeyRefused DEF d
<1>4. CASE \E which \in SetOf(DeployedRoles(d)),
              k \in {"events", "state", "log", "api", "readHeader", "shutdown", "nats"} : key = <<which, k>>
  <2>1. PICK which \in SetOf(DeployedRoles(d)),
             k \in {"events", "state", "log", "api", "readHeader", "shutdown", "nats"} : key = <<which, k>>
    BY <1>4
  <2>2. Len(key) \in Nat /\ Len(key) > 0 /\ key[1] = which
    BY <2>1
  <2> QED  BY <1>1, <1>2, <2>1, <2>2, InstanceKeyRefused DEF d
<1>5. CASE \E which \in SetOf(DeployedRoles(d)), k \in {"server", "cluster", "address"} :
             key = <<which, "nats", k>>
  <2>1. PICK which \in SetOf(DeployedRoles(d)), k \in {"server", "cluster", "address"} :
          key = <<which, "nats", k>>
    BY <1>5
  <2>2. Len(key) \in Nat /\ Len(key) > 0 /\ key[1] = which
    BY <2>1
  <2> QED  BY <1>1, <1>2, <2>1, <2>2, InstanceKeyRefused DEF d
<1>6. CASE \/ \E i \in DOMAIN d.services, k \in {"name", "role"} : key = <<"services", i, k>>
           \/ \E i \in DOMAIN d.services,
                 k \in {"type", "port", "path", "interval", "timeout", "retries"} :
                key = <<"services", i, "check", k>>
  BY <1>2, <1>6, ServiceKeyRefused DEF d
<1>7. CASE \E u \in DOMAIN d.siteServices,
              k \in {"machine", "profile", "service", "role", "observers", "freshFor"} :
             key = <<"siteServices", u, k>>
  BY <1>2, <1>7, UnitKeyRefused DEF d
<1>8. CASE /\ HasStandby(d)
           /\ \/ key = <<"standby">> \/ key = <<"lease">>
              \/ \E k \in {"file", "duration", "renewal", "healthCheck", "failback"} : key = <<"lease", k>>
  BY <1>1, <1>2, <1>8, StandbyKeyRefused DEF d
<1> QED  BY <1>3, <1>4, <1>5, <1>6, <1>7, <1>8 DEF GuardedKeys, d

\* An older or damaged descriptor is refused at start, whichever instance reads
\* it: UnmarshalJSON and the platform's own validation together leave no key
\* something is decided from to be read as its zero value.
THEOREM TruncatedRefused == Spec => []TruncatedDescriptorsAreRefused
BY PlanStaysSound, PlannedRefuses, PTL

=============================================================================
