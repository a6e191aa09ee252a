--------------------------- MODULE OwnershipProofs ---------------------------
(***************************************************************************)
(* Theorems about the module Ownership, for every value of its constants:  *)
(* its types; that a released record never stands while its writer's       *)
(* Active composition is open; that the two instances keep the promise of  *)
(* the module Handover; and what the grants and their timings secure.      *)
(*                                                                         *)
(* The type invariant is split by variable, because each move shared by    *)
(* the actions changes one variable or three; a lemma per move says that   *)
(* it keeps them typed, and a step per action puts the lemmas together.    *)
(* The handover rests on OwnGrantIsLive, inductive together with the types.*)
(***************************************************************************)
EXTENDS Ownership, TLAPS

MainOK  == main \in [Roles -> MainStates]
LeaseOK == lease \in [Roles -> LeaseStates]
LoopsOK == loops \in [Roles -> LoopStates]

Typed == MainOK /\ LeaseOK /\ LoopsOK

EnvOK ==
  /\ stall \in [Roles -> 0..MaxStall]
  /\ outage \in [Roles -> BOOLEAN]
  /\ faults \in 0..MaxFaults

HistoryOK ==
  /\ lost \in BOOLEAN
  /\ overlap \in 0..OverlapCap
  /\ account \in [Roles -> BOOLEAN]

(***************************************************************************)
(* Values.                                                                 *)
(***************************************************************************)

\* The values the actions write are of the types they are written to.
LEMMA Literals ==
  /\ NoGrant \in Grants
  /\ Down \in MainStates
  /\ NoHandle \in LeaseStates
  /\ NoLoops \in LoopStates
  /\ 0 \in Instants
  /\ 0 \in -Horizon..0
  /\ -Horizon..0 \subseteq Instants
  /\ {-1, 0} \subseteq -1..FailbackStabilization
  /\ {0, ShutdownTimeout} \subseteq 0..ShutdownTimeout
  /\ {0, RenewalInterval} \subseteq 0..RenewalInterval
  /\ {0, HealthCheckInterval} \subseteq 0..HealthCheckInterval
  /\ 0 \in 0..MaxStall
  /\ 0 \in 0..OverlapCap
  /\ OverlapCap \in Nat
<1> USE LeaseAssumption, OwnershipAssumption
<1>1. NoGrant \in Grants  BY DEF NoGrant, Grants, Instants, Roles
<1>2. Down \in MainStates  BY DEF Down, MainStates, Labels
<1>3. NoHandle \in LeaseStates  BY <1>1 DEF NoHandle, LeaseStates, Instants
<1>4. NoLoops \in LoopStates  BY DEF NoLoops, LoopStates
<1>5. MaxFaults * MaxStall \in Nat OBVIOUS
<1>6. OverlapCap \in Nat  BY <1>5 DEF OverlapCap, OverlapBound
<1>7. QED  BY <1>1, <1>2, <1>3, <1>4, <1>6 DEF Instants

\* The grants written by an acquisition, a renewal and a release are grants,
\* whatever instant not after the present the operation captured.
LEMMA GrantTypes ==
  ASSUME NEW t \in -Horizon..0
  PROVE  /\ \A i \in Roles : Granted(i, t) \in Grants /\ Granted(i, t).expires \in Instants
         /\ \A g \in Grants : Renewed(g, t) \in Grants /\ Renewed(g, t).expires \in Instants
<1>1. t + Duration \in Instants
  BY LeaseAssumption DEF Instants
<1>2. ASSUME NEW i \in Roles
      PROVE  Granted(i, t) \in Grants /\ Granted(i, t).expires \in Instants
  BY <1>1 DEF Granted, Grants
<1>3. ASSUME NEW g \in Grants
      PROVE  Renewed(g, t) \in Grants /\ Renewed(g, t).expires \in Instants
  BY <1>1 DEF Renewed, Grants
<1>4. QED  BY <1>2, <1>3

LEMMA GivenUpType == \A g \in Grants : GivenUp(g) \in Grants
  BY DEF GivenUp, Grants

LEMMA LoopsStartedType == \A i \in Roles : LoopsStarted(i) \in LoopStates
<1>1. ASSUME NEW a \in {0, RenewalInterval}, NEW c \in {0, HealthCheckInterval},
             NEW f \in {"idle", "none"}
      PROVE  [NoLoops EXCEPT !.renewal = "idle", !.renewIn = a,
                             !.failback = f, !.checkIn = c] \in LoopStates
  BY Literals, <1>1 DEF LoopStates
<1>2. QED  BY <1>1 DEF LoopsStarted

\* The passage of time keeps grants, handles, loops and instants typed.
LEMMA OlderType == \A t \in Instants : Older(t) \in Instants
  BY LeaseAssumption DEF Older, Instants

LEMMA OlderPastType == \A t \in -Horizon..0 : Older(t) \in -Horizon..0
  BY LeaseAssumption DEF Older

LEMMA OlderGrantType == \A g \in Grants : OlderGrant(g) \in Grants
<1> SUFFICES ASSUME NEW g \in Grants PROVE OlderGrant(g) \in Grants  OBVIOUS
<1>1. Older(g.expires) \in Instants  BY OlderType DEF Grants
<1>2. QED  BY <1>1 DEF OlderGrant, Grants

LEMMA OlderLeaseType ==
  ASSUME LeaseOK, NEW i \in Roles
  PROVE  OlderLease(i) \in LeaseStates
<1>1. lease[i] \in LeaseStates  BY DEF LeaseOK
<1>2. /\ Older(lease[i].owned) \in Instants
      /\ Older(lease[i].releasedAt) \in -Horizon..0
      /\ Older(lease[i].at) \in -Horizon..0
      /\ OlderGrant(lease[i].seen) \in Grants
  BY <1>1, OlderType, OlderPastType, OlderGrantType DEF LeaseStates
<1>3. QED  BY <1>1, <1>2 DEF OlderLease, LeaseStates

LEMMA OlderLoopsType == \A l \in LoopStates : OlderLoops(l) \in LoopStates
<1> SUFFICES ASSUME NEW l \in LoopStates PROVE OlderLoops(l) \in LoopStates  OBVIOUS
<1> USE LeaseAssumption
<1>1. Rewind(l.renewIn, RenewalInterval) \in 0..RenewalInterval
  BY DEF Rewind, LoopStates
<1>2. Rewind(l.checkIn, HealthCheckInterval) \in 0..HealthCheckInterval
  BY DEF Rewind, LoopStates
<1>3. (IF l.stable = -1 \/ l.stable >= FailbackStabilization
       THEN l.stable ELSE l.stable + 1) \in -1..FailbackStabilization
  BY DEF LoopStates
<1>4. Fires(l.renewIn) \in BOOLEAN /\ Fires(l.checkIn) \in BOOLEAN
  BY DEF Fires
<1>5. QED  BY <1>1, <1>2, <1>3, <1>4 DEF OlderLoops, LoopStates

(***************************************************************************)
(* Moves.                                                                  *)
(***************************************************************************)

\* Replacing one instance's record by one of the same type.
LEMMA SetMain ==
  ASSUME MainOK, NEW i \in Roles, NEW m \in MainStates, main' = [main EXCEPT ![i] = m]
  PROVE  MainOK'
  BY DEF MainOK

LEMMA SetLease ==
  ASSUME LeaseOK, NEW i \in Roles, NEW l \in LeaseStates, lease' = [lease EXCEPT ![i] = l]
  PROVE  LeaseOK'
  BY DEF LeaseOK

LEMMA SetLoops ==
  ASSUME LoopsOK, NEW i \in Roles, NEW l \in LoopStates, loops' = [loops EXCEPT ![i] = l]
  PROVE  LoopsOK'
  BY DEF LoopsOK

\* The records themselves, of a typed state.
LEMMA RecordTypes ==
  ASSUME Typed, NEW i \in Roles
  PROVE  main[i] \in MainStates /\ lease[i] \in LeaseStates /\ loops[i] \in LoopStates
  BY DEF Typed, MainOK, LeaseOK, LoopsOK

LEMMA GotoType ==
  ASSUME MainOK, NEW i \in Roles, NEW l \in Labels, Goto(i, l)
  PROVE  MainOK'
  BY DEF MainOK, Goto, MainStates

LEMMA QuitType ==
  ASSUME MainOK, NEW i \in Roles, main' = [main EXCEPT ![i].quit = TRUE]
  PROVE  MainOK'
  BY DEF MainOK, MainStates

LEMMA RenewalGotoType ==
  ASSUME LoopsOK, NEW i \in Roles, NEW l \in {"idle", "read", "write", "check"},
         loops' = [loops EXCEPT ![i].renewal = l]
  PROVE  LoopsOK'
  BY DEF LoopsOK, LoopStates

LEMMA SeenType ==
  ASSUME LeaseOK, NEW i \in Roles, NEW g \in Grants,
         lease' = [lease EXCEPT ![i].seen = g]
  PROVE  LeaseOK'
  BY DEF LeaseOK, LeaseStates

LEMMA LeaveType ==
  ASSUME Typed, NEW i \in Roles, Leave(i)
  PROVE  Typed'
  BY Literals, SetMain, SetLease, SetLoops DEF Typed, Leave

LEMMA EndOperationType ==
  ASSUME LeaseOK, NEW i \in Roles, EndOperation(i)
  PROVE  LeaseOK'
<1>1. [lease[i] EXCEPT !.at = 0, !.seen = NoGrant] \in LeaseStates
  BY Literals DEF LeaseOK, LeaseStates
<1>2. QED  BY <1>1, SetLease DEF EndOperation

LEMMA EnterPassiveType ==
  ASSUME Typed, NEW i \in Roles, EnterPassive(i)
  PROVE  Typed'
<1>1. LeaseOK'  BY EndOperationType DEF EnterPassive, Typed
<1>2. main[i].stopping \in BOOLEAN  BY RecordTypes DEF MainStates
<1>3. [Down EXCEPT !.pc = "waiting", !.passive = "running",
                   !.stopping = main[i].stopping] \in MainStates
  BY Literals, <1>2 DEF MainStates, Labels
<1>4. MainOK'  BY <1>3, SetMain DEF EnterPassive, Typed
<1>5. [NoLoops EXCEPT !.checkIn = HealthCheckInterval] \in LoopStates
  BY Literals DEF LoopStates
<1>6. LoopsOK'  BY <1>5, SetLoops DEF EnterPassive, Typed
<1>7. QED  BY <1>1, <1>4, <1>6 DEF Typed

LEMMA NotAcquiredType ==
  ASSUME Typed, NEW i \in Roles, NotAcquired(i)
  PROVE  Typed'
<1>1. CASE main[i].passive = "none"
  BY <1>1, EnterPassiveType DEF NotAcquired
<1>2. CASE main[i].passive # "none"
  <2>1. Goto(i, "waiting") /\ EndOperation(i) /\ UNCHANGED loops
    BY <1>2 DEF NotAcquired
  <2>2. MainOK'  BY <2>1, GotoType DEF Typed, Labels
  <2>3. LeaseOK'  BY <2>1, EndOperationType DEF Typed
  <2>4. LoopsOK'  BY <2>1 DEF LoopsOK, Typed
  <2>5. QED  BY <2>2, <2>3, <2>4 DEF Typed
<1>3. QED  BY <1>1, <1>2

LEMMA AcquireFailsType ==
  ASSUME Typed, NEW i \in Roles, AcquireFails(i)
  PROVE  Typed'
  BY LeaveType, NotAcquiredType DEF AcquireFails

LEMMA ReleaseFailsType ==
  ASSUME Typed, NEW i \in Roles, ReleaseFails(i)
  PROVE  MainOK' /\ LeaseOK'
<1> DEFINE m == [main[i] EXCEPT !.pc = "ended",
                                !.failed = IF @ = "none" THEN "release" ELSE @]
<1>1. m \in MainStates
  BY RecordTypes DEF MainStates, Labels
<1>2. MainOK'
  <2>1. main' = [main EXCEPT ![i] = m]  BY DEF ReleaseFails
  <2> HIDE DEF m
  <2>2. QED  BY <1>1, <2>1, SetMain DEF Typed
<1>3. LeaseOK'  BY EndOperationType DEF ReleaseFails, Typed
<1>4. QED  BY <1>2, <1>3

LEMMA StopRenewalType ==
  ASSUME Typed, NEW i \in Roles, StopRenewal(i)
  PROVE  LoopsOK'
<1>1. [loops[i] EXCEPT !.renewal = "none", !.renewIn = 0, !.renewDue = FALSE]
        \in LoopStates
  BY Literals, RecordTypes DEF LoopStates
<1>2. QED  BY <1>1, SetLoops DEF StopRenewal, Typed

LEMMA StopFailbackType ==
  ASSUME Typed, NEW i \in Roles, StopFailback(i)
  PROVE  LoopsOK'
<1>1. [loops[i] EXCEPT !.failback = "none", !.stable = -1,
                       !.checkIn = 0, !.checkDue = FALSE] \in LoopStates
  BY Literals, RecordTypes DEF LoopStates
<1>2. QED  BY <1>1, SetLoops DEF StopFailback, Typed

\* The budget of faults never goes below zero.
LEMMA SpendType ==
  ASSUME faults \in 0..MaxFaults, NEW kind, Spend(kind) \/ UNCHANGED faults
  PROVE  faults' \in 0..MaxFaults
  BY OwnershipAssumption DEF Spend

LEMMA FaultsType ==
  ASSUME faults \in 0..MaxFaults, NEW i \in Roles, NEW c,
         \/ Refused(i) \/ Recorded(i)
         \/ PeerHealthy(i, c) \/ PeerUnhealthy(i, c)
  PROVE  faults' \in 0..MaxFaults
  BY SpendType DEF Refused, Recorded, PeerHealthy, PeerUnhealthy

\* What a step that leaves the environment, or the history, alone keeps.
LEMMA EnvUnchanged ==
  ASSUME EnvOK, stall' = stall, outage' = outage, faults' \in 0..MaxFaults
  PROVE  EnvOK'
  BY DEF EnvOK

LEMMA HistoryUnchanged ==
  ASSUME HistoryOK, UNCHANGED history
  PROVE  HistoryOK'
  BY DEF HistoryOK, history

LEMMA PutType ==
  ASSUME HistoryOK, NEW i \in Roles, NEW g \in Grants, Put(i, g)
  PROVE  file' \in Grants /\ HistoryOK'
  BY DEF Put, HistoryOK

(***************************************************************************)
(* The type invariant, action by action.                                   *)
(***************************************************************************)
AllTyped == file \in Grants /\ Typed /\ EnvOK /\ HistoryOK

LEMMA TypeParts == AllTyped <=> TypeOK
  BY DEF AllTyped, TypeOK, Typed, MainOK, LeaseOK, LoopsOK, EnvOK, HistoryOK

\* Most actions leave the file, the environment and the history alone, up to
\* one unit of the budget of faults.
LEMMA LocalType ==
  ASSUME AllTyped, Typed', faults' \in 0..MaxFaults,
         UNCHANGED <<file, stall, outage, history>>
  PROVE  AllTyped'
  BY EnvUnchanged, HistoryUnchanged DEF AllTyped

\* An unchanged variable keeps its type.
LEMMA SameType ==
  /\ MainOK /\ UNCHANGED main => MainOK'
  /\ LeaseOK /\ UNCHANGED lease => LeaseOK'
  /\ LoopsOK /\ UNCHANGED loops => LoopsOK'
  /\ EnvOK /\ UNCHANGED env => EnvOK'
  BY DEF MainOK, LeaseOK, LoopsOK, EnvOK, env

\* A step that only moves main's goroutine.
LEMMA GotoOnly ==
  ASSUME Typed, NEW i \in Roles, NEW l \in Labels, Goto(i, l), UNCHANGED <<lease, loops>>
  PROVE  Typed'
  BY GotoType, SameType DEF Typed

\* The steps of tryAcquire and of the promotion loop keep the types.
LEMMA AcquireType ==
  ASSUME AllTyped, NEW i \in Roles,
         \/ Start(i) \/ LoopTop(i) \/ AcquireRead(i) \/ AcquireWrite(i)
         \/ AcquireConfirm(i) \/ WaitStopped(i) \/ PassiveFails(i)
         \/ PromotionTick(i) \/ Observe(i) \/ Probe(i)
  PROVE  AllTyped'
<1> USE DEF AllTyped
<1>0. faults \in 0..MaxFaults  BY DEF EnvOK
<1>1. CASE Start(i)
  <2>1. Typed'  BY <1>1, GotoOnly DEF Start, Labels
  <2>2. QED  BY <1>1, <1>0, <2>1, LocalType DEF Start, env
<1>2. CASE LoopTop(i)
  <2>1. Typed'
    BY <1>2, GotoOnly, LeaveType, EnterPassiveType DEF LoopTop, Labels
  <2>2. faults' \in 0..MaxFaults  BY <1>2, <1>0, FaultsType DEF LoopTop
  <2>3. QED  BY <1>2, <2>1, <2>2, LocalType DEF LoopTop
<1>3. CASE AcquireRead(i)
  <2>1. ASSUME Goto(i, "write"), lease' = [lease EXCEPT ![i].seen = file], UNCHANGED loops
        PROVE  Typed'
    BY <2>1, GotoType, SeenType, SameType DEF Typed, Labels
  <2>2. Typed'
    BY <1>3, <2>1, AcquireFailsType, NotAcquiredType DEF AcquireRead
  <2>3. QED  BY <1>3, <1>0, <2>2, LocalType DEF AcquireRead, env
<1>4. CASE AcquireWrite(i)
  <2>1. EnvOK'  BY <1>4, SameType DEF AcquireWrite
  <2>2. CASE AcquireFails(i) /\ UNCHANGED <<file, history>>
    BY <2>1, <2>2, AcquireFailsType, HistoryUnchanged
  <2>3. CASE Put(i, Granted(i, lease[i].at)) /\ Goto(i, "confirm") /\ UNCHANGED <<lease, loops>>
    <3>1. lease[i].at \in -Horizon..0  BY RecordTypes DEF LeaseStates
    <3>2. Granted(i, lease[i].at) \in Grants  BY <3>1, GrantTypes
    <3>3. Typed'  BY <2>3, GotoOnly DEF Labels
    <3>4. QED  BY <2>1, <2>3, <3>2, <3>3, PutType
  <2>4. QED  BY <1>4, <2>2, <2>3 DEF AcquireWrite
<1>5. CASE AcquireConfirm(i)
  <2>1. ASSUME main' = [main EXCEPT ![i] = [@ EXCEPT !.pc = "acquired", !.passive = "none"]],
               lease' = [lease EXCEPT ![i] =
                           [@ EXCEPT !.held = TRUE,
                                     !.owned = Granted(i, lease[i].at).expires,
                                     !.at = 0, !.seen = NoGrant]],
               loops' = [loops EXCEPT ![i] = NoLoops]
        PROVE  Typed'
    <3>1. [main[i] EXCEPT !.pc = "acquired", !.passive = "none"] \in MainStates
      BY RecordTypes DEF MainStates, Labels
    <3>2. lease[i].at \in -Horizon..0  BY RecordTypes DEF LeaseStates
    <3>3. Granted(i, lease[i].at).expires \in Instants  BY <3>2, GrantTypes
    <3>4. [lease[i] EXCEPT !.held = TRUE, !.owned = Granted(i, lease[i].at).expires,
                           !.at = 0, !.seen = NoGrant] \in LeaseStates
      BY <3>3, Literals, RecordTypes DEF LeaseStates
    <3>5. QED  BY <2>1, <3>1, <3>4, Literals, SetMain, SetLease, SetLoops DEF Typed
  <2>2. Typed'
    BY <1>5, <2>1, AcquireFailsType, NotAcquiredType, LeaveType DEF AcquireConfirm
  <2>3. QED  BY <1>5, <1>0, <2>2, LocalType DEF AcquireConfirm, env
<1>6. CASE WaitStopped(i)
  <2>1. Typed'  BY <1>6, LeaveType DEF WaitStopped
  <2>2. QED  BY <1>6, <1>0, <2>1, LocalType DEF WaitStopped, env
<1>7. CASE PassiveFails(i)
  <2>1. MainOK'  BY <1>7 DEF PassiveFails, Typed, MainOK, MainStates
  <2>2. Typed'  BY <1>7, <2>1, SameType DEF PassiveFails, Typed
  <2>3. faults' \in 0..MaxFaults  BY <1>7, <1>0, SpendType DEF PassiveFails
  <2>4. QED  BY <1>7, <2>2, <2>3, LocalType DEF PassiveFails
<1>8. CASE PromotionTick(i)
  <2>1. LoopsOK'  BY <1>8 DEF PromotionTick, Typed, LoopsOK, LoopStates
  <2>2. Typed'  BY <1>8, <2>1, GotoType, SameType DEF PromotionTick, Typed, Labels
  <2>3. QED  BY <1>8, <1>0, <2>2, LocalType DEF PromotionTick, env
<1>9. CASE Observe(i)
  <2>1. Typed'  BY <1>9, GotoOnly, NotAcquiredType DEF Observe, Labels
  <2>2. QED  BY <1>9, <1>0, <2>1, LocalType DEF Observe, env
<1>10. CASE Probe(i)
  <2>1. Typed'  BY <1>10, GotoOnly, NotAcquiredType DEF Probe, Labels
  <2>2. faults' \in 0..MaxFaults  BY <1>10, <1>0, FaultsType DEF Probe
  <2>3. QED  BY <1>10, <2>1, <2>2, LocalType DEF Probe
<1>11. QED
  BY <1>1, <1>2, <1>3, <1>4, <1>5, <1>6, <1>7, <1>8, <1>9, <1>10

\* The steps of activate keep the types.
LEMMA ActivateType ==
  ASSUME AllTyped, NEW i \in Roles,
         \/ AnnounceOwnership(i) \/ StartActivation(i) \/ BeginActive(i)
         \/ EndActive(i) \/ EndDrain(i) \/ Join(i)
         \/ ReleaseRead(i) \/ ReleaseWrite(i) \/ EndActivation(i)
  PROVE  AllTyped'
<1> USE DEF AllTyped
<1>0. faults \in 0..MaxFaults  BY DEF EnvOK
<1>a. ASSUME NEW m \in MainStates, main' = [main EXCEPT ![i] = m], UNCHANGED <<lease, loops>>
      PROVE  Typed'
  BY <1>a, SetMain, SameType DEF Typed
<1>1. CASE AnnounceOwnership(i)
  <2>1. Typed'  BY <1>1, GotoOnly, LeaveType DEF AnnounceOwnership, Labels
  <2>2. faults' \in 0..MaxFaults  BY <1>1, <1>0, FaultsType DEF AnnounceOwnership
  <2>3. QED  BY <1>1, <2>1, <2>2, LocalType DEF AnnounceOwnership
<1>2. CASE StartActivation(i)
  <2>1. ASSUME Goto(i, "activating"), loops' = [loops EXCEPT ![i] = LoopsStarted(i)],
               UNCHANGED lease
        PROVE  Typed'
    BY <2>1, GotoType, SetLoops, LoopsStartedType, SameType DEF Typed, Labels
  <2>2. Typed'  BY <1>2, <2>1, LeaveType DEF StartActivation
  <2>3. faults' \in 0..MaxFaults  BY <1>2, <1>0, FaultsType DEF StartActivation
  <2>4. EnvOK'  BY <1>2, <2>3, EnvUnchanged DEF StartActivation
  <2>5. HistoryOK'  BY <1>2 DEF StartActivation, HistoryOK, history
  <2>6. QED  BY <1>2, <2>2, <2>4, <2>5 DEF StartActivation
<1>3. CASE BeginActive(i)
  <2>1. [main[i] EXCEPT !.pc = "joining", !.failed = "active", !.quit = TRUE] \in MainStates
    BY RecordTypes DEF MainStates, Labels
  <2>2. Typed'  BY <1>3, <1>a, <2>1, GotoOnly DEF BeginActive, Labels
  <2>3. faults' \in 0..MaxFaults  BY <1>3, <1>0, SpendType DEF BeginActive
  <2>4. EnvOK'  BY <1>3, <2>3, EnvUnchanged DEF BeginActive
  <2>5. HistoryOK'  BY <1>3, Literals DEF BeginActive, HistoryOK
  <2>6. QED  BY <1>3, <2>2, <2>4, <2>5 DEF BeginActive
<1>4. CASE EndActive(i)
  <2>1. /\ [main[i] EXCEPT !.pc = "draining", !.drain = ShutdownTimeout] \in MainStates
        /\ [main[i] EXCEPT !.pc = "draining", !.drain = ShutdownTimeout,
                           !.failed = "active"] \in MainStates
    BY RecordTypes, Literals DEF MainStates, Labels
  <2>2. Typed'  BY <1>4, <1>a, <2>1 DEF EndActive
  <2>3. faults' \in 0..MaxFaults  BY <1>4, <1>0, SpendType DEF EndActive
  <2>4. QED  BY <1>4, <2>2, <2>3, LocalType DEF EndActive
<1>5. CASE EndDrain(i)
  <2>1. PICK failing \in BOOLEAN :
          /\ IF failing THEN (main[i].drain = 0 /\ Spend("request")) \/ Spend("store")
                        ELSE UNCHANGED faults
          /\ main' = [main EXCEPT ![i] =
                        [@ EXCEPT !.pc = "joining", !.quit = TRUE, !.drain = 0,
                                  !.failed = IF failing THEN "active" ELSE main[i].failed]]
    BY <1>5 DEF EndDrain
  <2>2. [main[i] EXCEPT !.pc = "joining", !.quit = TRUE, !.drain = 0,
                        !.failed = IF failing THEN "active" ELSE main[i].failed]
          \in MainStates
    BY RecordTypes, Literals DEF MainStates, Labels
  <2>3. Typed'  BY <1>5, <1>a, <2>1, <2>2 DEF EndDrain
  <2>4. faults' \in 0..MaxFaults  BY <2>1, <1>0, SpendType
  <2>5. EnvOK'  BY <1>5, <2>4, EnvUnchanged DEF EndDrain
  <2>6. HistoryOK'  BY <1>5, Literals DEF EndDrain, HistoryOK
  <2>7. QED  BY <1>5, <2>3, <2>5, <2>6 DEF EndDrain
<1>6. CASE Join(i)
  <2>1. [lease[i] EXCEPT !.held = FALSE, !.owned = 0] \in LeaseStates
    BY RecordTypes, Literals DEF LeaseStates
  <2>2. LeaseOK'  BY <1>6, <2>1, SetLease DEF Join, Typed
  <2>3. MainOK'  BY <1>6, GotoType DEF Join, Typed, Labels
  <2>4. LoopsOK'  BY <1>6, Literals, SetLoops DEF Join, Typed
  <2>5. QED  BY <1>6, <1>0, <2>2, <2>3, <2>4, LocalType DEF Join, Typed, env
<1>7. CASE ReleaseRead(i)
  <2>1. ASSUME NEW l \in {"ended", "releaseWrite"}, Goto(i, l) PROVE MainOK'
    BY <2>1, GotoType DEF Typed, Labels
  <2>2. ASSUME lease' = [lease EXCEPT ![i].at = 0] PROVE LeaseOK'
    BY <2>2, Literals DEF Typed, LeaseOK, LeaseStates
  <2>3. MainOK' /\ LeaseOK'
    BY <1>7, <2>1, <2>2, ReleaseFailsType, SeenType DEF ReleaseRead, Typed
  <2>4. LoopsOK'  BY <1>7, SameType DEF ReleaseRead, Typed
  <2>5. QED  BY <1>7, <1>0, <2>3, <2>4, LocalType DEF ReleaseRead, Typed, env
<1>8. CASE ReleaseWrite(i)
  <2>1. LoopsOK' /\ EnvOK'  BY <1>8, SameType DEF ReleaseWrite, Typed
  <2>2. CASE ReleaseFails(i) /\ UNCHANGED <<file, history>>
    BY <2>1, <2>2, ReleaseFailsType, HistoryUnchanged DEF Typed
  <2>3. CASE /\ Put(i, GivenUp(lease[i].seen))
             /\ Goto(i, "ended")
             /\ lease' = [lease EXCEPT ![i] = [@ EXCEPT !.releasedAt = lease[i].at,
                                                        !.at = 0, !.seen = NoGrant]]
    <3>1. lease[i].seen \in Grants /\ lease[i].at \in -Horizon..0
      BY RecordTypes DEF LeaseStates
    <3>2. GivenUp(lease[i].seen) \in Grants  BY <3>1, GivenUpType
    <3>3. [lease[i] EXCEPT !.releasedAt = lease[i].at, !.at = 0, !.seen = NoGrant]
            \in LeaseStates
      BY <3>1, Literals, RecordTypes DEF LeaseStates
    <3>4. MainOK' /\ LeaseOK'  BY <2>3, <3>3, GotoType, SetLease DEF Typed, Labels
    <3>5. QED  BY <2>1, <2>3, <3>2, <3>4, PutType DEF Typed
  <2>4. QED  BY <1>8, <2>2, <2>3 DEF ReleaseWrite
<1>9. CASE EndActivation(i)
  <2>1. Typed'  BY <1>9, GotoOnly, LeaveType DEF EndActivation, Labels
  <2>2. faults' \in 0..MaxFaults  BY <1>9, <1>0, FaultsType DEF EndActivation
  <2>3. EnvOK'  BY <1>9, <2>2, EnvUnchanged DEF EndActivation
  <2>4. HistoryOK'  BY <1>9 DEF EndActivation, HistoryOK, history
  <2>5. QED  BY <1>9, <2>1, <2>3, <2>4 DEF EndActivation
<1>10. QED
  BY <1>1, <1>2, <1>3, <1>4, <1>5, <1>6, <1>7, <1>8, <1>9

\* The steps of the renewal and failback loops keep the types.
LEMMA LoopsType ==
  ASSUME AllTyped, NEW i \in Roles,
         \/ RenewalTick(i) \/ RenewalEnds(i) \/ RenewRead(i) \/ RenewWrite(i)
         \/ GraceCheck(i) \/ FailbackTick(i) \/ FailbackEnds(i) \/ FailbackProbe(i)
  PROVE  AllTyped'
<1> USE DEF AllTyped
<1>0. faults \in 0..MaxFaults  BY DEF EnvOK
<1>a. ASSUME NEW l \in LoopStates, loops' = [loops EXCEPT ![i] = l], UNCHANGED <<main, lease>>
      PROVE  Typed'
  BY <1>a, SetLoops, SameType DEF Typed
<1>1. CASE RenewalTick(i)
  <2>1. [loops[i] EXCEPT !.renewal = "read", !.renewDue = FALSE] \in LoopStates
    BY RecordTypes DEF LoopStates
  <2>2. Typed'  BY <1>1, <1>a, <2>1 DEF RenewalTick
  <2>3. QED  BY <1>1, <1>0, <2>2, LocalType DEF RenewalTick, env
<1>2. CASE RenewalEnds(i)
  <2>1. Typed'  BY <1>2, StopRenewalType, SameType DEF RenewalEnds, Typed
  <2>2. QED  BY <1>2, <1>0, <2>1, LocalType DEF RenewalEnds, env
<1>3. CASE RenewRead(i)
  <2>1. ASSUME NEW l \in {"check", "write"}, loops' = [loops EXCEPT ![i].renewal = l]
        PROVE  LoopsOK'
    BY <2>1, RenewalGotoType DEF Typed
  <2>2. [lease[i] EXCEPT !.held = FALSE, !.at = 0, !.owned = 0] \in LeaseStates
    BY RecordTypes, Literals DEF LeaseStates
  <2>3. MainOK'  BY <1>3, QuitType, SameType DEF RenewRead, Typed
  <2>4. LeaseOK'  BY <1>3, <2>2, SetLease, SeenType, SameType DEF RenewRead, Typed
  <2>5. LoopsOK'  BY <1>3, <2>1, StopRenewalType DEF RenewRead
  <2>6. QED  BY <1>3, <1>0, <2>3, <2>4, <2>5, LocalType DEF RenewRead, Typed, env
<1>4. CASE RenewWrite(i)
  <2>1. MainOK' /\ EnvOK'  BY <1>4, SameType DEF RenewWrite, Typed
  <2>2. ASSUME NEW l \in {"check", "idle"}, loops' = [loops EXCEPT ![i].renewal = l]
        PROVE  LoopsOK'
    BY <2>2, RenewalGotoType DEF Typed
  <2>3. LoopsOK'  BY <1>4, <2>2 DEF RenewWrite
  <2>4. CASE UNCHANGED <<file, lease, history>>
    BY <2>1, <2>3, <2>4, SameType, HistoryUnchanged DEF Typed
  <2>5. CASE LET next == Renewed(lease[i].seen, lease[i].at)
             IN  /\ Put(i, next)
                 /\ lease' = [lease EXCEPT ![i] = [@ EXCEPT !.owned = next.expires,
                                                            !.at = 0, !.seen = NoGrant]]
    <3> DEFINE next == Renewed(lease[i].seen, lease[i].at)
    <3>1. lease[i].seen \in Grants /\ lease[i].at \in -Horizon..0
      BY RecordTypes DEF LeaseStates
    <3>2. next \in Grants /\ next.expires \in Instants  BY <3>1, GrantTypes
    <3> HIDE DEF next
    <3>3. [lease[i] EXCEPT !.owned = next.expires, !.at = 0, !.seen = NoGrant] \in LeaseStates
      BY <3>2, Literals, RecordTypes DEF LeaseStates
    <3>4. /\ Put(i, next)
          /\ lease' = [lease EXCEPT ![i] = [lease[i] EXCEPT !.owned = next.expires,
                                                            !.at = 0, !.seen = NoGrant]]
      BY <2>5 DEF next
    <3>5. LeaseOK'  BY <3>3, <3>4, SetLease DEF Typed
    <3>6. QED  BY <2>1, <2>3, <3>2, <3>4, <3>5, PutType DEF Typed
  <2>6. QED  BY <1>4, <2>4, <2>5 DEF RenewWrite
<1>5. CASE GraceCheck(i)
  <2>1. LeaseOK'  BY <1>5, EndOperationType DEF GraceCheck, Typed
  <2>2. MainOK'  BY <1>5, QuitType, SameType DEF GraceCheck, Typed
  <2>3. LoopsOK'  BY <1>5, StopRenewalType, RenewalGotoType DEF GraceCheck, Typed
  <2>4. QED  BY <1>5, <1>0, <2>1, <2>2, <2>3, LocalType DEF GraceCheck, Typed, env
<1>6. CASE FailbackTick(i)
  <2>1. [loops[i] EXCEPT !.failback = "probe", !.checkDue = FALSE] \in LoopStates
    BY RecordTypes DEF LoopStates
  <2>2. Typed'  BY <1>6, <1>a, <2>1 DEF FailbackTick
  <2>3. QED  BY <1>6, <1>0, <2>2, LocalType DEF FailbackTick, env
<1>7. CASE FailbackEnds(i)
  <2>1. Typed'  BY <1>7, StopFailbackType, SameType DEF FailbackEnds, Typed
  <2>2. QED  BY <1>7, <1>0, <2>1, LocalType DEF FailbackEnds, env
<1>8. CASE FailbackProbe(i)
  <2>1. /\ [loops[i] EXCEPT !.failback = "idle", !.stable = -1] \in LoopStates
        /\ [loops[i] EXCEPT !.failback = "idle",
                            !.stable = IF Counting(i) THEN loops[i].stable ELSE 0] \in LoopStates
    BY RecordTypes, Literals DEF LoopStates
  <2>2. LoopsOK'  BY <1>8, <2>1, SetLoops, StopFailbackType DEF FailbackProbe, Typed
  <2>3. MainOK' /\ LeaseOK'  BY <1>8, QuitType, SameType DEF FailbackProbe, Typed
  <2>4. faults' \in 0..MaxFaults  BY <1>8, <1>0, FaultsType DEF FailbackProbe
  <2>5. QED  BY <1>8, <2>2, <2>3, <2>4, LocalType DEF FailbackProbe, Typed
<1>9. QED
  BY <1>1, <1>2, <1>3, <1>4, <1>5, <1>6, <1>7, <1>8

\* Crashes, requests to stop, stalls and outages keep the types.
LEMMA FaultType ==
  ASSUME AllTyped, NEW i \in Roles,
         \/ Crash(i) \/ StopRequest(i) \/ Stall(i) \/ OutageBegins(i) \/ OutageEnds(i)
  PROVE  AllTyped'
<1> USE DEF AllTyped
<1>0. faults \in 0..MaxFaults  BY DEF EnvOK
<1>1. faults' \in 0..MaxFaults
  BY <1>0, SpendType DEF Crash, StopRequest, Stall, OutageBegins, OutageEnds
<1>2. EnvOK'
  <2>1. 0 \in 0..MaxStall /\ 1..MaxStall \subseteq 0..MaxStall
    BY OwnershipAssumption
  <2>2. stall' \in [Roles -> 0..MaxStall]
    BY <2>1 DEF Crash, StopRequest, Stall, OutageBegins, OutageEnds, EnvOK
  <2>3. outage' \in [Roles -> BOOLEAN]
    BY DEF Crash, StopRequest, Stall, OutageBegins, OutageEnds, EnvOK
  <2>4. QED  BY <1>1, <2>2, <2>3 DEF EnvOK
<1>3. Typed'
  <2>1. ASSUME main' = [main EXCEPT ![i].stopping = TRUE] PROVE MainOK'
    BY <2>1 DEF Typed, MainOK, MainStates
  <2>2. QED
    BY <2>1, LeaveType, SameType
       DEF Crash, StopRequest, Stall, OutageBegins, OutageEnds, Typed
<1>4. HistoryOK'
  BY Literals DEF Crash, StopRequest, Stall, OutageBegins, OutageEnds, HistoryOK, history
<1>5. QED
  BY <1>2, <1>3, <1>4 DEF Crash, StopRequest, Stall, OutageBegins, OutageEnds

LEMMA TickType ==
  ASSUME AllTyped, Tick
  PROVE  AllTyped'
<1> USE DEF AllTyped
<1>1. file' \in Grants  BY OlderGrantType DEF Tick
<1>2. LeaseOK'  BY OlderLeaseType DEF Tick, Typed, LeaseOK
<1>3. LoopsOK'
  <2>1. \A i \in Roles : OlderLoops(loops[i]) \in LoopStates
    BY OlderLoopsType, RecordTypes
  <2>2. QED  BY <2>1 DEF Tick, LoopsOK
<1>4. MainOK'
  <2>1. ASSUME NEW i \in Roles
        PROVE  [main[i] EXCEPT !.drain = IF @ = 0 THEN 0 ELSE @ - 1] \in MainStates
    BY RecordTypes, OwnershipAssumption DEF MainStates
  <2>2. QED  BY <2>1 DEF Tick, MainOK
<1>5. EnvOK'
  <2>1. ASSUME NEW i \in Roles
        PROVE  (IF stall[i] = 0 THEN 0 ELSE stall[i] - 1) \in 0..MaxStall
    BY OwnershipAssumption DEF EnvOK
  <2>2. stall' \in [Roles -> 0..MaxStall]  BY <2>1 DEF Tick
  <2>3. QED  BY <2>2 DEF Tick, EnvOK
<1>6. HistoryOK'  BY Literals DEF Tick, HistoryOK
<1>7. QED  BY <1>1, <1>2, <1>3, <1>4, <1>5, <1>6 DEF Typed

LEMMA InitType == Init => AllTyped
<1> SUFFICES ASSUME Init PROVE AllTyped  OBVIOUS
<1>1. file \in Grants  BY Literals DEF Init
<1>2. Typed  BY Literals DEF Init, Typed, MainOK, LeaseOK, LoopsOK
<1>3. EnvOK  BY Literals, OwnershipAssumption DEF Init, EnvOK
<1>4. HistoryOK  BY Literals DEF Init, HistoryOK
<1>5. QED  BY <1>1, <1>2, <1>3, <1>4 DEF AllTyped

LEMMA NextType == AllTyped /\ [Next]_vars => AllTyped'
<1> SUFFICES ASSUME AllTyped, [Next]_vars PROVE AllTyped'  OBVIOUS
<1>1. CASE Tick  BY <1>1, TickType
<1>2. ASSUME NEW i \in Roles, Step(i) PROVE AllTyped'
  BY <1>2, AcquireType, ActivateType, LoopsType DEF Step
<1>3. ASSUME NEW i \in Roles, Environment(i) PROVE AllTyped'
  BY <1>3, AcquireType, FaultType DEF Environment
<1>4. CASE UNCHANGED vars
  BY <1>4, SameType, HistoryUnchanged DEF AllTyped, Typed, vars
<1>5. QED  BY <1>1, <1>2, <1>3, <1>4 DEF Next

\* Every variable has its type in every reachable state, for any timings that
\* OpenLease accepts, any drain bound and any number of faults.
THEOREM TypeCorrect == Spec => []TypeOK
<1>1. Spec => []AllTyped  BY InitType, NextType, PTL DEF Spec
<1>2. QED  BY <1>1, TypeParts, PTL

(***************************************************************************)
(* The grant in the file, and the handover.                                *)
(***************************************************************************)
\* What an action of one instance reads of its own records.
LEMMA Fields ==
  ASSUME AllTyped
  PROVE  /\ main \in [Roles -> MainStates]
         /\ lease \in [Roles -> LeaseStates]
         /\ loops \in [Roles -> LoopStates]
         /\ file \in Grants
  BY DEF AllTyped, Typed, MainOK, LeaseOK, LoopsOK

\* An action of one instance leaves the other's records alone.
LEMMA OnlyActor ==
  ASSUME AllTyped, NEW i \in Roles, NEW j \in Roles \ {i}, Step(i) \/ Environment(i)
  PROVE  main'[j] = main[j] /\ lease'[j] = lease[j] /\ loops'[j] = loops[j]
<1> DEFINE Same == main'[j] = main[j] /\ lease'[j] = lease[j] /\ loops'[j] = loops[j]
<1> USE Fields
<1>2. Leave(i) => Same  BY DEF Leave
<1>3. EndOperation(i) => lease'[j] = lease[j]  BY DEF EndOperation
<1>4. EnterPassive(i) => Same  BY <1>3 DEF EnterPassive
<1>5. NotAcquired(i) => Same  BY <1>3, <1>4 DEF NotAcquired, Goto
<1>6. AcquireFails(i) => Same  BY <1>2, <1>5 DEF AcquireFails
<1>7. StopRenewal(i) \/ StopFailback(i) => loops'[j] = loops[j]
  BY DEF StopRenewal, StopFailback
<1>8. ReleaseFails(i) => main'[j] = main[j] /\ lease'[j] = lease[j]
  BY <1>3 DEF ReleaseFails
<1>11. CASE Start(i) \/ LoopTop(i) \/ AcquireRead(i) \/ AcquireWrite(i) \/ AcquireConfirm(i)
  BY <1>11, <1>2, <1>4, <1>5, <1>6
     DEF Start, LoopTop, AcquireRead, AcquireWrite, AcquireConfirm, Goto
<1>12. CASE WaitStopped(i) \/ PassiveFails(i) \/ PromotionTick(i) \/ Observe(i) \/ Probe(i)
  BY <1>12, <1>2, <1>5 DEF WaitStopped, PassiveFails, PromotionTick, Observe, Probe, Goto
<1>13. CASE AnnounceOwnership(i) \/ StartActivation(i) \/ BeginActive(i) \/ EndActive(i)
            \/ EndDrain(i)
  BY <1>13, <1>2
     DEF AnnounceOwnership, StartActivation, BeginActive, EndActive, EndDrain, Goto
<1>14. CASE Join(i) \/ ReleaseRead(i) \/ ReleaseWrite(i) \/ EndActivation(i)
  BY <1>14, <1>2, <1>8 DEF Join, ReleaseRead, ReleaseWrite, EndActivation, Goto
<1>15. CASE RenewalTick(i) \/ RenewalEnds(i) \/ RenewRead(i) \/ RenewWrite(i) \/ GraceCheck(i)
  BY <1>15, <1>3, <1>7 DEF RenewalTick, RenewalEnds, RenewRead, RenewWrite, GraceCheck
<1>16. CASE FailbackTick(i) \/ FailbackEnds(i) \/ FailbackProbe(i)
  BY <1>16, <1>7 DEF FailbackTick, FailbackEnds, FailbackProbe
<1>17. CASE Crash(i) \/ StopRequest(i) \/ Stall(i) \/ OutageBegins(i) \/ OutageEnds(i)
  BY <1>17, <1>2 DEF Crash, StopRequest, Stall, OutageBegins, OutageEnds
<1>18. QED
  BY <1>11, <1>12, <1>13, <1>14, <1>15, <1>16, <1>17 DEF Step, Environment

\* Where the shared moves leave their actor.
LEMMA Destinations ==
  ASSUME AllTyped, NEW i \in Roles
  PROVE  /\ \A l \in Labels : Goto(i, l) => main'[i].pc = l
         /\ Leave(i) => main'[i].pc = "down" /\ loops'[i].renewal = "none"
         /\ EnterPassive(i) => main'[i].pc = "waiting" /\ loops'[i].renewal = "none"
         /\ NotAcquired(i) => /\ main'[i].pc = "waiting"
                              /\ loops'[i].renewal \in {"none", loops[i].renewal}
         /\ AcquireFails(i) => /\ main'[i].pc \in {"down", "waiting"}
                               /\ loops'[i].renewal \in {"none", loops[i].renewal}
         /\ ReleaseFails(i) => main'[i].pc = "ended"
         /\ StopRenewal(i) => loops'[i].renewal = "none"
         /\ StopFailback(i) => loops'[i].renewal = loops[i].renewal
<1> USE Fields
<1>1. \A l \in Labels : Goto(i, l) => main'[i].pc = l
  BY DEF Goto, MainStates
<1>2. Leave(i) => main'[i].pc = "down" /\ loops'[i].renewal = "none"
  BY DEF Leave, Down, NoLoops
<1>4. EnterPassive(i) => main'[i].pc = "waiting" /\ loops'[i].renewal = "none"
  BY DEF EnterPassive, Down, NoLoops
<1>5. NotAcquired(i) => /\ main'[i].pc = "waiting"
                       /\ loops'[i].renewal \in {"none", loops[i].renewal}
  BY <1>1, <1>4 DEF NotAcquired, Labels
<1>6. AcquireFails(i) => /\ main'[i].pc \in {"down", "waiting"}
                        /\ loops'[i].renewal \in {"none", loops[i].renewal}
  BY <1>2, <1>5 DEF AcquireFails
<1>7. ReleaseFails(i) => main'[i].pc = "ended"
  BY DEF ReleaseFails, MainStates
<1>8. StopRenewal(i) => loops'[i].renewal = "none"
  BY DEF StopRenewal, LoopStates
<1>9. StopFailback(i) => loops'[i].renewal = loops[i].renewal
  BY DEF StopFailback, LoopStates
<1>10. QED
  BY <1>1, <1>2, <1>4, <1>5, <1>6, <1>7, <1>8, <1>9

\* The part of OwnGrantIsLive that is about one instance.
Mine(i) == LiveGrant(i) /\ OwnRecordSeen(i) /\ LoopsWithActive(i)

Idle(i) == main[i].pc \notin Holding /\ loops[i].renewal = "none"

\* An instance that holds nothing and runs no loop owes nothing.
LEMMA IdleMine ==
  ASSUME NEW i \in Roles
  PROVE  /\ Idle(i)' => Mine(i)'
         /\ Mine(i) /\ main[i].pc \notin Holding => Idle(i)
  BY DEF Idle, Mine, LiveGrant, OwnRecordSeen, LoopsWithActive, Holding

\* The steps of an instance before it holds a grant leave it idle.
LEMMA PassiveIsIdle ==
  ASSUME AllTyped, NEW i \in Roles, Idle(i),
         \/ Start(i) \/ LoopTop(i) \/ AcquireRead(i) \/ PromotionTick(i)
         \/ WaitStopped(i) \/ PassiveFails(i) \/ Observe(i) \/ Probe(i)
  PROVE  Idle(i)'
<1> USE Destinations DEF Idle
<1>1. CASE Start(i)  BY <1>1 DEF Start, Holding, Labels
<1>2. CASE LoopTop(i)  BY <1>2 DEF LoopTop, Holding, Labels
<1>3. CASE AcquireRead(i)  BY <1>3 DEF AcquireRead, Holding, Labels
<1>4. CASE PromotionTick(i)
  <2>1. main'[i].pc = "observe"  BY <1>4 DEF PromotionTick, Labels
  <2>2. loops'[i].renewal = loops[i].renewal
    BY <1>4, Fields DEF PromotionTick, LoopStates
  <2>3. QED  BY <2>1, <2>2 DEF Holding
<1>5. CASE WaitStopped(i)  BY <1>5 DEF WaitStopped, Holding
<1>6. CASE PassiveFails(i)
  <2>1. main'[i].pc = main[i].pc  BY <1>6, Fields DEF PassiveFails, MainStates
  <2>2. QED  BY <1>6, <2>1 DEF PassiveFails
<1>7. CASE Observe(i)  BY <1>7 DEF Observe, Holding, Labels
<1>8. CASE Probe(i)  BY <1>8 DEF Probe, Holding, Labels
<1>9. QED
  BY <1>1, <1>2, <1>3, <1>4, <1>5, <1>6, <1>7, <1>8

\* A step that leaves the file alone, taken while the grant is held.
LEMMA HolderMine ==
  ASSUME NEW i \in Roles, Mine(i), main[i].pc \in Holding, file' = file,
         main'[i].pc = "releaseWrite" \/ loops'[i].renewal = "write"
           => Names(lease'[i].seen, i),
         loops'[i].renewal # "none"
           => main'[i].pc \in {"activating", "active", "draining", "joining"}
  PROVE  Mine(i)'
  BY DEF Mine, LiveGrant, OwnRecordSeen, LoopsWithActive

\* A step that leaves the file, the handle, and both labels alone.
LEMMA SameMine ==
  ASSUME NEW i \in Roles, Mine(i), file' = file, lease'[i] = lease[i],
         main'[i].pc = main[i].pc, loops'[i].renewal = loops[i].renewal
  PROVE  Mine(i)'
  BY DEF Mine, LiveGrant, OwnRecordSeen, LoopsWithActive

\* The steps from the write that takes the lease to its release.
LEMMA HolderKeeps ==
  ASSUME AllTyped, NEW i \in Roles, Mine(i),
         \/ AcquireWrite(i) \/ AcquireConfirm(i)
         \/ AnnounceOwnership(i) \/ StartActivation(i) \/ BeginActive(i)
         \/ EndActive(i) \/ EndDrain(i) \/ Join(i)
         \/ ReleaseRead(i) \/ ReleaseWrite(i) \/ EndActivation(i)
  PROVE  Mine(i)'
<1> USE Destinations
<1>m. main \in [Roles -> MainStates] /\ main[i] \in MainStates /\ i \in DOMAIN main
      /\ "pc" \in DOMAIN main[i]
  BY Fields DEF MainStates
<1>n. NoLoops.renewal = "none"  BY DEF NoLoops
<1>a. loops' = [loops EXCEPT ![i] = NoLoops] => loops'[i].renewal = "none"
  BY <1>n, Fields
<1>b. loops[i].renewal # "none" => main[i].pc \in {"activating", "active", "draining", "joining"}
  BY DEF Mine, LoopsWithActive
<1>c. main[i].pc = "releaseWrite" \/ loops[i].renewal = "write" => Names(lease[i].seen, i)
  BY DEF Mine, OwnRecordSeen
<1>1. CASE AcquireWrite(i)
  <2>1. main[i].pc = "write" /\ loops[i].renewal = "none"
    BY <1>1, <1>b DEF AcquireWrite, At
  <2>2. CASE AcquireFails(i)  BY <2>1, <2>2, IdleMine DEF Idle, Holding
  <2>3. CASE Put(i, Granted(i, lease[i].at)) /\ Goto(i, "confirm") /\ UNCHANGED <<lease, loops>>
    <3>1. ~file'.released  BY <2>3 DEF Put, Granted
    <3>2. main'[i].pc = "confirm"  BY <2>3 DEF Labels
    <3>3. loops'[i].renewal = "none"  BY <2>1, <2>3
    <3>4. QED  BY <3>1, <3>2, <3>3 DEF Mine, LiveGrant, OwnRecordSeen, LoopsWithActive
  <2>4. QED  BY <1>1, <2>2, <2>3 DEF AcquireWrite
<1>2. CASE AcquireConfirm(i)
  <2>1. main[i].pc = "confirm" /\ loops[i].renewal = "none" /\ file' = file
    BY <1>2, <1>b DEF AcquireConfirm, At
  <2>2. CASE AcquireFails(i) \/ NotAcquired(i) \/ Leave(i)
    BY <2>1, <2>2, IdleMine DEF Idle, Holding
  <2>3. CASE /\ main' = [main EXCEPT ![i] = [@ EXCEPT !.pc = "acquired", !.passive = "none"]]
             /\ loops' = [loops EXCEPT ![i] = NoLoops]
    <3>1. main'[i].pc = "acquired"  BY <2>3, Fields DEF MainStates
    <3>2. QED  BY <1>a, <2>1, <2>3, <3>1, HolderMine DEF Holding
  <2>4. QED  BY <1>2, <2>2, <2>3 DEF AcquireConfirm
<1>3. CASE AnnounceOwnership(i)
  <2>1. main[i].pc = "acquired" /\ loops[i].renewal = "none" /\ file' = file
    BY <1>3, <1>b DEF AnnounceOwnership, At
  <2>2. CASE Leave(i)  BY <2>2, IdleMine DEF Idle, Holding
  <2>3. CASE Goto(i, "starting") /\ UNCHANGED <<lease, loops>>
    BY <2>1, <2>3, HolderMine DEF Holding, Labels
  <2>4. QED  BY <1>3, <2>2, <2>3 DEF AnnounceOwnership
<1>4. CASE StartActivation(i)
  <2>1. main[i].pc = "starting" /\ file' = file
    BY <1>4 DEF StartActivation, At
  <2>2. CASE Leave(i)  BY <2>2, IdleMine DEF Idle, Holding
  <2>3. CASE Goto(i, "activating") /\ loops' = [loops EXCEPT ![i] = LoopsStarted(i)]
    <3>1. loops'[i].renewal = "idle"  BY <2>3, Fields DEF LoopsStarted, NoLoops
    <3>2. main'[i].pc = "activating"  BY <2>3 DEF Labels
    <3>3. QED  BY <2>1, <3>1, <3>2, HolderMine DEF Holding
  <2>4. QED  BY <1>4, <2>2, <2>3 DEF StartActivation
<1>5. CASE BeginActive(i)
  <2>1. main'[i].pc \in {"active", "joining"}
    <3>1. CASE Goto(i, "active")  BY <3>1 DEF Labels
    <3>2. CASE main' = [main EXCEPT ![i] = [@ EXCEPT !.pc = "joining", !.failed = "active",
                                                     !.quit = TRUE]]
      BY <3>2, <1>m
    <3>3. QED  BY <1>5, <3>1, <3>2 DEF BeginActive
  <2>2. main[i].pc = "activating" /\ UNCHANGED <<file, lease, loops>>
    BY <1>5 DEF BeginActive, At
  <2>3. QED  BY <1>c, <2>1, <2>2, HolderMine DEF Holding
<1>6. CASE EndActive(i)
  <2>1. main'[i].pc = "draining"
    <3>1. CASE main' = [main EXCEPT ![i] = [@ EXCEPT !.pc = "draining",
                                                     !.drain = ShutdownTimeout]]
      BY <3>1, <1>m
    <3>2. CASE main' = [main EXCEPT ![i] = [@ EXCEPT !.pc = "draining",
                                                     !.drain = ShutdownTimeout,
                                                     !.failed = "active"]]
      BY <3>2, <1>m
    <3>3. QED  BY <1>6, <3>1, <3>2 DEF EndActive
  <2>2. main[i].pc = "active" /\ UNCHANGED <<file, lease, loops>>
    BY <1>6 DEF EndActive, At
  <2>3. QED  BY <1>c, <2>1, <2>2, HolderMine DEF Holding
<1>7. CASE EndDrain(i)
  <2>1. PICK failing \in BOOLEAN :
          main' = [main EXCEPT ![i] =
                     [@ EXCEPT !.pc = "joining", !.quit = TRUE, !.drain = 0,
                               !.failed = IF failing THEN "active" ELSE main[i].failed]]
    BY <1>7 DEF EndDrain
  <2>3. main'[i].pc = "joining"  BY <2>1, <1>m
  <2>2. main[i].pc = "draining" /\ UNCHANGED <<file, lease, loops>>
    BY <1>7 DEF EndDrain, At
  <2>4. QED  BY <1>c, <2>2, <2>3, HolderMine DEF Holding
<1>8. CASE Join(i)
  <2>1. main'[i].pc \in {"releaseRead", "ended"}  BY <1>8 DEF Join, Labels
  <2>2. main[i].pc = "joining" /\ file' = file /\ loops'[i].renewal = "none"
    BY <1>8, <1>a DEF Join, At
  <2>3. QED  BY <2>1, <2>2, HolderMine DEF Holding
<1>9. CASE ReleaseRead(i)
  <2>1. main[i].pc = "releaseRead" /\ loops'[i].renewal = "none" /\ file' = file
    BY <1>9, <1>b DEF ReleaseRead, At
  <2>2. CASE ReleaseFails(i) \/ Goto(i, "ended")
    BY <2>1, <2>2, IdleMine DEF Idle, Holding, Labels
  <2>3. CASE Names(file, i) /\ Goto(i, "releaseWrite") /\ lease' = [lease EXCEPT ![i].seen = file]
    <3>1. lease'[i].seen = file  BY <2>3, Fields DEF LeaseStates
    <3>2. QED  BY <2>1, <2>3, <3>1, HolderMine DEF Holding, Labels
  <2>4. QED  BY <1>9, <2>2, <2>3 DEF ReleaseRead
<1>10. CASE ReleaseWrite(i)
  <2>1. loops'[i].renewal = "none"  BY <1>10, <1>b DEF ReleaseWrite, At
  <2>2. main'[i].pc = "ended"  BY <1>10 DEF ReleaseWrite, Labels
  <2>3. QED  BY <2>1, <2>2, IdleMine DEF Idle, Holding
<1>11. CASE EndActivation(i)
  <2>1. loops[i].renewal = "none"  BY <1>11, <1>b DEF EndActivation, At
  <2>2. QED  BY <1>11, <2>1, IdleMine DEF EndActivation, Idle, Holding, Labels
<1>12. QED
  BY <1>1, <1>2, <1>3, <1>4, <1>5, <1>6, <1>7, <1>8, <1>9, <1>10, <1>11

\* The steps of the two loops, which run within an activation.
LEMMA LoopsKeep ==
  ASSUME AllTyped, NEW i \in Roles, Mine(i),
         \/ RenewalTick(i) \/ RenewalEnds(i) \/ RenewRead(i) \/ RenewWrite(i)
         \/ GraceCheck(i) \/ FailbackTick(i) \/ FailbackEnds(i) \/ FailbackProbe(i)
  PROVE  Mine(i)'
<1>a. loops[i].renewal # "none" => main[i].pc \in {"activating", "active", "draining", "joining"}
  BY DEF Mine, LoopsWithActive
<1>b. main[i].pc = "releaseWrite" \/ loops[i].renewal = "write" => Names(lease[i].seen, i)
  BY DEF Mine, OwnRecordSeen
<1>q. ASSUME main' = [main EXCEPT ![i].quit = TRUE] \/ UNCHANGED main
      PROVE  main'[i].pc = main[i].pc
  BY <1>q, Fields DEF MainStates
<1>r. \A l : loops' = [loops EXCEPT ![i].renewal = l] => loops'[i].renewal = l
  BY Fields DEF LoopStates
<1>s. StopRenewal(i) => loops'[i].renewal = "none"
  BY Destinations
<1>1. CASE RenewalTick(i)
  <2>1. loops'[i].renewal = "read"  BY <1>1, Fields DEF RenewalTick, LoopStates
  <2>2. loops[i].renewal = "idle" /\ UNCHANGED <<file, main>>
    BY <1>1 DEF RenewalTick, Renewing
  <2>3. QED  BY <1>a, <2>1, <2>2, HolderMine DEF Holding
<1>2. CASE RenewalEnds(i)
  <2>1. loops[i].renewal = "idle" /\ UNCHANGED <<file, main>> /\ StopRenewal(i)
    BY <1>2 DEF RenewalEnds, Renewing
  <2>2. QED  BY <1>a, <1>s, <2>1, HolderMine DEF Holding
<1>3. CASE RenewRead(i)
  <2>1. loops[i].renewal = "read" /\ file' = file
    BY <1>3 DEF RenewRead, Renewing
  <2>2. main'[i].pc = main[i].pc  BY <1>3, <1>q DEF RenewRead
  <2>3. loops'[i].renewal = "write" => Names(lease'[i].seen, i)
    <3>1. CASE loops' = [loops EXCEPT ![i].renewal = "check"]
      <4>1. loops'[i].renewal = "check"  BY <3>1, <1>r
      <4>2. QED  BY <4>1
    <3>2. CASE StopRenewal(i)
      <4>1. loops'[i].renewal = "none"  BY <3>2, <1>s
      <4>2. QED  BY <4>1
    <3>3. CASE /\ ~TakenOver(i)
               /\ lease' = [lease EXCEPT ![i].seen = file]
               /\ loops' = [loops EXCEPT ![i].renewal = "write"]
      <4>1. lease'[i].seen = file  BY <3>3, Fields DEF LeaseStates
      <4>2. QED  BY <3>3, <4>1 DEF TakenOver
    <3>4. QED  BY <1>3, <3>1, <3>2, <3>3 DEF RenewRead
  <2>4. QED  BY <1>a, <2>1, <2>2, <2>3, HolderMine DEF Holding
<1>4. CASE RenewWrite(i)
  <2>1. loops[i].renewal = "write" /\ main' = main
    BY <1>4 DEF RenewWrite, Renewing
  <2>2. CASE loops' = [loops EXCEPT ![i].renewal = "check"] /\ file' = file
    BY <1>a, <1>r, <2>1, <2>2, HolderMine DEF Holding
  <2>3. CASE /\ loops' = [loops EXCEPT ![i].renewal = "idle"]
             /\ Put(i, Renewed(lease[i].seen, lease[i].at))
    <3>1. lease[i].seen \in Grants  BY Fields DEF LeaseStates
    <3>2. ~file'.released  BY <2>3, <3>1 DEF Put, Renewed, Grants
    <3>3. loops'[i].renewal = "idle"  BY <1>r, <2>3
    <3>4. QED
      BY <1>a, <2>1, <3>2, <3>3 DEF Mine, LiveGrant, OwnRecordSeen, LoopsWithActive
  <2>4. QED  BY <1>4, <2>2, <2>3 DEF RenewWrite
<1>5. CASE GraceCheck(i)
  <2>1. loops[i].renewal = "check" /\ file' = file
    BY <1>5 DEF GraceCheck, Renewing
  <2>2. main'[i].pc = main[i].pc  BY <1>5, <1>q DEF GraceCheck
  <2>3. loops'[i].renewal \in {"idle", "none"}  BY <1>5, <1>r, <1>s DEF GraceCheck
  <2>4. QED  BY <1>a, <2>1, <2>2, <2>3, HolderMine DEF Holding
<1>6. CASE FailbackTick(i)
  <2>1. loops'[i].renewal = loops[i].renewal
    BY <1>6, Fields DEF FailbackTick, LoopStates
  <2>2. QED  BY <1>6, <2>1, SameMine DEF FailbackTick
<1>7. CASE FailbackEnds(i)
  BY <1>7, Destinations, SameMine DEF FailbackEnds
<1>8. CASE FailbackProbe(i)
  <2>1. loops'[i].renewal = loops[i].renewal
    <3>1. CASE loops' = [loops EXCEPT ![i] = [@ EXCEPT !.failback = "idle", !.stable = -1]]
      BY <3>1, Fields DEF LoopStates
    <3>2. CASE loops' = [loops EXCEPT ![i] =
                 [@ EXCEPT !.failback = "idle",
                           !.stable = IF Counting(i) THEN loops[i].stable ELSE 0]]
      BY <3>2, Fields DEF LoopStates
    <3>3. CASE StopFailback(i)  BY <3>3, Destinations
    <3>4. QED  BY <1>8, <3>1, <3>2, <3>3 DEF FailbackProbe
  <2>2. main'[i].pc = main[i].pc  BY <1>8, <1>q DEF FailbackProbe
  <2>3. QED  BY <1>8, <2>1, <2>2, SameMine DEF FailbackProbe
<1>9. QED
  BY <1>1, <1>2, <1>3, <1>4, <1>5, <1>6, <1>7, <1>8

LEMMA FaultsKeep ==
  ASSUME AllTyped, NEW i \in Roles, Mine(i),
         \/ Crash(i) \/ StopRequest(i) \/ Stall(i) \/ OutageBegins(i) \/ OutageEnds(i)
  PROVE  Mine(i)'
<1>1. CASE Crash(i)
  BY <1>1, Destinations, IdleMine DEF Crash, Idle, Holding
<1>2. CASE StopRequest(i)
  <2>1. main'[i].pc = main[i].pc  BY <1>2, Fields DEF StopRequest, MainStates
  <2>2. QED  BY <1>2, <2>1, SameMine DEF StopRequest
<1>3. CASE Stall(i) \/ OutageBegins(i) \/ OutageEnds(i)
  BY <1>3, SameMine DEF Stall, OutageBegins, OutageEnds
<1>4. QED  BY <1>1, <1>2, <1>3

\* An instance writes its own grant, renews it, or gives up a record that was
\* its own: it never leaves a released record naming the other.
LEMMA WritesOwn ==
  ASSUME AllTyped, NEW i \in Roles, Mine(i), Step(i) \/ Environment(i)
  PROVE  \/ file' = file /\ lost' = lost
         \/ AcquireWrite(i) /\ Put(i, Granted(i, lease[i].at)) /\ Goto(i, "confirm")
         \/ /\ RenewWrite(i) /\ Put(i, Renewed(lease[i].seen, lease[i].at))
            /\ Names(lease[i].seen, i)
         \/ /\ ReleaseWrite(i) /\ Put(i, GivenUp(lease[i].seen))
            /\ Names(lease[i].seen, i)
<1>1. CASE AcquireWrite(i)  BY <1>1 DEF AcquireWrite, history
<1>2. CASE RenewWrite(i)
  BY <1>2 DEF RenewWrite, Renewing, Mine, OwnRecordSeen, history
<1>3. CASE ReleaseWrite(i)
  BY <1>3 DEF ReleaseWrite, At, Mine, OwnRecordSeen, history
<1>4. CASE ~AcquireWrite(i) /\ ~RenewWrite(i) /\ ~ReleaseWrite(i)
  BY <1>4
     DEF Step, Environment, Start, LoopTop, AcquireRead, AcquireConfirm, WaitStopped,
         PassiveFails, PromotionTick, Observe, Probe, AnnounceOwnership, StartActivation,
         BeginActive, EndActive, EndDrain, Join, ReleaseRead, EndActivation, RenewalTick,
         RenewalEnds, RenewRead, GraceCheck, FailbackTick, FailbackEnds, FailbackProbe,
         Crash, StopRequest, Stall, OutageBegins, OutageEnds, history
<1>5. QED  BY <1>1, <1>2, <1>3, <1>4

LEMMA PeerWrites ==
  ASSUME AllTyped, NEW i \in Roles, NEW j \in Roles \ {i}, Mine(i),
         Step(i) \/ Environment(i)
  PROVE  file' = file \/ ~file'.released \/ ~Names(file', j)
<1>1. lease[i].seen \in Grants  BY Fields DEF LeaseStates
<1>2. file' # file => file'.owner = i
  <2>1. Granted(i, lease[i].at).owner = i  BY DEF Granted
  <2>2. /\ Renewed(lease[i].seen, lease[i].at).owner = lease[i].seen.owner
        /\ GivenUp(lease[i].seen).owner = lease[i].seen.owner
    BY <1>1 DEF Renewed, GivenUp, Grants
  <2>3. QED  BY <2>1, <2>2, WritesOwn DEF Put, Names
<1>3. QED  BY <1>2 DEF Names

\* The other instance's writes name the other instance, or renew.
LEMMA PeerKeeps ==
  ASSUME AllTyped, NEW i \in Roles, NEW j \in Roles \ {i}, Mine(i), Mine(j),
         Step(i) \/ Environment(i)
  PROVE  Mine(j)'
<1>1. main'[j] = main[j] /\ lease'[j] = lease[j] /\ loops'[j] = loops[j]
  BY OnlyActor
<1>2. QED
  BY <1>1, PeerWrites DEF Mine, LiveGrant, OwnRecordSeen, LoopsWithActive

LEMMA ActorKeeps ==
  ASSUME AllTyped, NEW i \in Roles, Mine(i), Step(i) \/ Environment(i)
  PROVE  Mine(i)'
<1>1. CASE \/ Start(i) \/ LoopTop(i) \/ AcquireRead(i) \/ PromotionTick(i)
           \/ WaitStopped(i) \/ PassiveFails(i) \/ Observe(i) \/ Probe(i)
  <2>1. main[i].pc \notin Holding
    BY <1>1 DEF Start, LoopTop, AcquireRead, PromotionTick, WaitStopped, PassiveFails,
                Observe, Probe, At, Holding
  <2>2. QED  BY <1>1, <2>1, IdleMine, PassiveIsIdle
<1>2. QED  BY <1>1, HolderKeeps, LoopsKeep, FaultsKeep DEF Step, Environment

\* Time changes neither whose grant it is, nor whether it was given up.
LEMMA TickKeeps ==
  ASSUME AllTyped, NEW i \in Roles, Mine(i), Tick
  PROVE  Mine(i)'
<1>1. \A g \in Grants : OlderGrant(g).owner = g.owner /\ OlderGrant(g).released = g.released
  BY DEF OlderGrant, Grants
<1>2. main'[i].pc = main[i].pc
  <2>1. main'[i] = [main[i] EXCEPT !.drain = IF @ = 0 THEN 0 ELSE @ - 1]  BY DEF Tick
  <2>2. QED  BY <2>1, Fields DEF MainStates
<1>3. lease'[i].seen = OlderGrant(lease[i].seen)
  <2>1. lease'[i] = OlderLease(i)  BY DEF Tick
  <2>2. QED  BY <2>1, Fields DEF OlderLease, LeaseStates
<1>4. loops'[i].renewal = loops[i].renewal
  <2>1. loops'[i] = OlderLoops(loops[i])  BY DEF Tick
  <2>2. QED  BY <2>1, Fields DEF OlderLoops, LoopStates
<1>5. file' = OlderGrant(file)  BY DEF Tick
<1>6. lease[i].seen \in Grants  BY Fields DEF LeaseStates
<1>7. QED
  BY <1>1, <1>2, <1>3, <1>4, <1>5, <1>6, Fields
     DEF Mine, LiveGrant, OwnRecordSeen, LoopsWithActive, Names

IInv == AllTyped /\ OwnGrantIsLive

LEMMA LiveNext == IInv /\ [Next]_vars => OwnGrantIsLive'
<1> SUFFICES ASSUME IInv, [Next]_vars, NEW j \in Roles PROVE Mine(j)'
  BY DEF OwnGrantIsLive, Mine
<1>0. AllTyped /\ \A i \in Roles : Mine(i)  BY DEF IInv, OwnGrantIsLive, Mine
<1>1. CASE Tick  BY <1>0, <1>1, TickKeeps
<1>2. ASSUME NEW i \in Roles, Step(i) \/ Environment(i) PROVE Mine(j)'
  BY <1>0, <1>2, ActorKeeps, PeerKeeps
<1>3. CASE UNCHANGED vars
  BY <1>0, <1>3 DEF vars, Mine, LiveGrant, OwnRecordSeen, LoopsWithActive
<1>4. QED  BY <1>1, <1>2, <1>3 DEF Next

LEMMA LiveInit == Init => OwnGrantIsLive
  BY DEF Init, OwnGrantIsLive, LiveGrant, OwnRecordSeen, LoopsWithActive, Holding, Down,
         NoLoops

LEMMA Inductive == Spec => []IInv
<1>1. Init => IInv  BY InitType, LiveInit DEF IInv
<1>2. IInv /\ [Next]_vars => IInv'  BY NextType, LiveNext DEF IInv
<1>3. QED  BY <1>1, <1>2, PTL DEF Spec

\* Each instance's own grant is live from its write to its release, whatever
\* crashes, stalls and outages do to either instance.
THEOREM GrantStaysLive == Spec => []OwnGrantIsLive
<1>1. IInv => OwnGrantIsLive  BY DEF IInv
<1>2. QED  BY <1>1, Inductive, PTL

\* The released record, the peer's invitation to take over, never stands while
\* its writer's Active composition is open.
THEOREM ReleaseFollowsClose == Spec => []ReleasedMeansClosed
<1>1. IInv => ReleasedMeansClosed
  BY DEF IInv, OwnGrantIsLive, LiveGrant, ReleasedMeansClosed, Open, Holding
<1>2. QED  BY <1>1, Inductive, PTL

(***************************************************************************)
(* The refinement: every step of an instance is a step of Handover, or     *)
(* leaves its turn and the offer alone.                                    *)
(***************************************************************************)
LEMMA TurnChanges ==
  ASSUME NEW i \in Roles, \A j \in Roles \ {i} : main'[j] = main[j]
  PROVE  Turns' = [Turns EXCEPT ![i] = TurnOf(i)']
  BY DEF Turns, TurnOf, Open

LEMMA SameTurn ==
  ASSUME NEW i \in Roles, \A j \in Roles \ {i} : main'[j] = main[j],
         TurnOf(i)' = TurnOf(i)
  PROVE  Turns' = Turns
  BY DEF Turns, TurnOf, Open

\* What a step of i does to its turn and to the file.
Shown(i) ==
  \/ /\ TurnOf(i) = "out" /\ TurnOf(i)' = "idle" /\ file' = file
  \/ /\ TurnOf(i) # "out" /\ TurnOf(i)' = "out" /\ file' = file
  \/ /\ TurnOf(i) = "idle" /\ TurnOf(i)' = "active" /\ file' = file /\ Offered # i
  \/ /\ TurnOf(i) = "active" /\ TurnOf(i)' = "idle" /\ file' = file
  \/ /\ TurnOf(i) = "idle" /\ TurnOf(i)' = "idle" /\ Offered' = i
  \/ /\ TurnOf(i) # "out" /\ TurnOf(i)' = TurnOf(i) /\ Offered' = "none"
  \/ /\ TurnOf(i)' = TurnOf(i) /\ file' = file

LEMMA ShownIsHandover ==
  ASSUME NEW i \in Roles, \A j \in Roles \ {i} : main'[j] = main[j], Shown(i)
  PROVE  [H!Next]_<<Turns, Offered>>
<1>1. Turns[i] = TurnOf(i)  BY DEF Turns
<1>2. Turns' = [Turns EXCEPT ![i] = TurnOf(i)']  BY TurnChanges
<1>3. TurnOf(i)' = TurnOf(i) => Turns' = Turns  BY SameTurn
<1>4. file' = file => Offered' = Offered  BY DEF Offered
<1>5. \/ H!Enter(i) \/ H!Exit(i) \/ H!Open(i) \/ H!Close(i) \/ H!Offer(i) \/ H!Claim(i)
      \/ UNCHANGED <<Turns, Offered>>
  BY <1>1, <1>2, <1>3, <1>4
     DEF Shown, H!Enter, H!Exit, H!Open, H!Close, H!Offer, H!Claim
<1>6. QED  BY <1>5 DEF H!Next

\* A process that leaves exits, one that falls back to Passive stays idle.
LEMMA Leaving ==
  ASSUME AllTyped, NEW i \in Roles, main[i].pc # "down", file' = file
  PROVE  /\ Leave(i) => Shown(i)
         /\ ~Open(i) /\ (NotAcquired(i) \/ AcquireFails(i) \/ EnterPassive(i)) => Shown(i)
<1> USE Destinations DEF Shown, TurnOf, Open
<1>1. Leave(i) => Shown(i)  OBVIOUS
<1>2. ~Open(i) /\ (NotAcquired(i) \/ AcquireFails(i) \/ EnterPassive(i)) => Shown(i)
  OBVIOUS
<1>3. QED  BY <1>1, <1>2

\* A step that only moves between labels of the same turn.
LEMMA Staying ==
  ASSUME AllTyped, NEW i \in Roles, file' = file,
         \/ main'[i].pc = main[i].pc
         \/ /\ main[i].pc \notin {"down", "activating", "active", "draining"}
            /\ main'[i].pc \notin {"down", "activating", "active", "draining"}
         \/ /\ main[i].pc \in {"activating", "active", "draining"}
            /\ main'[i].pc \in {"activating", "active", "draining"}
  PROVE  Shown(i)
  BY DEF Shown, TurnOf, Open

LEMMA PassiveShown ==
  ASSUME AllTyped, NEW i \in Roles,
         \/ Start(i) \/ LoopTop(i) \/ AcquireRead(i) \/ AcquireWrite(i)
         \/ AcquireConfirm(i) \/ WaitStopped(i) \/ PassiveFails(i)
         \/ PromotionTick(i) \/ Observe(i) \/ Probe(i)
  PROVE  Shown(i)
<1>g. \A l \in Labels : Goto(i, l) => main'[i].pc = l  BY Destinations
<1>m. main \in [Roles -> MainStates] /\ main[i] \in MainStates /\ i \in DOMAIN main
      /\ "pc" \in DOMAIN main[i]
  BY Fields DEF MainStates
<1>1. CASE Start(i)
  BY <1>1, <1>g DEF Start, Labels, Shown, TurnOf, Open
<1>2. CASE LoopTop(i)
  <2>1. main[i].pc \in {"first", "again"} /\ file' = file  BY <1>2 DEF LoopTop
  <2>2. CASE Leave(i) \/ EnterPassive(i)  BY <2>1, <2>2, Leaving DEF Open
  <2>3. CASE Goto(i, "read")  BY <2>1, <2>3, <1>g, Staying DEF Labels
  <2>4. QED  BY <1>2, <2>2, <2>3 DEF LoopTop
<1>3. CASE AcquireRead(i)
  <2>1. main[i].pc = "read" /\ file' = file  BY <1>3 DEF AcquireRead, At
  <2>2. CASE AcquireFails(i) \/ NotAcquired(i)  BY <2>1, <2>2, Leaving DEF Open
  <2>3. CASE Goto(i, "write")  BY <2>1, <2>3, <1>g, Staying DEF Labels
  <2>4. QED  BY <1>3, <2>2, <2>3 DEF AcquireRead
<1>4. CASE AcquireWrite(i)
  <2>1. main[i].pc = "write"  BY <1>4 DEF AcquireWrite, At
  <2>2. CASE AcquireFails(i) /\ file' = file  BY <2>1, <2>2, Leaving DEF Open
  <2>3. CASE Put(i, Granted(i, lease[i].at)) /\ Goto(i, "confirm")
    <3>1. main'[i].pc = "confirm"  BY <2>3, <1>g DEF Labels
    <3>2. Offered' = "none"  BY <2>3 DEF Put, Granted, Offered
    <3>3. QED  BY <2>1, <3>1, <3>2 DEF Shown, TurnOf, Open
  <2>4. QED  BY <1>4, <2>2, <2>3 DEF AcquireWrite
<1>5. CASE AcquireConfirm(i)
  <2>1. main[i].pc = "confirm" /\ file' = file  BY <1>5 DEF AcquireConfirm, At
  <2>2. CASE AcquireFails(i) \/ NotAcquired(i) \/ Leave(i)
    BY <2>1, <2>2, Leaving DEF Open
  <2>3. CASE main' = [main EXCEPT ![i] = [@ EXCEPT !.pc = "acquired", !.passive = "none"]]
    <3>1. main'[i].pc = "acquired"  BY <2>3, <1>m
    <3>2. QED  BY <2>1, <3>1, Staying
  <2>4. QED  BY <1>5, <2>2, <2>3 DEF AcquireConfirm
<1>6. CASE WaitStopped(i)
  BY <1>6, Leaving DEF WaitStopped, At
<1>7. CASE PassiveFails(i)
  <2>1. main'[i].pc = main[i].pc  BY <1>7, <1>m DEF PassiveFails
  <2>2. QED  BY <1>7, <2>1, Staying DEF PassiveFails
<1>8. CASE PromotionTick(i)
  BY <1>8, <1>g, Staying DEF PromotionTick, At, Labels
<1>9. CASE Observe(i)
  <2>1. main[i].pc = "observe" /\ file' = file  BY <1>9 DEF Observe, At
  <2>2. CASE NotAcquired(i)  BY <2>1, <2>2, Leaving DEF Open
  <2>3. ASSUME NEW l \in {"probe", "read"}, Goto(i, l) PROVE Shown(i)
    BY <2>1, <2>3, <1>g, Staying DEF Labels
  <2>4. QED  BY <1>9, <2>2, <2>3 DEF Observe
<1>10. CASE Probe(i)
  <2>1. main[i].pc = "probe" /\ file' = file  BY <1>10 DEF Probe, At
  <2>2. CASE NotAcquired(i)  BY <2>1, <2>2, Leaving DEF Open
  <2>3. CASE Goto(i, "read")  BY <2>1, <2>3, <1>g, Staying DEF Labels
  <2>4. QED  BY <1>10, <2>2, <2>3 DEF Probe
<1>11. QED
  BY <1>1, <1>2, <1>3, <1>4, <1>5, <1>6, <1>7, <1>8, <1>9, <1>10

LEMMA ActivateShown ==
  ASSUME AllTyped, NEW i \in Roles, Mine(i),
         \/ AnnounceOwnership(i) \/ StartActivation(i) \/ BeginActive(i)
         \/ EndActive(i) \/ EndDrain(i) \/ Join(i)
         \/ ReleaseRead(i) \/ ReleaseWrite(i) \/ EndActivation(i)
  PROVE  Shown(i)
<1>g. \A l \in Labels : Goto(i, l) => main'[i].pc = l  BY Destinations
<1>m. main \in [Roles -> MainStates] /\ main[i] \in MainStates /\ i \in DOMAIN main
      /\ "pc" \in DOMAIN main[i]
  BY Fields DEF MainStates
<1>1. CASE AnnounceOwnership(i)
  <2>1. main[i].pc = "acquired" /\ file' = file  BY <1>1 DEF AnnounceOwnership, At
  <2>2. CASE Leave(i)  BY <2>1, <2>2, Leaving
  <2>3. CASE Goto(i, "starting")  BY <2>1, <2>3, <1>g, Staying DEF Labels
  <2>4. QED  BY <1>1, <2>2, <2>3 DEF AnnounceOwnership
<1>2. CASE StartActivation(i)
  <2>1. main[i].pc = "starting" /\ file' = file  BY <1>2 DEF StartActivation, At
  <2>2. CASE Leave(i)  BY <2>1, <2>2, Leaving
  <2>3. CASE Goto(i, "activating")
    <3>1. main'[i].pc = "activating"  BY <2>3, <1>g DEF Labels
    <3>2. Names(file, i) => ~file.released
      BY <2>1 DEF Mine, LiveGrant, Holding
    <3>3. Offered # i  BY <3>2 DEF Offered, Names, Roles
    <3>4. QED  BY <2>1, <3>1, <3>3 DEF Shown, TurnOf, Open
  <2>4. QED  BY <1>2, <2>2, <2>3 DEF StartActivation
<1>3. CASE BeginActive(i)
  <2>1. main[i].pc = "activating" /\ file' = file  BY <1>3 DEF BeginActive, At
  <2>2. CASE Goto(i, "active")  BY <2>1, <2>2, <1>g, Staying DEF Labels
  <2>3. CASE main' = [main EXCEPT ![i] = [@ EXCEPT !.pc = "joining", !.failed = "active",
                                                   !.quit = TRUE]]
    <3>1. main'[i].pc = "joining"  BY <2>3, <1>m
    <3>2. QED  BY <2>1, <3>1 DEF Shown, TurnOf, Open
  <2>4. QED  BY <1>3, <2>2, <2>3 DEF BeginActive
<1>4. CASE EndActive(i)
  <2>1. main[i].pc = "active" /\ file' = file  BY <1>4 DEF EndActive, At
  <2>2. CASE main' = [main EXCEPT ![i] = [@ EXCEPT !.pc = "draining",
                                                   !.drain = ShutdownTimeout]]
    <3>1. main'[i].pc = "draining"  BY <2>2, <1>m
    <3>2. QED  BY <2>1, <3>1, Staying
  <2>3. CASE main' = [main EXCEPT ![i] = [@ EXCEPT !.pc = "draining",
                                                   !.drain = ShutdownTimeout,
                                                   !.failed = "active"]]
    <3>1. main'[i].pc = "draining"  BY <2>3, <1>m
    <3>2. QED  BY <2>1, <3>1, Staying
  <2>4. QED  BY <1>4, <2>2, <2>3 DEF EndActive
<1>5. CASE EndDrain(i)
  <2>1. PICK failing \in BOOLEAN :
          main' = [main EXCEPT ![i] =
                     [@ EXCEPT !.pc = "joining", !.quit = TRUE, !.drain = 0,
                               !.failed = IF failing THEN "active" ELSE main[i].failed]]
    BY <1>5 DEF EndDrain
  <2>2. main'[i].pc = "joining"  BY <2>1, <1>m
  <2>3. main[i].pc = "draining" /\ file' = file  BY <1>5 DEF EndDrain, At
  <2>4. QED  BY <2>2, <2>3 DEF Shown, TurnOf, Open
<1>6. CASE Join(i)
  <2>1. ASSUME NEW l \in {"releaseRead", "ended"}, Goto(i, l) PROVE Shown(i)
    BY <1>6, <2>1, <1>g, Staying DEF Join, At, Labels
  <2>2. QED  BY <1>6, <2>1 DEF Join
<1>7. CASE ReleaseRead(i)
  <2>1. main[i].pc = "releaseRead" /\ file' = file  BY <1>7 DEF ReleaseRead, At
  <2>2. ASSUME NEW l \in {"releaseWrite", "ended"}, Goto(i, l) PROVE Shown(i)
    BY <2>1, <2>2, <1>g, Staying DEF Labels
  <2>3. CASE ReleaseFails(i)  BY <2>1, <2>3, Destinations, Staying
  <2>4. QED  BY <1>7, <2>2, <2>3 DEF ReleaseRead
<1>8. CASE ReleaseWrite(i)
  <2>1. main[i].pc = "releaseWrite"  BY <1>8 DEF ReleaseWrite, At
  <2>2. CASE ReleaseFails(i) /\ file' = file  BY <2>1, <2>2, Destinations, Staying
  <2>3. CASE Put(i, GivenUp(lease[i].seen)) /\ Goto(i, "ended")
    <3>1. Names(lease[i].seen, i) /\ lease[i].seen \in Grants
      BY <2>1, Fields DEF Mine, OwnRecordSeen, LeaseStates
    <3>2. Offered' = i  BY <2>3, <3>1 DEF Put, GivenUp, Offered, Names, Grants
    <3>3. main'[i].pc = "ended"  BY <2>3, <1>g DEF Labels
    <3>4. QED  BY <2>1, <3>2, <3>3 DEF Shown, TurnOf, Open
  <2>4. QED  BY <1>8, <2>2, <2>3 DEF ReleaseWrite
<1>9. CASE EndActivation(i)
  <2>1. main[i].pc = "ended" /\ file' = file  BY <1>9 DEF EndActivation, At
  <2>2. CASE Leave(i)  BY <2>1, <2>2, Leaving
  <2>3. CASE Goto(i, "again")  BY <2>1, <2>3, <1>g, Staying DEF Labels
  <2>4. QED  BY <1>9, <2>2, <2>3 DEF EndActivation
<1>10. QED
  BY <1>1, <1>2, <1>3, <1>4, <1>5, <1>6, <1>7, <1>8, <1>9

LEMMA LoopsShown ==
  ASSUME AllTyped, NEW i \in Roles, Mine(i),
         \/ RenewalTick(i) \/ RenewalEnds(i) \/ RenewRead(i) \/ RenewWrite(i)
         \/ GraceCheck(i) \/ FailbackTick(i) \/ FailbackEnds(i) \/ FailbackProbe(i)
         \/ StopRequest(i) \/ Stall(i) \/ OutageBegins(i) \/ OutageEnds(i)
  PROVE  Shown(i)
<1>1. main'[i].pc = main[i].pc
  <2>1. CASE \/ main' = [main EXCEPT ![i].quit = TRUE]
             \/ main' = [main EXCEPT ![i].stopping = TRUE]
             \/ main' = main
    BY <2>1, Fields DEF MainStates
  <2>2. QED
    BY <2>1 DEF RenewalTick, RenewalEnds, RenewRead, RenewWrite, GraceCheck, FailbackTick,
                FailbackEnds, FailbackProbe, StopRequest, Stall, OutageBegins, OutageEnds
<1>2. CASE file' = file  BY <1>1, <1>2, Staying
<1>3. CASE RenewWrite(i) /\ file' # file
  <2>1. lease[i].seen \in Grants  BY Fields DEF LeaseStates
  <2>2. Offered' = "none"  BY <1>3, <2>1 DEF RenewWrite, Put, Renewed, Grants, Offered
  <2>3. main[i].pc # "down"  BY <1>3 DEF RenewWrite, Renewing, Running
  <2>4. QED  BY <1>1, <2>2, <2>3 DEF Shown, TurnOf, Open
<1>4. QED
  BY <1>2, <1>3
     DEF RenewalTick, RenewalEnds, RenewRead, GraceCheck, FailbackTick, FailbackEnds,
         FailbackProbe, StopRequest, Stall, OutageBegins, OutageEnds

LEMMA TickShows ==
  ASSUME AllTyped, Tick
  PROVE  UNCHANGED <<Turns, Offered>>
<1>1. ASSUME NEW i \in Roles PROVE main'[i].pc = main[i].pc
  <2>1. main'[i] = [main[i] EXCEPT !.drain = IF @ = 0 THEN 0 ELSE @ - 1]  BY DEF Tick
  <2>2. QED  BY <2>1, Fields DEF MainStates
<1>2. Turns' = Turns  BY <1>1 DEF Turns, TurnOf, Open
<1>3. file'.owner = file.owner /\ file'.released = file.released
  BY Fields DEF Tick, OlderGrant, Grants
<1>4. QED  BY <1>2, <1>3 DEF Offered

\* The instances implement Handover, for every value of the constants.
THEOREM KeepsHandover == Spec => HandoverSpec
<1>1. Init => H!Init
  BY DEF Init, H!Init, Turns, TurnOf, Offered, Down, NoGrant
<1>2. IInv /\ [Next]_vars => [H!Next]_<<Turns, Offered>>
  <2> SUFFICES ASSUME IInv, [Next]_vars PROVE [H!Next]_<<Turns, Offered>>  OBVIOUS
  <2>0. AllTyped /\ \A i \in Roles : Mine(i)  BY DEF IInv, OwnGrantIsLive, Mine
  <2>1. CASE Tick  BY <2>0, <2>1, TickShows
  <2>2. ASSUME NEW i \in Roles, Step(i) \/ Environment(i)
        PROVE  [H!Next]_<<Turns, Offered>>
    <3>1. \A j \in Roles \ {i} : main'[j] = main[j]  BY <2>0, <2>2, OnlyActor
    <3>2. CASE Crash(i)
      <4>1. Shown(i)  BY <2>0, <3>2, Leaving DEF Crash
      <4>2. QED  BY <3>1, <4>1, ShownIsHandover
    <3>3. CASE ~Crash(i)
      <4>1. Shown(i)
        BY <2>0, <2>2, <3>3, PassiveShown, ActivateShown, LoopsShown DEF Step, Environment
      <4>2. QED  BY <3>1, <4>1, ShownIsHandover
    <3>4. QED  BY <3>2, <3>3
  <2>3. CASE UNCHANGED vars
    BY <2>3 DEF vars, Turns, TurnOf, Open, Offered
  <2>4. QED  BY <2>1, <2>2, <2>3 DEF Next
<1>3. QED  BY <1>1, <1>2, Inductive, PTL DEF Spec, HandoverSpec, H!Spec, H!vars

-----------------------------------------------------------------------------
(***************************************************************************)
(* The grants and their timings. A handover is honoured, whatever happens; *)
(* and while no goroutine is stalled, an open composition is covered by    *)
(* its own grant, two open compositions need a lost update and are         *)
(* resolved in a bounded time, and an owner that serves is not failed over.*)
(*                                                                         *)
(* Each rests on how late a captured instant can be: a stall is the only   *)
(* delay between an operation's instant and its last step (InTime).        *)
(***************************************************************************)

\* How late the faults spent so far can have made an instance: nothing stalls
\* it for longer than MaxStall a fault.
Budget(f) == IF "stall" \in Faults THEN (MaxFaults - f) * MaxStall ELSE 0

InTime(i) == stall[i] - lease[i].at <= Budget(faults)

\* The horizon leaves room for what the faults still to come can add.
LEMMA BudgetGrows ==
  ASSUME NEW f \in 0..MaxFaults
  PROVE  /\ Budget(f) \in Nat
         /\ f > 0 => Budget(f - 1) = Budget(f) + IF "stall" \in Faults THEN MaxStall ELSE 0
         /\ Budget(f) + Duration <= Horizon
<1> USE OwnershipAssumption
<1>1. MaxFaults - f \in Nat  OBVIOUS
<1>2. (MaxFaults - f) * MaxStall \in Nat  BY <1>1
<1>3. f * MaxStall \in Nat  OBVIOUS
<1>4. (MaxFaults - f) * MaxStall + f * MaxStall = MaxFaults * MaxStall  OBVIOUS
<1>5. f > 0 => (MaxFaults - (f - 1)) * MaxStall = (MaxFaults - f) * MaxStall + MaxStall
  OBVIOUS
<1>6. MaxFaults * MaxStall \in Nat  OBVIOUS
<1>7. QED  BY <1>2, <1>3, <1>4, <1>5, <1>6, LeaseAssumption DEF Budget

\* What one instance's step does to the budget, and to who is stalled or cut
\* off from the file.
LEMMA EnvMoves ==
  ASSUME AllTyped, NEW i \in Roles, Step(i) \/ Environment(i)
  PROVE  /\ faults' \in 0..MaxFaults
         /\ faults' = faults \/ (faults > 0 /\ faults' = faults - 1)
         /\ ~Stall(i) => stall' \in {stall, [stall EXCEPT ![i] = 0]}
         /\ ~OutageBegins(i) => outage' \in {outage, [outage EXCEPT ![i] = FALSE]}
<1>1. faults \in 0..MaxFaults  BY DEF AllTyped, EnvOK
<1>2. \A k : Spend(k) => faults > 0 /\ faults' = faults - 1  BY DEF Spend
<1>3. \A c : \/ Refused(i) \/ Recorded(i)
             \/ PeerHealthy(i, c) \/ PeerUnhealthy(i, c)
             => faults' = faults \/ (faults > 0 /\ faults' = faults - 1)
  BY <1>2 DEF Refused, Recorded, PeerHealthy, PeerUnhealthy
<1>4. faults' = faults \/ (faults > 0 /\ faults' = faults - 1)
  BY <1>2, <1>3
     DEF Step, Environment, env, Start, LoopTop, AcquireRead, AcquireWrite, AcquireConfirm,
         WaitStopped, PassiveFails, PromotionTick, Observe, Probe, AnnounceOwnership,
         StartActivation, BeginActive, EndActive, EndDrain, Join, ReleaseRead, ReleaseWrite,
         EndActivation, RenewalTick, RenewalEnds, RenewRead, RenewWrite, GraceCheck,
         FailbackTick, FailbackEnds, FailbackProbe, Crash, StopRequest, Stall, OutageBegins,
         OutageEnds
<1>5. ~Stall(i) => stall' \in {stall, [stall EXCEPT ![i] = 0]}
  BY DEF Step, Environment, env, Start, LoopTop, AcquireRead, AcquireWrite, AcquireConfirm,
         WaitStopped, PassiveFails, PromotionTick, Observe, Probe, AnnounceOwnership,
         StartActivation, BeginActive, EndActive, EndDrain, Join, ReleaseRead, ReleaseWrite,
         EndActivation, RenewalTick, RenewalEnds, RenewRead, RenewWrite, GraceCheck,
         FailbackTick, FailbackEnds, FailbackProbe, Crash, StopRequest, OutageBegins,
         OutageEnds
<1>6. ~OutageBegins(i) => outage' \in {outage, [outage EXCEPT ![i] = FALSE]}
  BY DEF Step, Environment, env, Start, LoopTop, AcquireRead, AcquireWrite, AcquireConfirm,
         WaitStopped, PassiveFails, PromotionTick, Observe, Probe, AnnounceOwnership,
         StartActivation, BeginActive, EndActive, EndDrain, Join, ReleaseRead, ReleaseWrite,
         EndActivation, RenewalTick, RenewalEnds, RenewRead, RenewWrite, GraceCheck,
         FailbackTick, FailbackEnds, FailbackProbe, Crash, StopRequest, Stall,
         OutageEnds
<1>7. QED  BY <1>1, <1>4, <1>5, <1>6, OwnershipAssumption

\* The operation in flight keeps the instant it captured, or ends.
LEMMA HandleMoves ==
  ASSUME AllTyped, NEW i \in Roles, Step(i) \/ Environment(i)
  PROVE  lease'[i].at \in {lease[i].at, 0}
<1> DEFINE Kept == lease'[i].at \in {lease[i].at, 0}
<1>f. lease \in [Roles -> LeaseStates] /\ lease[i] \in LeaseStates  BY Fields
<1>1. lease' = lease => Kept  OBVIOUS
<1>2. Leave(i) => Kept  BY <1>f DEF Leave, NoHandle
<1>3. EndOperation(i) => Kept  BY <1>f DEF EndOperation, LeaseStates
<1>4. \A g : lease' = [lease EXCEPT ![i].seen = g] => Kept  BY <1>f DEF LeaseStates
<1>5. NotAcquired(i) \/ EnterPassive(i) => Kept  BY <1>3 DEF NotAcquired, EnterPassive
<1>6. AcquireFails(i) => Kept  BY <1>2, <1>5 DEF AcquireFails
<1>7. ReleaseFails(i) => Kept  BY <1>3 DEF ReleaseFails
<1>8. CASE \/ Start(i) \/ LoopTop(i) \/ AcquireRead(i) \/ AcquireWrite(i) \/ WaitStopped(i)
           \/ PassiveFails(i) \/ PromotionTick(i) \/ Observe(i) \/ Probe(i)
           \/ AnnounceOwnership(i) \/ StartActivation(i) \/ BeginActive(i) \/ EndActive(i)
           \/ EndDrain(i) \/ EndActivation(i) \/ RenewalTick(i) \/ RenewalEnds(i)
           \/ GraceCheck(i) \/ FailbackTick(i) \/ FailbackEnds(i) \/ FailbackProbe(i)
           \/ Environment(i)
  BY <1>1, <1>2, <1>3, <1>4, <1>5, <1>6, <1>8
     DEF Start, LoopTop, AcquireRead, AcquireWrite, WaitStopped, PassiveFails, PromotionTick,
         Observe, Probe, AnnounceOwnership, StartActivation, BeginActive, EndActive,
         EndDrain, EndActivation, RenewalTick, RenewalEnds, GraceCheck, FailbackTick,
         FailbackEnds, FailbackProbe, Environment, Crash, StopRequest, Stall, OutageBegins,
         OutageEnds
<1>9. CASE AcquireConfirm(i)
  <2>1. ASSUME NEW o, lease' = [lease EXCEPT ![i] = [@ EXCEPT !.held = TRUE, !.owned = o,
                                                     !.at = 0, !.seen = NoGrant]]
        PROVE  Kept
    BY <2>1, <1>f DEF LeaseStates
  <2>2. QED  BY <1>9, <2>1, <1>2, <1>5, <1>6 DEF AcquireConfirm
<1>10. CASE Join(i)  BY <1>10, <1>f DEF Join, LeaseStates
<1>11. CASE ReleaseRead(i)
  <2>1. lease' = [lease EXCEPT ![i].at = 0] => Kept  BY <1>f DEF LeaseStates
  <2>2. QED  BY <1>11, <2>1, <1>4, <1>7 DEF ReleaseRead
<1>12. CASE ReleaseWrite(i)
  <2>1. lease' = [lease EXCEPT ![i] = [@ EXCEPT !.releasedAt = lease[i].at,
                                                !.at = 0, !.seen = NoGrant]] => Kept
    BY <1>f DEF LeaseStates
  <2>2. QED  BY <1>12, <2>1, <1>7 DEF ReleaseWrite
<1>13. CASE RenewRead(i)
  <2>1. lease' = [lease EXCEPT ![i] = [@ EXCEPT !.held = FALSE, !.at = 0, !.owned = 0]]
          => Kept
    BY <1>f DEF LeaseStates
  <2>2. QED  BY <1>13, <2>1, <1>1, <1>4 DEF RenewRead
<1>14. CASE RenewWrite(i)
  <2>1. ASSUME NEW o, lease' = [lease EXCEPT ![i] = [@ EXCEPT !.owned = o,
                                                     !.at = 0, !.seen = NoGrant]]
        PROVE  Kept
    BY <2>1, <1>f DEF LeaseStates
  <2>2. QED  BY <1>14, <2>1, <1>1 DEF RenewWrite
<1>15. QED
  BY <1>8, <1>9, <1>10, <1>11, <1>12, <1>13, <1>14 DEF Step

\* An instance that lets time pass and is not stalled has nothing in flight.
LEMMA QuietMeansIdle ==
  ASSUME NEW i \in Roles, Mine(i), Quiet(i)
  PROVE  stall[i] # 0 \/ ~InOperation(i)
  BY DEF Mine, LoopsWithActive, Quiet, Running, InOperation, LoopsEnded

\* How late an operation is never exceeds the stalls that were paid for.
LEMMA InTimeNext ==
  ASSUME IInv, \A i \in Roles : InTime(i), [Next]_vars
  PROVE  \A i \in Roles : InTime(i)'
<1>0. AllTyped /\ \A i \in Roles : Mine(i)  BY DEF IInv, OwnGrantIsLive, Mine
<1>a. /\ faults \in 0..MaxFaults
      /\ stall \in [Roles -> 0..MaxStall]
      /\ \A i \in Roles : lease[i] \in LeaseStates /\ lease[i].at \in -Horizon..0
      /\ MaxStall \in Nat /\ Horizon \in Nat
  BY <1>0, Fields, OwnershipAssumption, LeaseAssumption DEF AllTyped, EnvOK, LeaseStates
<1>1. CASE Tick
  <2> SUFFICES ASSUME NEW i \in Roles PROVE InTime(i)'  OBVIOUS
  <2>1. faults' = faults /\ stall'[i] = (IF stall[i] = 0 THEN 0 ELSE stall[i] - 1)
    BY <1>1 DEF Tick
  <2>2. lease'[i].at = IF InOperation(i) THEN Older(lease[i].at) ELSE lease[i].at
    <3>1. lease'[i] = OlderLease(i)  BY <1>1 DEF Tick
    <3>2. QED  BY <3>1, <1>a DEF OlderLease, LeaseStates
  <2>3. stall[i] # 0 \/ ~InOperation(i)  BY <1>0, <1>1, QuietMeansIdle DEF Tick
  <2>4. Budget(faults) \in Nat  BY <1>a, BudgetGrows
  <2>5. stall[i] \in Nat /\ lease[i].at \in Int  BY <1>a
  <2>6. QED  BY <2>1, <2>2, <2>3, <2>4, <2>5 DEF InTime, Older
<1>2. ASSUME NEW j \in Roles, Step(j) \/ Environment(j)
      PROVE  \A i \in Roles : InTime(i)'
  <2> SUFFICES ASSUME NEW i \in Roles PROVE InTime(i)'  OBVIOUS
  <2>1. lease'[i].at \in {lease[i].at, 0}
    BY <1>0, <1>2, HandleMoves, OnlyActor
  <2>2. /\ faults' = faults \/ (faults > 0 /\ faults' = faults - 1)
        /\ ~Stall(j) => stall' \in {stall, [stall EXCEPT ![j] = 0]}
    BY <1>0, <1>2, EnvMoves
  <2>3. /\ Budget(faults) \in Nat /\ Budget(faults') \in Nat
        /\ Budget(faults') >= Budget(faults)
    BY <1>a, <2>2, BudgetGrows
  <2>4. lease[i].at \in -Horizon..0 /\ stall[i] \in Nat  BY <1>a
  <2>5. CASE Stall(j)
    <3>1. "stall" \in Faults /\ faults > 0 /\ faults' = faults - 1
      BY <2>5 DEF Stall, Spend
    <3>2. Budget(faults') = Budget(faults) + MaxStall  BY <1>a, <3>1, BudgetGrows
    <3>3. stall'[i] <= stall[i] + MaxStall /\ stall'[i] \in Nat
      BY <1>a, <2>5 DEF Stall, Running
    <3>4. QED  BY <1>a, <2>1, <2>3, <2>4, <3>2, <3>3 DEF InTime
  <2>6. CASE ~Stall(j)
    <3>1. stall'[i] \in {stall[i], 0}  BY <1>a, <2>2, <2>6
    <3>2. stall'[i] - lease'[i].at <= stall[i] - lease[i].at
      BY <2>1, <2>4, <3>1
    <3>3. QED  BY <2>1, <2>3, <2>4, <3>1, <3>2 DEF InTime
  <2>7. QED  BY <2>5, <2>6
<1>3. CASE UNCHANGED vars  BY <1>3 DEF vars, env, InTime
<1>4. QED  BY <1>1, <1>2, <1>3 DEF Next

(***************************************************************************)
(* The handover is honoured.                                               *)
(***************************************************************************)
\* A Passive turn on its way to the write.
Claiming(i) == main[i].pc \in {"probe", "read", "write"}

\* The first turn, and it alone, reads the lease without a Passive composition.
FirstTurn(i) == main[i].pc \in {"down", "first"} => main[i].passive = "none"

Patient(i) ==
  Claiming(i) /\ main[i].passive # "none" /\ file.released /\ Names(file, i)
    => ~InHandover(i)

\* An instance approaches the write without touching the file or its handle's
\* instants: from its first turn, from a decision, or along the way.
LEMMA Approach ==
  ASSUME AllTyped, NEW i \in Roles, Mine(i), Step(i) \/ Environment(i), Claiming(i)'
  PROVE  /\ file' = file
         /\ lease'[i].at = lease[i].at /\ lease'[i].releasedAt = lease[i].releasedAt
         /\ main'[i].passive = main[i].passive
         /\ \/ Claiming(i)
            \/ main[i].pc = "first" /\ LoopTop(i)
            \/ Observe(i) /\ ~outage[i] /\ Decision(i) # "decline" /\ UNCHANGED <<lease, loops>>
         /\ main'[i].pc = "write" =>
              AcquireRead(i) \/ (main[i].pc = "write" /\ lease'[i] = lease[i])
         /\ \/ main'[i].pc = main[i].pc
            \/ LoopTop(i) \/ AcquireRead(i) \/ Observe(i) \/ Probe(i)
<1> DEFINE Here == /\ lease'[i].at = lease[i].at
                   /\ lease'[i].releasedAt = lease[i].releasedAt
                   /\ main'[i].passive = main[i].passive
<1>f. /\ main \in [Roles -> MainStates] /\ lease \in [Roles -> LeaseStates]
      /\ main[i] \in MainStates /\ lease[i] \in LeaseStates
  BY Fields
<1>g. \A l \in Labels : Goto(i, l) => main'[i].pc = l /\ main'[i].passive = main[i].passive
  BY <1>f DEF Goto, MainStates
<1>d. ~Leave(i) /\ ~NotAcquired(i) /\ ~AcquireFails(i) /\ ~EnterPassive(i)
  BY Destinations DEF Claiming
<1>h. \/ main' = [main EXCEPT ![i].quit = TRUE]
      \/ main' = [main EXCEPT ![i].stopping = TRUE]
      \/ main' = [main EXCEPT ![i].passive = "failed"]
      \/ main' = main
      => main'[i].pc = main[i].pc
  BY <1>f DEF MainStates
<1>1. CASE \/ Start(i) \/ WaitStopped(i) \/ PassiveFails(i) \/ PromotionTick(i)
  BY <1>1, <1>d, <1>g, <1>h
     DEF Claiming, Labels, Start, WaitStopped, PassiveFails, PromotionTick, At
<1>2. CASE LoopTop(i)
  BY <1>2, <1>d, <1>g DEF LoopTop, Labels, Claiming
<1>3. CASE AcquireRead(i)
  <2>1. lease' = [lease EXCEPT ![i].seen = file] /\ Goto(i, "write") /\ UNCHANGED file
        /\ main[i].pc = "read"
    BY <1>3, <1>d DEF AcquireRead, At
  <2>2. Here  BY <2>1, <1>f, <1>g DEF LeaseStates, Labels
  <2>3. QED  BY <1>3, <2>1, <2>2 DEF Claiming
<1>4. CASE AcquireWrite(i) \/ AcquireConfirm(i)
  <2>1. \A p : main' = [main EXCEPT ![i] = [@ EXCEPT !.pc = "acquired", !.passive = p]]
             => main'[i].pc = "acquired"
    BY <1>f DEF MainStates
  <2>2. QED
    BY <1>4, <2>1, <1>d, <1>g DEF AcquireWrite, AcquireConfirm, Labels, Claiming
<1>5. CASE Observe(i)
  <2>1. /\ ~outage[i] /\ Decision(i) # "decline" /\ UNCHANGED <<lease, loops, file>>
        /\ \E l \in {"probe", "read"} : Goto(i, l)
    BY <1>5, <1>d DEF Observe
  <2>2. Here /\ main'[i].pc # "write"  BY <2>1, <1>g DEF Labels
  <2>3. QED  BY <1>5, <2>1, <2>2
<1>6. CASE Probe(i)
  <2>1. Goto(i, "read") /\ UNCHANGED <<lease, file>> /\ main[i].pc = "probe"
    BY <1>6, <1>d DEF Probe, At
  <2>2. QED  BY <1>6, <2>1, <1>g DEF Labels, Claiming
<1>7. CASE AnnounceOwnership(i) \/ StartActivation(i) \/ Join(i) \/ EndActivation(i)
  BY <1>7, <1>d, <1>g
     DEF AnnounceOwnership, StartActivation, Join, EndActivation, Labels, Claiming
<1>8. CASE BeginActive(i)
  <2>1. main' = [main EXCEPT ![i] = [@ EXCEPT !.pc = "joining", !.failed = "active",
                                              !.quit = TRUE]]
          => main'[i].pc = "joining"
    BY <1>f DEF MainStates
  <2>2. QED  BY <1>8, <2>1, <1>g DEF BeginActive, Labels, Claiming
<1>9. CASE EndActive(i)
  <2>1. main'[i].pc = "draining"  BY <1>9, <1>f DEF EndActive, MainStates
  <2>2. QED  BY <2>1 DEF Claiming
<1>10. CASE EndDrain(i)
  <2>1. main'[i].pc = "joining"  BY <1>10, <1>f DEF EndDrain, MainStates
  <2>2. QED  BY <2>1 DEF Claiming
<1>11. CASE ReleaseRead(i) \/ ReleaseWrite(i)
  <2>1. ReleaseFails(i) => main'[i].pc = "ended"  BY Destinations
  <2>2. QED  BY <1>11, <2>1, <1>g DEF ReleaseRead, ReleaseWrite, Labels, Claiming
<1>12. CASE \/ RenewalTick(i) \/ RenewalEnds(i) \/ RenewRead(i) \/ RenewWrite(i) \/ GraceCheck(i)
  <2>1. main'[i].pc = main[i].pc
    BY <1>12, <1>h DEF RenewalTick, RenewalEnds, RenewRead, RenewWrite, GraceCheck
  <2>2. loops[i].renewal # "none"
    BY <1>12 DEF RenewalTick, RenewalEnds, RenewRead, RenewWrite, GraceCheck, Renewing
  <2>3. QED  BY <2>1, <2>2 DEF Mine, LoopsWithActive, Claiming
<1>13. CASE \/ FailbackTick(i) \/ FailbackEnds(i) \/ FailbackProbe(i)
           \/ Crash(i) \/ StopRequest(i) \/ Stall(i) \/ OutageBegins(i) \/ OutageEnds(i)
  <2>1. main' = main \/ main' = [main EXCEPT ![i].quit = TRUE]
                     \/ main' = [main EXCEPT ![i].stopping = TRUE]
    BY <1>13, <1>d DEF FailbackTick, FailbackEnds, FailbackProbe, Crash, StopRequest, Stall,
                      OutageBegins, OutageEnds
  <2>2. main'[i].pc = main[i].pc /\ main'[i].passive = main[i].passive
    BY <2>1, <1>f DEF MainStates
  <2>3. UNCHANGED <<file, lease>>
    BY <1>13, <1>d DEF FailbackTick, FailbackEnds, FailbackProbe, Crash, StopRequest, Stall,
                      OutageBegins, OutageEnds
  <2>4. QED  BY <2>2, <2>3 DEF Claiming
<1>14. QED
  BY <1>1, <1>2, <1>3, <1>4, <1>5, <1>6, <1>7, <1>8, <1>9, <1>10, <1>11, <1>12, <1>13
     DEF Step, Environment

\* An instance on its first turn has no Passive composition yet.
LEMMA FirstTurnStep ==
  ASSUME AllTyped, NEW i \in Roles, FirstTurn(i), Step(i) \/ Environment(i)
  PROVE  FirstTurn(i)'
<1> DEFINE Later == main'[i].pc \notin {"down", "first"}
<1>f. main \in [Roles -> MainStates] /\ main[i] \in MainStates  BY Fields
<1>g. \A l \in Labels : Goto(i, l) => main'[i].pc = l /\ main'[i].passive = main[i].passive
  BY <1>f DEF Goto, MainStates
<1>l. Leave(i) => main'[i].passive = "none"  BY <1>f DEF Leave, Down
<1>a. /\ NotAcquired(i) \/ EnterPassive(i) \/ ReleaseFails(i) => Later
      /\ AcquireFails(i) => Leave(i) \/ Later
  BY Destinations DEF AcquireFails
<1>s. \/ main' = main
      \/ main' = [main EXCEPT ![i].quit = TRUE]
      \/ main' = [main EXCEPT ![i].stopping = TRUE]
      => main'[i].pc = main[i].pc /\ main'[i].passive = main[i].passive
  BY <1>f DEF MainStates
<1>1. CASE \/ Start(i) \/ LoopTop(i) \/ AcquireRead(i) \/ AcquireWrite(i) \/ WaitStopped(i)
           \/ PromotionTick(i) \/ Observe(i) \/ Probe(i)
  BY <1>1, <1>g, <1>l, <1>a
     DEF FirstTurn, Start, LoopTop, AcquireRead, AcquireWrite, WaitStopped, PromotionTick,
         Observe, Probe, Labels
<1>2. CASE AcquireConfirm(i)
  <2>1. main' = [main EXCEPT ![i] = [@ EXCEPT !.pc = "acquired", !.passive = "none"]] => Later
    BY <1>f DEF MainStates
  <2>2. QED  BY <1>2, <2>1, <1>l, <1>a DEF FirstTurn, AcquireConfirm
<1>3. CASE PassiveFails(i)
  <2>1. main'[i].pc = "waiting"  BY <1>3, <1>f DEF PassiveFails, At, MainStates
  <2>2. QED  BY <2>1 DEF FirstTurn
<1>4. CASE AnnounceOwnership(i) \/ StartActivation(i) \/ Join(i) \/ EndActivation(i)
           \/ ReleaseRead(i) \/ ReleaseWrite(i)
  BY <1>4, <1>g, <1>l, <1>a
     DEF FirstTurn, AnnounceOwnership, StartActivation, Join, EndActivation, ReleaseRead,
         ReleaseWrite, Labels
<1>5. CASE BeginActive(i)
  <2>1. main' = [main EXCEPT ![i] = [@ EXCEPT !.pc = "joining", !.failed = "active",
                                              !.quit = TRUE]] => Later
    BY <1>f DEF MainStates
  <2>2. QED  BY <1>5, <2>1, <1>g DEF BeginActive, FirstTurn, Labels
<1>6. CASE EndActive(i) \/ EndDrain(i)
  <2>1. EndActive(i) => main'[i].pc = "draining"  BY <1>f DEF EndActive, MainStates
  <2>2. EndDrain(i) => main'[i].pc = "joining"  BY <1>f DEF EndDrain, MainStates
  <2>3. QED  BY <1>6, <2>1, <2>2 DEF FirstTurn
<1>7. CASE \/ RenewalTick(i) \/ RenewalEnds(i) \/ RenewRead(i) \/ RenewWrite(i)
           \/ GraceCheck(i) \/ FailbackTick(i) \/ FailbackEnds(i) \/ FailbackProbe(i)
           \/ StopRequest(i) \/ Stall(i) \/ OutageBegins(i) \/ OutageEnds(i)
  BY <1>7, <1>s
     DEF FirstTurn, RenewalTick, RenewalEnds, RenewRead, RenewWrite, GraceCheck, FailbackTick,
         FailbackEnds, FailbackProbe, StopRequest, Stall, OutageBegins, OutageEnds
<1>8. CASE Crash(i)  BY <1>8, <1>l DEF Crash, FirstTurn
<1>9. QED
  BY <1>1, <1>2, <1>3, <1>4, <1>5, <1>6, <1>7, <1>8 DEF Step, Environment

\* While an operation waits, the release it must keep its distance from and the
\* instant it captured recede together; and where the horizon stops the one,
\* the other has not come within a Duration of it.
LEMMA HandoverRecedes ==
  ASSUME IInv, \A j \in Roles : InTime(j), NEW i \in Roles, Tick, Claiming(i), ~InHandover(i)
  PROVE  ~InHandover(i)'
<1>0. AllTyped /\ Mine(i)  BY DEF IInv, OwnGrantIsLive, Mine
<1>1. /\ lease[i] \in LeaseStates /\ lease[i].at \in -Horizon..0
      /\ lease[i].releasedAt \in -Horizon..0
      /\ stall[i] \in Nat /\ Horizon \in Nat /\ Duration \in Nat /\ Duration > 0
  BY <1>0, Fields, LeaseAssumption DEF AllTyped, EnvOK, LeaseStates
<1>2. InOperation(i)  BY DEF InOperation, Claiming
<1>3. stall[i] > 0  BY <1>0, <1>1, <1>2, QuietMeansIdle DEF Tick
<1>4. lease[i].at >= 1 - Budget(faults)  BY <1>1, <1>3, <1>0, BudgetGrows DEF InTime, AllTyped, EnvOK
<1>5. Budget(faults) \in Nat /\ Budget(faults) + Duration <= Horizon
  BY <1>0, BudgetGrows DEF AllTyped, EnvOK
<1>6. /\ lease'[i].at = lease[i].at - 1
      /\ lease'[i].releasedAt = Older(lease[i].releasedAt)
  <2>1. lease'[i] = OlderLease(i)  BY DEF Tick
  <2>2. lease[i].at > -Horizon  BY <1>1, <1>4, <1>5
  <2>3. Older(lease[i].at) = lease[i].at - 1  BY <2>2 DEF Older
  <2>4. QED  BY <1>1, <1>2, <2>1, <2>3 DEF OlderLease, LeaseStates
<1>7. QED  BY <1>1, <1>4, <1>5, <1>6 DEF InHandover, Older

PInv ==
  /\ IInv
  /\ \A i \in Roles : InTime(i)
  /\ \A i \in Roles : FirstTurn(i) /\ Patient(i)

\* Both are kept by the peer's steps and by the clock too.
LEMMA PatientNext == PInv /\ [Next]_vars => \A i \in Roles : FirstTurn(i)' /\ Patient(i)'
<1> SUFFICES ASSUME PInv, [Next]_vars, NEW i \in Roles
             PROVE  FirstTurn(i)' /\ Patient(i)'
  OBVIOUS
<1>0. AllTyped /\ \A j \in Roles : Mine(j)  BY DEF PInv, IInv, OwnGrantIsLive, Mine
<1>p. FirstTurn(i) /\ Patient(i)  BY DEF PInv
<1>1. CASE Tick
  <2>1. main'[i].pc = main[i].pc /\ main'[i].passive = main[i].passive
    <3>1. main'[i] = [main[i] EXCEPT !.drain = IF @ = 0 THEN 0 ELSE @ - 1]  BY <1>1 DEF Tick
    <3>2. QED  BY <1>0, <3>1, Fields DEF MainStates
  <2>2. file'.owner = file.owner /\ file'.released = file.released
    BY <1>0, <1>1, Fields DEF Tick, OlderGrant, Grants
  <2>3. FirstTurn(i)'  BY <1>p, <2>1 DEF FirstTurn
  <2>4. ASSUME Claiming(i)', main'[i].passive # "none", file'.released, Names(file, i)'
        PROVE  ~InHandover(i)'
    <3>1. Claiming(i) /\ ~InHandover(i)
      BY <1>p, <2>1, <2>2, <2>4 DEF Patient, Claiming, Names
    <3>2. QED  BY <1>1, <3>1, HandoverRecedes DEF PInv
  <2>5. QED  BY <2>3, <2>4 DEF Patient
<1>2. ASSUME NEW j \in Roles, Step(j) \/ Environment(j)
      PROVE  FirstTurn(i)' /\ Patient(i)'
  <2>1. CASE j # i
    <3>1. main'[i] = main[i] /\ lease'[i] = lease[i]  BY <1>0, <1>2, <2>1, OnlyActor
    <3>2. file' = file \/ ~file'.released \/ ~Names(file', i)
      BY <1>0, <1>2, <2>1, PeerWrites
    <3>3. QED
      BY <1>p, <3>1, <3>2 DEF FirstTurn, Patient, Claiming, InHandover
  <2>2. CASE j = i
    <3>1. FirstTurn(i)'  BY <1>0, <1>p, <1>2, <2>2, FirstTurnStep
    <3>2. ASSUME Claiming(i)', main'[i].passive # "none", file'.released, Names(file', i)
          PROVE  ~InHandover(i)'
      <4>1. /\ file' = file
            /\ lease'[i].at = lease[i].at /\ lease'[i].releasedAt = lease[i].releasedAt
            /\ main'[i].passive = main[i].passive
            /\ \/ Claiming(i)
               \/ main[i].pc = "first"
               \/ Decision(i) # "decline"
        BY <1>0, <1>2, <2>2, <3>2, Approach
      <4>2. CASE Claiming(i)
        BY <1>p, <3>2, <4>1, <4>2 DEF Patient, InHandover
      <4>3. CASE main[i].pc = "first"
        BY <1>p, <3>2, <4>1, <4>3 DEF FirstTurn
      <4>4. CASE Decision(i) # "decline"
        <5>1. file.owner # "none"  BY <3>2, <4>1 DEF Names, Roles
        <5>2. Availability(file, lease[i].at) = "released"
          BY <3>2, <4>1, <5>1 DEF Availability
        <5>3. ~InHandover(i)  BY <3>2, <4>1, <4>4, <5>2 DEF Decision
        <5>4. QED  BY <4>1, <5>3 DEF InHandover
      <4>5. QED  BY <4>1, <4>2, <4>3, <4>4
    <3>3. QED  BY <3>1, <3>2 DEF Patient
  <2>3. QED  BY <2>1, <2>2
<1>3. CASE UNCHANGED vars
  BY <1>p, <1>3 DEF vars, FirstTurn, Patient, Claiming, InHandover
<1>4. QED  BY <1>1, <1>2, <1>3 DEF Next

\* So they hold always.
LEMMA PatientAlways == Spec => []PInv
<1>1. Init => PInv
  <2> SUFFICES ASSUME Init PROVE PInv  OBVIOUS
  <2>1. IInv  BY InitType, LiveInit DEF IInv
  <2>2. \A i \in Roles : Budget(faults) \in Nat
    BY BudgetGrows, OwnershipAssumption DEF Init
  <2>3. \A i \in Roles : main[i] = Down /\ lease[i] = NoHandle /\ stall[i] = 0
    BY DEF Init
  <2>4. \A i \in Roles : InTime(i)  BY <2>2, <2>3 DEF InTime, NoHandle
  <2>5. \A i \in Roles : FirstTurn(i) /\ Patient(i)
    BY <2>3 DEF FirstTurn, Patient, Claiming, Down
  <2>6. QED  BY <2>1, <2>4, <2>5 DEF PInv
<1>2. PInv /\ [Next]_vars => PInv'
  BY InTimeNext, PatientNext, LiveNext, NextType DEF PInv, IInv
<1>3. QED  BY <1>1, <1>2, PTL DEF Spec

\* An instance never takes back, within one Duration, the lease it handed over,
\* under any faults and for any timings.
THEOREM HandoverHonoured == Spec => HandoverIsHonoured
<1>1. PInv /\ [Next]_vars =>
        [\A i \in Roles : Promotes(i) /\ file.released /\ Names(file, i)
                            => ~InHandover(i)]_vars
  BY DEF PInv, Patient, Claiming, Promotes
<1>2. QED  BY <1>1, PatientAlways, PTL DEF Spec, HandoverIsHonoured

(***************************************************************************)
(* Where a step takes its instance.                                        *)
(***************************************************************************)

\* How an instance comes to each label between the write and the drain's end.
LEMMA Arrivals ==
  ASSUME AllTyped, NEW i \in Roles, Step(i) \/ Environment(i)
  PROVE  /\ main'[i].pc = "confirm" => AcquireWrite(i) \/ main[i].pc = "confirm"
         /\ main'[i].pc = "acquired" =>
              (AcquireConfirm(i) /\ main[i].pc = "confirm") \/ main[i].pc = "acquired"
         /\ main'[i].pc = "starting" => main[i].pc \in {"acquired", "starting"}
         /\ main'[i].pc = "activating" => StartActivation(i) \/ main[i].pc = "activating"
         /\ main'[i].pc = "active" => main[i].pc \in {"activating", "active"}
         /\ main'[i].pc = "draining" =>
              \/ main[i].pc = "draining" /\ main'[i].drain = main[i].drain
              \/ main[i].pc = "active" /\ main'[i].drain = ShutdownTimeout
<1> DEFINE Elsewhere == main'[i].pc \notin {"confirm", "acquired", "starting", "activating",
                                            "active", "draining"}
<1>f. main \in [Roles -> MainStates] /\ main[i] \in MainStates  BY Fields
<1>g. \A l \in Labels : Goto(i, l) => main'[i].pc = l
  BY Destinations
<1>a. Leave(i) \/ NotAcquired(i) \/ EnterPassive(i) \/ AcquireFails(i) \/ ReleaseFails(i)
        => Elsewhere
  BY Destinations
<1>s. \/ main' = main
      \/ main' = [main EXCEPT ![i].quit = TRUE]
      \/ main' = [main EXCEPT ![i].stopping = TRUE]
      \/ main' = [main EXCEPT ![i].passive = "failed"]
      => main'[i].pc = main[i].pc /\ main'[i].drain = main[i].drain
  BY <1>f DEF MainStates
<1>1. CASE \/ Start(i) \/ LoopTop(i) \/ AcquireRead(i) \/ WaitStopped(i)
           \/ PromotionTick(i) \/ Observe(i) \/ Probe(i)
  <2>1. Elsewhere
    BY <1>1, <1>g, <1>a
       DEF Start, LoopTop, AcquireRead, WaitStopped, PromotionTick, Observe, Probe, Labels
  <2>2. QED  BY <2>1
<1>2. CASE AcquireWrite(i)
  BY <1>2, <1>g, <1>a DEF AcquireWrite, Labels
<1>3. CASE AcquireConfirm(i)
  <2>1. main' = [main EXCEPT ![i] = [@ EXCEPT !.pc = "acquired", !.passive = "none"]]
          => main'[i].pc = "acquired"
    BY <1>f DEF MainStates
  <2>2. main[i].pc = "confirm"  BY <1>3 DEF AcquireConfirm, At
  <2>3. Elsewhere \/ main'[i].pc = "acquired"  BY <1>3, <2>1, <1>a DEF AcquireConfirm
  <2>4. QED  BY <1>3, <2>2, <2>3
<1>4. CASE AnnounceOwnership(i) \/ StartActivation(i)
  BY <1>4, <1>g, <1>a DEF AnnounceOwnership, StartActivation, At, Labels
<1>5. CASE BeginActive(i)
  <2>1. main' = [main EXCEPT ![i] = [@ EXCEPT !.pc = "joining", !.failed = "active",
                                              !.quit = TRUE]] => Elsewhere
    BY <1>f DEF MainStates
  <2>2. QED  BY <1>5, <2>1, <1>g DEF BeginActive, At, Labels
<1>6. CASE EndActive(i)
  <2>1. main'[i].pc = "draining" /\ main'[i].drain = ShutdownTimeout
    BY <1>6, <1>f DEF EndActive, MainStates
  <2>2. QED  BY <1>6, <2>1 DEF EndActive, At
<1>7. CASE EndDrain(i)
  <2>1. main'[i].pc = "joining"  BY <1>7, <1>f DEF EndDrain, MainStates
  <2>2. QED  BY <2>1
<1>8. CASE Join(i) \/ ReleaseRead(i) \/ ReleaseWrite(i) \/ EndActivation(i)
  <2>1. Elsewhere
    BY <1>8, <1>g, <1>a DEF Join, ReleaseRead, ReleaseWrite, EndActivation, Labels
  <2>2. QED  BY <2>1
<1>9. CASE \/ RenewalTick(i) \/ RenewalEnds(i) \/ RenewRead(i) \/ RenewWrite(i)
           \/ GraceCheck(i) \/ FailbackTick(i) \/ FailbackEnds(i) \/ FailbackProbe(i)
           \/ PassiveFails(i) \/ StopRequest(i) \/ Stall(i) \/ OutageBegins(i) \/ OutageEnds(i)
  <2>1. main'[i].pc = main[i].pc /\ main'[i].drain = main[i].drain
    BY <1>9, <1>s
       DEF RenewalTick, RenewalEnds, RenewRead, RenewWrite, GraceCheck, FailbackTick,
           FailbackEnds, FailbackProbe, PassiveFails, StopRequest, Stall, OutageBegins,
           OutageEnds
  <2>2. QED  BY <2>1
<1>10. CASE Crash(i)
  <2>1. Elsewhere  BY <1>10, <1>a DEF Crash
  <2>2. QED  BY <2>1
<1>11. QED
  BY <1>1, <1>2, <1>3, <1>4, <1>5, <1>6, <1>7, <1>8, <1>9, <1>10 DEF Step, Environment

\* The renewal loop is started with an activation, goes round, and ends.
SameRound(i) ==
  loops'[i].renewIn = loops[i].renewIn /\ loops'[i].renewDue = loops[i].renewDue

LEMMA RenewalMoves ==
  ASSUME AllTyped, NEW i \in Roles, Step(i) \/ Environment(i)
  PROVE  \/ loops'[i].renewal = "none"
         \/ loops'[i].renewal = loops[i].renewal /\ SameRound(i)
         \/ /\ StartActivation(i) /\ main'[i].pc = "activating"
            /\ loops'[i].renewal = "idle" /\ loops'[i].renewIn = RenewalInterval
            /\ ~loops'[i].renewDue
         \/ /\ RenewalTick(i) /\ loops'[i].renewal = "read"
            /\ loops'[i].renewIn = loops[i].renewIn
         \/ /\ RenewRead(i) /\ ~outage[i] /\ ~TakenOver(i) /\ loops'[i].renewal = "write"
            /\ SameRound(i)
         \/ /\ RenewRead(i) \/ RenewWrite(i)
            /\ outage[i] /\ loops'[i].renewal = "check" /\ SameRound(i)
         \/ /\ RenewWrite(i) /\ ~outage[i] /\ loops'[i].renewal = "idle" /\ SameRound(i)
         \/ /\ GraceCheck(i) /\ WithinGrace(lease[i].owned) /\ loops'[i].renewal = "idle"
            /\ SameRound(i)
<1> DEFINE Ended == loops'[i].renewal = "none"
           Same  == loops'[i].renewal = loops[i].renewal /\ SameRound(i)
<1>f. /\ loops \in [Roles -> LoopStates] /\ loops[i] \in LoopStates
      /\ main \in [Roles -> MainStates] /\ main[i] \in MainStates
  BY Fields
<1>n. loops' = [loops EXCEPT ![i] = NoLoops] => Ended  BY <1>f DEF NoLoops
<1>a. /\ Leave(i) \/ EnterPassive(i) \/ StopRenewal(i) => Ended
      /\ loops' = loops => Same
  BY Destinations DEF SameRound
<1>b. NotAcquired(i) \/ AcquireFails(i) => Ended \/ Same
  BY <1>a DEF NotAcquired, AcquireFails
<1>c. StopFailback(i) => Same  BY <1>f DEF StopFailback, LoopStates, SameRound
<1>g. \A l : loops' = [loops EXCEPT ![i].renewal = l]
              => loops'[i].renewal = l /\ SameRound(i)
  BY <1>f DEF LoopStates, SameRound
<1>1. CASE \/ Start(i) \/ LoopTop(i) \/ AcquireRead(i) \/ AcquireWrite(i)
           \/ WaitStopped(i) \/ PassiveFails(i) \/ Observe(i) \/ Probe(i)
  BY <1>1, <1>a, <1>b
     DEF Start, LoopTop, AcquireRead, AcquireWrite, WaitStopped, PassiveFails, Observe, Probe
<1>2. CASE AcquireConfirm(i)  BY <1>2, <1>a, <1>b, <1>n DEF AcquireConfirm
<1>3. CASE PromotionTick(i)
  <2>1. Same  BY <1>3, <1>f DEF PromotionTick, LoopStates, SameRound
  <2>2. QED  BY <2>1
<1>4. CASE StartActivation(i)
  <2>1. loops' = [loops EXCEPT ![i] = LoopsStarted(i)] =>
          /\ loops'[i].renewal = "idle" /\ loops'[i].renewIn = RenewalInterval
          /\ ~loops'[i].renewDue
    BY <1>f DEF LoopsStarted, NoLoops
  <2>2. Goto(i, "activating") => main'[i].pc = "activating"  BY Destinations DEF Labels
  <2>3. QED  BY <1>4, <2>1, <2>2, <1>a DEF StartActivation
<1>5. CASE \/ AnnounceOwnership(i) \/ BeginActive(i) \/ EndActive(i) \/ EndDrain(i)
           \/ Join(i) \/ ReleaseRead(i) \/ ReleaseWrite(i) \/ EndActivation(i)
  BY <1>5, <1>a, <1>n
     DEF AnnounceOwnership, BeginActive, EndActive, EndDrain, Join, ReleaseRead, ReleaseWrite,
         EndActivation
<1>6. CASE RenewalTick(i)
  <2>1. loops'[i].renewal = "read" /\ loops'[i].renewIn = loops[i].renewIn
    BY <1>6, <1>f DEF RenewalTick, LoopStates
  <2>2. QED  BY <1>6, <2>1
<1>7. CASE RenewalEnds(i)  BY <1>7, <1>a DEF RenewalEnds
<1>8. CASE RenewRead(i)  BY <1>8, <1>a, <1>g DEF RenewRead
<1>9. CASE RenewWrite(i)  BY <1>9, <1>g DEF RenewWrite
<1>10. CASE GraceCheck(i)  BY <1>10, <1>a, <1>g DEF GraceCheck
<1>11. CASE FailbackTick(i)
  <2>1. Same  BY <1>11, <1>f DEF FailbackTick, LoopStates, SameRound
  <2>2. QED  BY <2>1
<1>12. CASE FailbackEnds(i)  BY <1>12, <1>c DEF FailbackEnds
<1>13. CASE FailbackProbe(i)
  <2>1. \A t : loops' = [loops EXCEPT ![i] = [@ EXCEPT !.failback = "idle", !.stable = t]]
               => Same
    BY <1>f DEF LoopStates, SameRound
  <2>2. QED  BY <1>13, <2>1, <1>c DEF FailbackProbe
<1>14. CASE Crash(i) \/ StopRequest(i) \/ Stall(i) \/ OutageBegins(i) \/ OutageEnds(i)
  BY <1>14, <1>a DEF Crash, StopRequest, Stall, OutageBegins, OutageEnds
<1>15. QED
  BY <1>1, <1>2, <1>3, <1>4, <1>5, <1>6, <1>7, <1>8, <1>9, <1>10, <1>11, <1>12, <1>13, <1>14
     DEF Step, Environment

(***************************************************************************)
(* Without stalls: whatever is due is done before time passes.             *)
(***************************************************************************)
ReadFree(i) == main[i].pc = "write" => Free(lease[i].seen, 0)

Ticking(i) == loops[i].renewal # "none" => loops[i].renewIn > 0

Prompt ==
  /\ IInv
  /\ \A i \in Roles : InTime(i) /\ ReadFree(i) /\ Ticking(i)

\* Nobody is stalled, and every captured instant is the present one.
LEMMA NoDelay ==
  ASSUME "stall" \notin Faults, AllTyped, NEW i \in Roles, InTime(i)
  PROVE  stall[i] = 0 /\ lease[i].at = 0
<1>1. stall[i] \in Nat /\ lease[i].at \in -Horizon..0
  BY Fields, OwnershipAssumption DEF AllTyped, EnvOK, LeaseStates
<1>2. Budget(faults) = 0  BY DEF Budget
<1>3. QED  BY <1>1, <1>2 DEF InTime

\* What lets time pass: an instance that is down, waits, serves or drains.
LEMMA QuietStates ==
  ASSUME "stall" \notin Faults, AllTyped, NEW i \in Roles, InTime(i), Quiet(i)
  PROVE  \/ main[i].pc \in {"down", "waiting"}
         \/ /\ main[i].pc = "active" /\ ~Cancelled(i)
            /\ loops[i].renewal = "idle" /\ ~loops[i].renewDue
         \/ /\ main[i].pc = "draining" /\ main[i].drain > 0
            /\ loops[i].renewal = "none"
  BY NoDelay DEF Quiet, Running, LoopsEnded

\* What the passage of time does to one instance.
LEMMA TickMoves ==
  ASSUME AllTyped, NEW i \in Roles, Tick
  PROVE  /\ main'[i].pc = main[i].pc /\ main'[i].passive = main[i].passive
         /\ main'[i].drain = IF main[i].drain = 0 THEN 0 ELSE main[i].drain - 1
         /\ lease'[i] = OlderLease(i)
         /\ loops'[i].renewal = loops[i].renewal
         /\ loops'[i].renewIn = Rewind(loops[i].renewIn, RenewalInterval)
         /\ loops'[i].renewDue <=> loops[i].renewDue \/ Fires(loops[i].renewIn)
         /\ UNCHANGED <<outage, faults, lost>>
<1>1. main'[i] = [main[i] EXCEPT !.drain = IF @ = 0 THEN 0 ELSE @ - 1]  BY DEF Tick
<1>2. lease'[i] = OlderLease(i) /\ loops'[i] = OlderLoops(loops[i])  BY DEF Tick
<1>3. /\ main'[i].pc = main[i].pc /\ main'[i].passive = main[i].passive
      /\ main'[i].drain = IF main[i].drain = 0 THEN 0 ELSE main[i].drain - 1
  BY <1>1, Fields DEF MainStates
<1>4. /\ loops'[i].renewal = loops[i].renewal
      /\ loops'[i].renewIn = Rewind(loops[i].renewIn, RenewalInterval)
      /\ loops'[i].renewDue <=> loops[i].renewDue \/ Fires(loops[i].renewIn)
  <2>1. loops[i] \in LoopStates  BY Fields
  <2>2. loops'[i].renewal = loops[i].renewal  BY <1>2, <2>1, SMT DEF OlderLoops, LoopStates
  <2>3. loops'[i].renewIn = Rewind(loops[i].renewIn, RenewalInterval)
    BY <1>2, <2>1, SMT DEF OlderLoops, LoopStates
  <2>4. loops'[i].renewDue <=> loops[i].renewDue \/ Fires(loops[i].renewIn)
    <3> DEFINE due == loops[i].renewDue \/ Fires(loops[i].renewIn)
    <3>1. due \in BOOLEAN  OBVIOUS
    <3>2. \A b \in BOOLEAN : \A r, c, d, s :
            [loops[i] EXCEPT !.renewDue = b, !.renewIn = r, !.checkDue = c, !.checkIn = d,
                             !.stable = s].renewDue = b
      BY <2>1 DEF LoopStates
    <3>3. loops'[i] = [loops[i] EXCEPT
            !.renewDue = due,
            !.renewIn = Rewind(@, RenewalInterval),
            !.checkDue = @ \/ Fires(loops[i].checkIn),
            !.checkIn = Rewind(@, HealthCheckInterval),
            !.stable = IF @ = -1 \/ @ >= FailbackStabilization THEN @ ELSE @ + 1]
      BY <1>2 DEF OlderLoops
    <3> HIDE DEF due
    <3>4. loops'[i].renewDue = due  BY <3>1, <3>2, <3>3
    <3>5. QED  BY <3>4 DEF due
  <2>5. QED  BY <2>2, <2>3, <2>4
<1>5. UNCHANGED <<outage, faults, lost>>  BY DEF Tick
<1>6. QED  BY <1>2, <1>3, <1>4, <1>5

\* Without a stall nobody is late: what was read is still so, and a ticker that
\* has run out is due.
LEMMA PromptNext ==
  ASSUME "stall" \notin Faults, Prompt, [Next]_vars
  PROVE  Prompt'
<1>0. AllTyped /\ \A j \in Roles : Mine(j) /\ InTime(j)
  BY DEF Prompt, IInv, OwnGrantIsLive, Mine
<1>1. IInv' /\ \A i \in Roles : InTime(i)'
  BY InTimeNext, LiveNext, NextType DEF Prompt, IInv
<1>2. ASSUME NEW i \in Roles PROVE ReadFree(i)' /\ Ticking(i)'
  <2>0. ReadFree(i) /\ Ticking(i)  BY DEF Prompt
  <2>1. CASE Tick
    <3>1. main[i].pc # "write"
      BY <1>0, <2>1, QuietStates DEF Tick
    <3>2. ReadFree(i)'  BY <1>0, <2>1, <3>1, TickMoves DEF ReadFree
    <3>3. loops[i].renewIn \in 0..RenewalInterval /\ RenewalInterval \in Nat \ {0}
      BY <1>0, Fields, LeaseAssumption DEF LoopStates
    <3>4. Ticking(i)'
      BY <1>0, <2>0, <2>1, <3>3, TickMoves DEF Ticking, Rewind
    <3>5. QED  BY <3>2, <3>4
  <2>2. ASSUME NEW j \in Roles, Step(j) \/ Environment(j)
        PROVE  ReadFree(i)' /\ Ticking(i)'
    <3>1. CASE j # i
      BY <1>0, <2>0, <2>2, <3>1, OnlyActor DEF ReadFree, Ticking
    <3>2. CASE j = i
      <4>1. ASSUME main'[i].pc = "write" PROVE Free(lease'[i].seen, 0)
        <5>1. AcquireRead(i) \/ (main[i].pc = "write" /\ lease'[i] = lease[i])
          BY <1>0, <2>2, <3>2, <4>1, Approach DEF Claiming
        <5>2. CASE AcquireRead(i)
          <6>1. Free(file, lease[i].at) /\ lease' = [lease EXCEPT ![i].seen = file]
            BY <1>0, <4>1, <5>2, Destinations DEF AcquireRead
          <6>2. lease'[i].seen = file  BY <1>0, <6>1, Fields DEF LeaseStates
          <6>3. QED  BY <1>0, <6>1, <6>2, NoDelay
        <5>3. QED  BY <2>0, <5>1, <5>2 DEF ReadFree
      <4>2. Ticking(i)'
        <5>1. RenewalInterval > 0  BY LeaseAssumption
        <5>2. \/ loops'[i].renewal = "none"
              \/ loops'[i].renewIn = RenewalInterval
              \/ loops'[i].renewIn = loops[i].renewIn /\ loops[i].renewal # "none"
          BY <1>0, <2>2, <3>2, RenewalMoves
             DEF SameRound, RenewalTick, RenewRead, RenewWrite, GraceCheck, Renewing
        <5>3. QED  BY <2>0, <5>1, <5>2 DEF Ticking
      <4>3. QED  BY <4>1, <4>2 DEF ReadFree
    <3>3. QED  BY <3>1, <3>2
  <2>3. CASE UNCHANGED vars  BY <2>0, <2>3 DEF vars, ReadFree, Ticking
  <2>4. QED  BY <2>1, <2>2, <2>3 DEF Next
<1>3. QED  BY <1>1, <1>2 DEF Prompt

LEMMA InTimeInit == Init => \A i \in Roles : InTime(i)
<1>1. Init => Budget(faults) \in Nat  BY BudgetGrows, OwnershipAssumption DEF Init
<1>2. QED  BY <1>1 DEF Init, InTime, NoHandle

LEMMA PromptInit == Init => Prompt
<1>1. Init => IInv /\ \A i \in Roles : InTime(i)
  BY InitType, LiveInit, InTimeInit DEF IInv
<1>2. Init => \A i \in Roles : ReadFree(i) /\ Ticking(i)
  BY DEF Init, ReadFree, Ticking, Down, NoLoops
<1>3. QED  BY <1>1, <1>2 DEF Prompt

(***************************************************************************)
(* Without stalls and outages: an open composition is covered by its grant.*)
(***************************************************************************)
\* What is left of the drain's bound is still to be paid for by the grant.
Drained(i) == IF main[i].pc = "draining" THEN ShutdownTimeout - main[i].drain ELSE 0

Accessible(i) == ~outage[i] /\ loops[i].renewal # "check"

Fresh(i) ==
  main[i].pc \in {"confirm", "acquired", "starting"} =>
    Names(file, i) /\ file.expires = Duration

Covered(i) ==
  Open(i) =>
    /\ Names(file, i)
    /\ file.expires >= Duration - RenewalInterval - Drained(i)
    /\ loops[i].renewal = "idle" /\ ~loops[i].renewDue
         => file.expires >= Duration - RenewalInterval + loops[i].renewIn

Granting == \A i \in Roles : Accessible(i) /\ (~lost => Fresh(i) /\ Covered(i))

Calm ==
  /\ "stall" \notin Faults
  /\ "outage" \notin Faults
  /\ RenewalInterval + ShutdownTimeout < Duration

LEMMA GrantingInit == Init => Granting
  BY DEF Init, Granting, Accessible, Fresh, Covered, Open, Down, NoLoops

\* From its confirmation to the end of its drain an instance's grant is live.
LEMMA GrantLives ==
  ASSUME Calm, AllTyped, NEW i \in Roles, Mine(i), Fresh(i), Covered(i),
         main[i].pc \in {"confirm", "acquired", "starting"} \/ Open(i)
  PROVE  Names(file, i) /\ ~file.released /\ file.expires > 0
<1>1. main[i].drain \in 0..ShutdownTimeout /\ file.expires \in Int
  BY Fields DEF MainStates, Grants, Instants
<1>2. /\ ShutdownTimeout \in Nat /\ RenewalInterval \in Nat /\ Duration \in Nat
      /\ Duration > 0
  BY OwnershipAssumption, LeaseAssumption
<1>3. Drained(i) \in Int /\ Drained(i) <= ShutdownTimeout  BY <1>1, <1>2 DEF Drained
<1>4. main[i].pc \in Holding  BY DEF Open, Holding
<1>5. Names(file, i) /\ file.expires > 0
  BY <1>1, <1>2, <1>3 DEF Calm, Fresh, Covered
<1>6. QED  BY <1>4, <1>5 DEF Mine, LiveGrant

\* The other instance cannot write over a live grant without losing an update.
LEMMA PeerRefrains ==
  ASSUME Calm, Prompt, Granting, NEW i \in Roles, NEW j \in Roles \ {i},
         Step(j) \/ Environment(j), ~lost',
         main[i].pc \in {"confirm", "acquired", "starting"} \/ Open(i)
  PROVE  file' = file
<1>0. AllTyped /\ Mine(i) /\ Mine(j) /\ ReadFree(j)
  BY DEF Prompt, IInv, OwnGrantIsLive, Mine
<1>1. SUFFICES ASSUME file' # file PROVE FALSE  OBVIOUS
<1>2. file = lease[j].seen /\ ~lost
  BY <1>0, <1>1, WritesOwn DEF Put
<1>3. Names(file, i) /\ ~file.released /\ file.expires > 0
  BY <1>0, <1>2, GrantLives DEF Granting
<1>4. ~Names(file, j)  BY <1>3 DEF Names
<1>5. AcquireWrite(j)  BY <1>0, <1>1, <1>2, <1>4, WritesOwn
<1>6. Free(file, 0)  BY <1>0, <1>2, <1>5 DEF AcquireWrite, At, ReadFree
<1>7. file.expires \in Int  BY <1>0, Fields DEF Grants, Instants
<1>8. QED  BY <1>3, <1>6, <1>7 DEF Free, Expired, Names, Roles

\* Without outages no renewal meets a file it cannot read.
LEMMA AccessibleStep ==
  ASSUME "outage" \notin Faults, AllTyped, NEW i \in Roles, Accessible(i), Step(i) \/ Environment(i)
  PROVE  Accessible(i)'
<1>1. ~OutageBegins(i)  BY DEF OutageBegins, Spend
<1>2. outage' \in {outage, [outage EXCEPT ![i] = FALSE]} /\ outage \in [Roles -> BOOLEAN]
  BY <1>1, EnvMoves DEF AllTyped, EnvOK
<1>3. ~outage'[i]  BY <1>2 DEF Accessible
<1>4. loops'[i].renewal # "check"
  BY RenewalMoves DEF Accessible
<1>5. QED  BY <1>3, <1>4 DEF Accessible

\* A grant that was just written names its writer and is as long as it can be.
LEMMA FreshStep ==
  ASSUME Calm, Prompt, Granting, NEW i \in Roles, Step(i) \/ Environment(i), ~lost'
  PROVE  Fresh(i)'
<1>0. AllTyped /\ Mine(i) /\ InTime(i)  BY DEF Prompt, IInv, OwnGrantIsLive, Mine
<1>1. ~lost  BY <1>0, WritesOwn DEF Put
<1>2. SUFFICES ASSUME main'[i].pc \in {"confirm", "acquired", "starting"}
               PROVE  Names(file', i) /\ file'.expires = Duration
  BY DEF Fresh
<1>3. CASE AcquireWrite(i)
  <2>1. file' = Granted(i, lease[i].at)
    BY <1>2, <1>0, <1>3, Destinations DEF AcquireWrite, Put
  <2>2. lease[i].at = 0  BY <1>0, NoDelay DEF Calm
  <2>3. QED  BY <2>1, <2>2, LeaseAssumption DEF Granted, Names
<1>4. CASE ~AcquireWrite(i)
  <2>1. main[i].pc \in {"confirm", "acquired", "starting"}
    BY <1>0, <1>2, <1>4, Arrivals
  <2>2. ~RenewWrite(i) /\ ~ReleaseWrite(i)
    BY <1>0, <2>1 DEF Mine, LoopsWithActive, RenewWrite, ReleaseWrite, Renewing, At
  <2>3. file' = file  BY <1>0, <1>4, <2>2, WritesOwn
  <2>4. QED  BY <1>1, <2>1, <2>3 DEF Granting, Fresh
<1>5. QED  BY <1>3, <1>4

\* What renewing, stepping down and draining take of the grant is counted.
LEMMA CoveredStep ==
  ASSUME Calm, Prompt, Granting, NEW i \in Roles, Step(i) \/ Environment(i), ~lost'
  PROVE  Covered(i)'
<1>0. AllTyped /\ AllTyped' /\ Mine(i) /\ InTime(i)
  <2>1. AllTyped  BY DEF Prompt, IInv
  <2>2. AllTyped'  BY <2>1, NextType DEF Next
  <2>3. QED  BY <2>1, <2>2 DEF Prompt, IInv, OwnGrantIsLive, Mine
<1>1. ~lost /\ Accessible(i) /\ Accessible(i)' /\ Fresh(i) /\ Covered(i)
  BY <1>0, WritesOwn, AccessibleStep DEF Put, Granting, Calm
<1>2. SUFFICES ASSUME Open(i)'
      PROVE  /\ Names(file', i)
             /\ file'.expires >= Duration - RenewalInterval - Drained(i)'
             /\ loops'[i].renewal = "idle" /\ ~loops'[i].renewDue
                  => file'.expires >= Duration - RenewalInterval + loops'[i].renewIn
  BY DEF Covered
<1>3. /\ Duration \in Nat /\ RenewalInterval \in Nat /\ ShutdownTimeout \in Nat
      /\ file.expires \in Int
      /\ loops'[i].renewIn \in 0..RenewalInterval
      /\ main'[i].drain \in 0..ShutdownTimeout
  BY <1>0, OwnershipAssumption, LeaseAssumption
     DEF AllTyped, Typed, MainOK, LoopsOK, Grants, Instants, LoopStates, MainStates
<1>4. Drained(i)' \in Nat  BY <1>3 DEF Drained
<1>5. CASE StartActivation(i)
  <2>1. Names(file, i) /\ file.expires = Duration /\ file' = file
    BY <1>1, <1>5 DEF StartActivation, At, Fresh
  <2>2. QED  BY <1>3, <1>4, <2>1
<1>6. CASE ~StartActivation(i)
  <2>1. Open(i) /\ (Drained(i)' = Drained(i) \/ main[i].pc = "active")
    BY <1>0, <1>2, <1>4, <1>6, Arrivals DEF Open, Drained
  <2>2. CASE file' = file /\ ~RenewWrite(i)
    <3>1. Names(file, i) /\ file.expires >= Duration - RenewalInterval - Drained(i)
      BY <1>1, <2>1 DEF Covered
    <3>2. file.expires >= Duration - RenewalInterval - Drained(i)'
      BY <1>3, <1>4, <2>1, <3>1 DEF Drained
    <3>3. loops'[i].renewal = "idle" /\ ~loops'[i].renewDue
            => loops[i].renewal = "idle" /\ SameRound(i)
      BY <1>0, <1>1, <1>6, <2>2, RenewalMoves DEF Accessible, GraceCheck, Renewing
    <3>4. QED  BY <1>1, <2>1, <2>2, <3>1, <3>2, <3>3 DEF Covered, SameRound
  <2>3. CASE RenewWrite(i)
    <3>1. file' = Renewed(lease[i].seen, lease[i].at) /\ Names(lease[i].seen, i)
      BY <1>0, <1>1, <2>3 DEF RenewWrite, Renewing, Put, Accessible, Mine, OwnRecordSeen
    <3>2. lease[i].at = 0  BY <1>0, NoDelay DEF Calm
    <3>3. lease[i].seen \in Grants  BY <1>0, Fields DEF LeaseStates
    <3>4. Names(file', i) /\ file'.expires = Duration
      BY <1>3, <3>1, <3>2, <3>3 DEF Renewed, Names, Grants
    <3>5. QED  BY <1>3, <1>4, <3>4
  <2>4. ~AcquireWrite(i) /\ ~ReleaseWrite(i)
    BY <2>1 DEF AcquireWrite, ReleaseWrite, At, Open
  <2>5. QED  BY <1>0, <2>2, <2>3, <2>4, WritesOwn
<1>7. QED  BY <1>5, <1>6

\* Time takes as much from the grant as from what is left to do.
LEMMA GrantingTick ==
  ASSUME Calm, Prompt, Granting, Tick
  PROVE  Granting'
<1>0. AllTyped /\ \A i \in Roles : Mine(i) /\ InTime(i) /\ Ticking(i)
  BY DEF Prompt, IInv, OwnGrantIsLive, Mine
<1> SUFFICES ASSUME NEW i \in Roles PROVE Accessible(i)' /\ (~lost' => Fresh(i)' /\ Covered(i)')
  BY DEF Granting
<1>1. Accessible(i)'  BY <1>0, TickMoves DEF Granting, Accessible
<1>2. ASSUME ~lost' PROVE Fresh(i)' /\ Covered(i)'
  <2>1. Fresh(i) /\ Covered(i)  BY <1>0, <1>2, TickMoves DEF Granting
  <2>2. Quiet(i)  BY DEF Tick
  <2>3. Fresh(i)'  BY <1>0, <2>2, QuietStates, TickMoves DEF Calm, Fresh
  <2>4. ASSUME Open(i)'
        PROVE  /\ Names(file', i)
               /\ file'.expires >= Duration - RenewalInterval - Drained(i)'
               /\ loops'[i].renewal = "idle" /\ ~loops'[i].renewDue
                    => file'.expires >= Duration - RenewalInterval + loops'[i].renewIn
    <3>1. Open(i)  BY <1>0, <2>4, TickMoves DEF Open
    <3>2. Names(file, i) /\ file.expires > 0
      BY <1>0, <2>1, <3>1, GrantLives
    <3>3. /\ Duration \in Nat /\ RenewalInterval \in Nat \ {0} /\ ShutdownTimeout \in Nat
          /\ file.expires \in Int /\ Horizon \in Nat
          /\ loops[i].renewIn \in 0..RenewalInterval
          /\ main[i].drain \in 0..ShutdownTimeout
      BY <1>0, Fields, OwnershipAssumption, LeaseAssumption
         DEF Grants, Instants, LoopStates, MainStates
    <3>4. file'.owner = file.owner /\ file'.expires = file.expires - 1
      <4>1. file' = [file EXCEPT !.expires = Older(@)]
        BY <3>2 DEF Tick, OlderGrant, Names, Roles
      <4>2. Older(file.expires) = file.expires - 1  BY <3>2, <3>3 DEF Older
      <4>3. QED  BY <1>0, <4>1, <4>2, Fields DEF Grants
    <3>5. CASE main[i].pc = "active"
      <4>1. loops[i].renewal = "idle" /\ ~loops[i].renewDue /\ loops[i].renewIn > 0
        BY <1>0, <2>2, <3>5, QuietStates DEF Calm, Ticking
      <4>2. file.expires >= Duration - RenewalInterval + loops[i].renewIn
        BY <2>1, <3>1, <4>1 DEF Covered
      <4>3. Drained(i)' = 0  BY <1>0, <3>5, TickMoves DEF Drained
      <4>4. ~loops'[i].renewDue => loops'[i].renewIn = loops[i].renewIn - 1
        BY <1>0, <3>3, <4>1, TickMoves DEF Fires, Rewind
      <4>5. QED  BY <3>2, <3>3, <3>4, <4>1, <4>2, <4>3, <4>4 DEF Names
    <3>6. CASE main[i].pc = "draining"
      <4>1. main[i].drain > 0 /\ loops[i].renewal = "none"
        BY <1>0, <2>2, <3>6, QuietStates DEF Calm
      <4>2. main'[i].drain = main[i].drain - 1 /\ main'[i].pc = "draining"
        BY <1>0, <3>3, <3>6, <4>1, TickMoves
      <4>3. Drained(i)' = Drained(i) + 1  BY <3>3, <3>6, <4>2 DEF Drained
      <4>4. file.expires >= Duration - RenewalInterval - Drained(i)
        BY <2>1, <3>1 DEF Covered
      <4>5. loops'[i].renewal = "none"  BY <1>0, <4>1, TickMoves
      <4>6. Drained(i) \in Int  BY <3>3 DEF Drained
      <4>7. QED  BY <3>2, <3>3, <3>4, <4>3, <4>4, <4>5, <4>6 DEF Names
    <3>7. main[i].pc \in {"active", "draining"}
      BY <1>0, <2>2, <3>1, QuietStates DEF Calm, Open
    <3>8. QED  BY <3>5, <3>6, <3>7
  <2>5. QED  BY <2>3, <2>4 DEF Covered
<1>3. QED  BY <1>1, <1>2

\* The peer writes only over a grant that ran out, or the update is lost.
LEMMA GrantingNext ==
  ASSUME Calm, Prompt, Granting, [Next]_vars
  PROVE  Granting'
<1>0. AllTyped /\ \A i \in Roles : Mine(i)
  BY DEF Prompt, IInv, OwnGrantIsLive, Mine
<1>1. CASE Tick  BY <1>1, GrantingTick
<1>2. ASSUME NEW j \in Roles, Step(j) \/ Environment(j) PROVE Granting'
  <2> SUFFICES ASSUME NEW i \in Roles
               PROVE Accessible(i)' /\ (~lost' => Fresh(i)' /\ Covered(i)')
    BY DEF Granting
  <2>1. CASE j = i
    BY <1>0, <1>2, <2>1, AccessibleStep, FreshStep, CoveredStep DEF Granting, Calm
  <2>2. CASE j # i
    <3>1. main'[i] = main[i] /\ lease'[i] = lease[i] /\ loops'[i] = loops[i]
      BY <1>0, <1>2, <2>2, OnlyActor
    <3>2. outage'[i] = outage[i]
      <4>1. ~OutageBegins(j)  BY DEF Calm, OutageBegins, Spend
      <4>2. outage \in [Roles -> BOOLEAN]  BY <1>0 DEF AllTyped, EnvOK
      <4>3. QED  BY <1>0, <1>2, <2>2, <4>1, <4>2, EnvMoves
    <3>3. Accessible(i)'  BY <3>1, <3>2 DEF Granting, Accessible
    <3>4. ASSUME ~lost' PROVE Fresh(i)' /\ Covered(i)'
      <4>1. ~lost  BY <1>0, <1>2, <3>4, WritesOwn DEF Put
      <4>2. CASE main[i].pc \in {"confirm", "acquired", "starting"} \/ Open(i)
        <5>1. file' = file  BY <1>2, <2>2, <3>4, <4>2, PeerRefrains
        <5>2. QED  BY <3>1, <4>1, <5>1 DEF Granting, Fresh, Covered, Open, Drained
      <4>3. CASE ~(main[i].pc \in {"confirm", "acquired", "starting"} \/ Open(i))
        BY <3>1, <4>3 DEF Fresh, Covered, Open
      <4>4. QED  BY <4>2, <4>3
    <3>5. QED  BY <3>3, <3>4
  <2>3. QED  BY <2>1, <2>2
<1>3. CASE UNCHANGED vars
  BY <1>3 DEF vars, env, history, Granting, Accessible, Fresh, Covered, Open, Drained
<1>4. QED  BY <1>1, <1>2, <1>3 DEF Next

\* Until an update is lost, an open Active composition is covered by its own
\* live grant, when nothing stalls and the file can be read, for all timings in
\* which a renewal and a drain fit into one grant.
THEOREM OpenStaysGranted ==
  ASSUME "stall" \notin Faults, "outage" \notin Faults,
         RenewalInterval + ShutdownTimeout < Duration
  PROVE  Spec => []OpenIsGranted
<1>0. Calm  BY DEF Calm
<1>1. Prompt /\ Granting => OpenIsGranted
  <2> SUFFICES ASSUME Prompt, Granting, NEW i \in Roles, Open(i), ~lost
               PROVE  Names(file, i) /\ ~file.released /\ ~Expired(file, 0)
    BY DEF OpenIsGranted
  <2>1. AllTyped /\ Mine(i)  BY DEF Prompt, IInv, OwnGrantIsLive, Mine
  <2>2. Names(file, i) /\ ~file.released /\ file.expires > 0
    BY <1>0, <2>1, GrantLives DEF Granting
  <2>3. file.expires \in Int  BY <2>1, Fields DEF Grants, Instants
  <2>4. QED  BY <2>2, <2>3 DEF Expired
<1>2. Init => Prompt /\ Granting  BY PromptInit, GrantingInit
<1>3. Prompt /\ Granting /\ [Next]_vars => (Prompt /\ Granting)'
  BY <1>0, PromptNext, GrantingNext
<1>4. QED  BY <1>1, <1>2, <1>3, PTL DEF Spec

\* Two Active compositions are open at once only after an update was lost,
\* under the same assumptions: the file cannot name both.
THEOREM SingleOwner ==
  ASSUME "stall" \notin Faults, "outage" \notin Faults,
         RenewalInterval + ShutdownTimeout < Duration
  PROVE  Spec => []SingleOwnerUnlessLostUpdate
<1>1. OpenIsGranted => SingleOwnerUnlessLostUpdate
  BY DEF OpenIsGranted, SingleOwnerUnlessLostUpdate, BothOpen, Names, Roles
<1>2. QED  BY <1>1, OpenStaysGranted, PTL

(***************************************************************************)
(* Without stalls, lost probes and requests to stop: no failover of an     *)
(* owner that serves.                                                      *)
(***************************************************************************)
Busy == {"confirm", "acquired", "starting", "activating", "active", "draining"}

Lapsed(i) == Names(file, i) /\ ~file.released /\ Expired(file, 0)

\* Past its probe, a Passive turn knows that the peer whose grant lapsed is gone.
Probed(i) ==
  main[i].pc \in {"read", "write"} /\ main[i].passive # "none" /\ Lapsed(Peer(i))
    => main[Peer(i)].pc \notin Busy

Watchful ==
  /\ Prompt
  /\ \A i \in Roles : FirstTurn(i) /\ ~main[i].stopping /\ Probed(i)

\* Nothing is written that has lapsed already.
LEMMA WritesLive ==
  ASSUME "stall" \notin Faults, AllTyped, NEW i \in Roles, Mine(i), InTime(i),
         Step(i) \/ Environment(i),
         file' # file \/ (main'[i].pc = "confirm" /\ main[i].pc # "confirm")
  PROVE  file'.owner = i /\ (file'.released \/ file'.expires = Duration)
<1>1. lease[i].at = 0 /\ lease[i].seen \in Grants
  BY NoDelay, Fields DEF LeaseStates
<1>2. Duration \in Nat  BY LeaseAssumption
<1>3. /\ Granted(i, 0).owner = i /\ Granted(i, 0).expires = Duration
      /\ Renewed(lease[i].seen, 0).owner = lease[i].seen.owner
      /\ Renewed(lease[i].seen, 0).expires = Duration
      /\ GivenUp(lease[i].seen).owner = lease[i].seen.owner
      /\ GivenUp(lease[i].seen).released
  BY <1>1, <1>2 DEF Granted, Renewed, GivenUp, Grants
<1>4. CASE file' # file
  BY <1>1, <1>3, <1>4, WritesOwn DEF Put, Names
<1>5. CASE main'[i].pc = "confirm" /\ main[i].pc # "confirm"
  <2>1. AcquireWrite(i)  BY <1>5, Arrivals
  <2>2. file' = Granted(i, 0)  BY <1>1, <1>5, <2>1, Destinations DEF AcquireWrite, Put
  <2>3. QED  BY <1>3, <2>2
<1>6. QED  BY <1>4, <1>5

\* Without stop requests no process's context is cancelled.
LEMMA StoppingStep ==
  ASSUME "stop" \notin Faults, AllTyped, NEW i \in Roles, ~main[i].stopping,
         Step(i) \/ Environment(i)
  PROVE  ~main'[i].stopping
<1> DEFINE Same == main'[i].stopping = main[i].stopping \/ ~main'[i].stopping
<1>f. main \in [Roles -> MainStates] /\ main[i] \in MainStates  BY Fields
<1>g. \A l : Goto(i, l) => Same  BY <1>f DEF Goto, MainStates
<1>l. Leave(i) => Same  BY <1>f DEF Leave, Down
<1>e. EnterPassive(i) => Same  BY <1>f DEF EnterPassive, Down
<1>n. NotAcquired(i) \/ AcquireFails(i) => Same
  BY <1>g, <1>l, <1>e DEF NotAcquired, AcquireFails
<1>s. main' = main \/ main' = [main EXCEPT ![i].quit = TRUE] => Same
  BY <1>f DEF MainStates
<1>1. CASE \/ Start(i) \/ LoopTop(i) \/ AcquireRead(i) \/ AcquireWrite(i) \/ WaitStopped(i)
           \/ PromotionTick(i) \/ Observe(i) \/ Probe(i)
           \/ AnnounceOwnership(i) \/ StartActivation(i) \/ Join(i) \/ EndActivation(i)
  BY <1>1, <1>g, <1>l, <1>e, <1>n
     DEF Start, LoopTop, AcquireRead, AcquireWrite, WaitStopped, PromotionTick, Observe, Probe,
         AnnounceOwnership, StartActivation, Join, EndActivation
<1>2. CASE AcquireConfirm(i)
  <2>1. main' = [main EXCEPT ![i] = [@ EXCEPT !.pc = "acquired", !.passive = "none"]] => Same
    BY <1>f DEF MainStates
  <2>2. QED  BY <1>2, <2>1, <1>l, <1>n DEF AcquireConfirm
<1>3. CASE PassiveFails(i)  BY <1>3, <1>f DEF PassiveFails, MainStates
<1>4. CASE BeginActive(i)
  <2>1. main' = [main EXCEPT ![i] = [@ EXCEPT !.pc = "joining", !.failed = "active",
                                              !.quit = TRUE]] => Same
    BY <1>f DEF MainStates
  <2>2. QED  BY <1>4, <2>1, <1>g DEF BeginActive
<1>5. CASE EndActive(i)
  <2>1. main' = [main EXCEPT ![i] = [@ EXCEPT !.pc = "draining", !.drain = ShutdownTimeout]]
          => Same
    BY <1>f DEF MainStates
  <2>2. main' = [main EXCEPT ![i] = [@ EXCEPT !.pc = "draining", !.drain = ShutdownTimeout,
                                              !.failed = "active"]] => Same
    BY <1>f DEF MainStates
  <2>3. QED  BY <1>5, <2>1, <2>2 DEF EndActive
<1>6. CASE EndDrain(i)  BY <1>6, <1>f DEF EndDrain, MainStates
<1>7. CASE ReleaseRead(i) \/ ReleaseWrite(i)
  <2>1. ReleaseFails(i) => Same  BY <1>f DEF ReleaseFails, MainStates
  <2>2. QED  BY <1>7, <2>1, <1>g DEF ReleaseRead, ReleaseWrite
<1>8. CASE \/ RenewalTick(i) \/ RenewalEnds(i) \/ RenewRead(i) \/ RenewWrite(i)
           \/ GraceCheck(i) \/ FailbackTick(i) \/ FailbackEnds(i) \/ FailbackProbe(i)
           \/ Stall(i) \/ OutageBegins(i) \/ OutageEnds(i)
  BY <1>8, <1>s
     DEF RenewalTick, RenewalEnds, RenewRead, RenewWrite, GraceCheck, FailbackTick,
         FailbackEnds, FailbackProbe, Stall, OutageBegins, OutageEnds
<1>9. CASE Crash(i)  BY <1>9, <1>l DEF Crash
<1>10. ~StopRequest(i)  BY DEF StopRequest, Spend
<1>11. QED
  BY <1>1, <1>2, <1>3, <1>4, <1>5, <1>6, <1>7, <1>8, <1>9, <1>10 DEF Step, Environment

\* A Passive instance that claims has found its peer unhealthy, hence closed.
LEMMA ProbedStep ==
  ASSUME "stall" \notin Faults, "probe" \notin Faults, Watchful, NEW i \in Roles,
         Step(i) \/ Environment(i)
  PROVE  Probed(i)'
<1>0. /\ AllTyped /\ Peer(i) \in Roles \ {i}
      /\ Mine(i) /\ InTime(i) /\ InTime(Peer(i))
      /\ FirstTurn(i) /\ ~main[i].stopping /\ Probed(i)
  <2>1. Peer(i) \in Roles \ {i}  BY DEF Peer, Roles
  <2>2. QED  BY <2>1 DEF Watchful, Prompt, IInv, OwnGrantIsLive, Mine
<1>1. SUFFICES ASSUME main'[i].pc \in {"read", "write"}, main'[i].passive # "none",
                      Lapsed(Peer(i))'
               PROVE  main'[Peer(i)].pc \notin Busy
  BY DEF Probed
<1>2. /\ file' = file /\ main'[i].passive = main[i].passive
      /\ Claiming(i) \/ main[i].pc = "first" \/ Observe(i)
      /\ \/ main'[i].pc = main[i].pc
         \/ LoopTop(i) \/ AcquireRead(i) \/ Observe(i) \/ Probe(i)
  BY <1>0, <1>1, Approach DEF Claiming
<1>3. main'[Peer(i)] = main[Peer(i)]  BY <1>0, OnlyActor
<1>4. Lapsed(Peer(i))  BY <1>1, <1>2 DEF Lapsed
<1>5. main[i].pc # "first"  BY <1>0, <1>1, <1>2 DEF FirstTurn
<1>6. ~Observe(i)
  <2>1. SUFFICES ASSUME Observe(i) PROVE FALSE  OBVIOUS
  <2>2. lease[i].at = 0  BY <1>0, NoDelay
  <2>3. file.owner = Peer(i) /\ file.owner # "none" /\ ~file.released /\ Expired(file, 0)
    BY <1>0, <1>4 DEF Lapsed, Names, Roles
  <2>4. Availability(file, lease[i].at) = "lapsed"
    BY <2>2, <2>3 DEF Availability
  <2>5. Decision(i) = "probe"  BY <1>0, <2>3, <2>4 DEF Decision, Names
  <2>6. NotAcquired(i) \/ Goto(i, "probe")  BY <2>1, <2>5 DEF Observe
  <2>7. main'[i].pc \in {"waiting", "probe"}  BY <1>0, <2>6, Destinations DEF Labels
  <2>8. QED  BY <1>1, <2>7
<1>7. CASE Probe(i)
  <2>1. PeerUnhealthy(i, main[i].stopping)
    BY <1>0, <1>1, <1>7, Destinations DEF Probe
  <2>2. ~Running(Peer(i))  BY <1>0, <2>1 DEF PeerUnhealthy, Spend
  <2>3. main[Peer(i)].pc = "down"  BY <1>0, <2>2, NoDelay DEF Running
  <2>4. QED  BY <1>3, <2>3 DEF Busy
<1>8. CASE ~Probe(i)
  <2>1. main[i].pc \in {"read", "write"}
    BY <1>1, <1>2, <1>5, <1>6, <1>8 DEF LoopTop, AcquireRead, At, Claiming
  <2>2. QED  BY <1>0, <1>1, <1>2, <1>3, <1>4, <2>1 DEF Probed
<1>9. QED  BY <1>7, <1>8

\* The peer does not open again before the lease is taken: it would have to write.
LEMMA ProbedPeer ==
  ASSUME "stall" \notin Faults, Watchful, NEW i \in Roles, NEW j \in Roles \ {i},
         Step(j) \/ Environment(j)
  PROVE  Probed(i)'
<1>0. AllTyped /\ j \in Roles /\ Mine(j) /\ InTime(j) /\ Probed(i) /\ Peer(i) = j
  BY DEF Watchful, Prompt, IInv, OwnGrantIsLive, Mine, Peer, Roles
<1>1. SUFFICES ASSUME main'[i].pc \in {"read", "write"}, main'[i].passive # "none",
                      Lapsed(j)', main'[j].pc \in Busy
               PROVE  FALSE
  BY <1>0 DEF Probed
<1>2. main'[i] = main[i]  BY <1>0, OnlyActor
<1>3. ~file'.released /\ 0 >= file'.expires  BY <1>1 DEF Lapsed, Expired
<1>4. Duration \in Nat /\ Duration > 0  BY LeaseAssumption
<1>5. file' = file /\ ~(main'[j].pc = "confirm" /\ main[j].pc # "confirm")
  <2>1. SUFFICES ASSUME file' # file \/ (main'[j].pc = "confirm" /\ main[j].pc # "confirm")
                 PROVE  FALSE
    OBVIOUS
  <2>2. file'.released \/ file'.expires = Duration  BY <1>0, <2>1, WritesLive
  <2>3. QED  BY <1>3, <1>4, <2>2
<1>6. main[j].pc \notin Busy
  BY <1>0, <1>1, <1>2, <1>5 DEF Probed, Lapsed
<1>7. main'[j].pc \notin Busy
  BY <1>0, <1>5, <1>6, Arrivals DEF Busy, StartActivation, At
<1>8. QED  BY <1>1, <1>7

\* So no claim of a Passive instance meets an open composition.
LEMMA WatchfulNext ==
  ASSUME "stall" \notin Faults, "probe" \notin Faults, "stop" \notin Faults,
         Watchful, [Next]_vars
  PROVE  Watchful'
<1>0. AllTyped /\ \A j \in Roles : InTime(j)
  BY DEF Watchful, Prompt, IInv
<1>1. Prompt'  BY PromptNext DEF Watchful
<1>2. ASSUME NEW i \in Roles
      PROVE  FirstTurn(i)' /\ ~main'[i].stopping /\ Probed(i)'
  <2>0. FirstTurn(i) /\ ~main[i].stopping /\ Probed(i)  BY DEF Watchful
  <2>1. CASE Tick
    <3>1. main[i].pc \notin {"read", "write"}
      BY <1>0, <2>1, QuietStates DEF Tick
    <3>2. main'[i] = [main[i] EXCEPT !.drain = IF @ = 0 THEN 0 ELSE @ - 1]  BY <2>1 DEF Tick
    <3>3. /\ main'[i].pc = main[i].pc /\ main'[i].passive = main[i].passive
          /\ main'[i].stopping = main[i].stopping
      BY <1>0, <3>2, Fields DEF MainStates
    <3>4. QED  BY <2>0, <3>1, <3>3 DEF FirstTurn, Probed
  <2>2. ASSUME NEW j \in Roles, Step(j) \/ Environment(j)
        PROVE  FirstTurn(i)' /\ ~main'[i].stopping /\ Probed(i)'
    <3>1. CASE j = i
      BY <1>0, <2>0, <2>2, <3>1, FirstTurnStep, StoppingStep, ProbedStep
    <3>2. CASE j # i
      <4>1. main'[i] = main[i]  BY <1>0, <2>2, <3>2, OnlyActor
      <4>2. Probed(i)'  BY <2>2, <3>2, ProbedPeer
      <4>3. QED  BY <2>0, <4>1, <4>2 DEF FirstTurn
    <3>3. QED  BY <3>1, <3>2
  <2>3. CASE UNCHANGED vars
    BY <2>0, <2>3 DEF vars, FirstTurn, Probed, Lapsed
  <2>4. QED  BY <2>1, <2>2, <2>3 DEF Next
<1>3. QED  BY <1>1, <1>2 DEF Watchful

\* A Passive instance writes over its peer's lapsed grant only when the peer's
\* composition is closed, when goroutines run as they are due, probes arrive
\* and nobody is asked to stop: whatever crashes, outages, refused records and
\* long requests do, and for any timings.
THEOREM ServingOwnerKept ==
  ASSUME "stall" \notin Faults, "probe" \notin Faults, "stop" \notin Faults
  PROVE  Spec => ServingOwnerIsNotFailedOver
<1>1. Init => Watchful
  BY PromptInit DEF Watchful, Init, FirstTurn, Probed, Down
<1>2. Watchful /\ [Next]_vars => Watchful'  BY WatchfulNext
<1>3. Watchful /\ [Next]_vars =>
        [\A i \in Roles :
           Promotes(i) /\ Names(file, Peer(i)) /\ Open(Peer(i)) => lost']_vars
  <2> SUFFICES ASSUME Watchful, [Next]_vars, NEW i \in Roles,
                      Promotes(i), Names(file, Peer(i)), Open(Peer(i)), ~lost'
               PROVE  FALSE
    OBVIOUS
  <2>0. /\ AllTyped /\ Peer(i) \in Roles \ {i} /\ Mine(Peer(i)) /\ Probed(i)
        /\ InTime(i) /\ ReadFree(i)
    <3>1. Peer(i) \in Roles \ {i}  BY DEF Peer, Roles
    <3>2. QED  BY <3>1 DEF Watchful, Prompt, IInv, OwnGrantIsLive, Mine
  <2>1. main[i].pc = "write" /\ main'[i].pc = "confirm" /\ main[i].passive # "none"
    BY DEF Promotes
  <2>2. Step(i) \/ Environment(i)
    <3>1. ~Tick  BY <2>0, <2>1, TickMoves
    <3>2. ~UNCHANGED vars  BY <2>1 DEF vars
    <3>3. QED  BY <2>0, <2>1, <3>1, <3>2, OnlyActor DEF Next
  <2>3. AcquireWrite(i)  BY <2>0, <2>1, <2>2, Arrivals
  <2>4. file = lease[i].seen
    BY <2>0, <2>1, <2>3, Destinations DEF AcquireWrite, Put
  <2>5. Free(file, 0)  BY <2>1, <2>0, <2>4 DEF ReadFree
  <2>6. ~file.released  BY <2>0 DEF Mine, LiveGrant, Holding, Open
  <2>7. Lapsed(Peer(i))  BY <2>0, <2>5, <2>6 DEF Free, Lapsed, Names, Roles
  <2>8. QED  BY <2>0, <2>1, <2>7 DEF Probed, Busy, Open
<1>4. QED  BY <1>1, <1>2, <1>3, PTL DEF Spec, ServingOwnerIsNotFailedOver

(***************************************************************************)
(* Without stalls: two open compositions are resolved.                     *)
(***************************************************************************)
\* How long an owner that is not named may go on before it steps down.
Patience == IF "outage" \in Faults THEN Duration ELSE RenewalInterval

\* The owner's own expiry, which the renewal loop keeps ahead of its next turn.
Due(i) == IF loops[i].renewal = "idle" /\ ~loops[i].renewDue THEN loops[i].renewIn ELSE 0

Credit(i) ==
  /\ main[i].pc \in {"acquired", "starting"} =>
       lease[i].held /\ lease[i].owned = Duration
  /\ loops[i].renewal # "none" =>
       lease[i].held /\ lease[i].owned <= Duration /\ lease[i].owned >= Due(i)

Reaching(i) == "outage" \notin Faults => Accessible(i)

\* The composition that the file does not name, and how far it has come.
Ousted(i) ==
  /\ ~Names(file, i)
  /\ main[i].pc \in {"active", "draining"}
  /\ loops[i].renewal # "write"
  /\ overlap <= Patience + Drained(i)
  /\ main[i].pc = "active" /\ loops[i].renewal # "none" =>
       IF "outage" \in Faults THEN overlap <= Duration - lease[i].owned
       ELSE overlap <= RenewalInterval - Due(i)

Resolving ==
  /\ Prompt
  /\ \A i \in Roles : Credit(i) /\ Reaching(i)
  /\ overlap = 0 \/ \E i \in Roles : Ousted(i)

\* A confirmed grant, and a renewed one, is the handle's for a whole Duration.
LEMMA ConfirmLeads ==
  ASSUME AllTyped, NEW i \in Roles, AcquireConfirm(i), main'[i].pc = "acquired"
  PROVE  /\ loops'[i].renewal = "none"
         /\ lease'[i].held /\ lease'[i].owned = lease[i].at + Duration
<1>1. /\ lease \in [Roles -> LeaseStates] /\ lease[i] \in LeaseStates
      /\ loops \in [Roles -> LoopStates]
  BY Fields
<1>2. /\ lease' = [lease EXCEPT ![i] =
                     [@ EXCEPT !.held = TRUE, !.owned = Granted(i, lease[i].at).expires,
                               !.at = 0, !.seen = NoGrant]]
      /\ loops' = [loops EXCEPT ![i] = NoLoops]
  BY Destinations DEF AcquireConfirm
<1>3. Granted(i, lease[i].at).expires = lease[i].at + Duration  BY DEF Granted
<1>4. QED  BY <1>1, <1>2, <1>3 DEF LeaseStates, NoLoops

\* A renewal leads the handle by a whole duration.
LEMMA RenewLeads ==
  ASSUME AllTyped, NEW i \in Roles, RenewWrite(i), ~outage[i]
  PROVE  lease'[i].held = lease[i].held /\ lease'[i].owned = lease[i].at + Duration
<1>1. /\ lease \in [Roles -> LeaseStates] /\ lease[i] \in LeaseStates
      /\ lease[i].seen \in Grants
  BY Fields DEF LeaseStates
<1> DEFINE next == Renewed(lease[i].seen, lease[i].at)
<1>2. lease' = [lease EXCEPT ![i] = [@ EXCEPT !.owned = next.expires,
                                             !.at = 0, !.seen = NoGrant]]
  BY DEF RenewWrite
<1>3. next.expires = lease[i].at + Duration  BY <1>1 DEF Renewed, Grants
<1> HIDE DEF next
<1>4. QED  BY <1>1, <1>2, <1>3 DEF LeaseStates

\* The handle's own record of its grant follows the renewal loop.
LEMMA CreditMoves ==
  ASSUME AllTyped, NEW i \in Roles, Mine(i), Step(i) \/ Environment(i)
  PROVE  \/ lease'[i].held = lease[i].held /\ lease'[i].owned = lease[i].owned
         \/ loops'[i].renewal = "none" /\ main'[i].pc \notin {"acquired", "starting"}
         \/ /\ AcquireConfirm(i) /\ main'[i].pc = "acquired" /\ loops'[i].renewal = "none"
            /\ lease'[i].held /\ lease'[i].owned = lease[i].at + Duration
         \/ /\ RenewWrite(i) /\ ~outage[i] /\ lease'[i].held = lease[i].held
            /\ lease'[i].owned = lease[i].at + Duration
<1> DEFINE Kept == lease'[i].held = lease[i].held /\ lease'[i].owned = lease[i].owned
           Over == loops'[i].renewal = "none" /\ main'[i].pc \notin {"acquired", "starting"}
<1>f. /\ lease \in [Roles -> LeaseStates] /\ lease[i] \in LeaseStates
      /\ loops \in [Roles -> LoopStates]
  BY Fields
<1>g. \A l \in Labels : Goto(i, l) => main'[i].pc = l  BY Destinations
<1>1. lease' = lease => Kept  OBVIOUS
<1>2. Leave(i) => Over  BY Destinations
<1>3. EndOperation(i) => Kept  BY <1>f DEF EndOperation, LeaseStates
<1>4. \A g : lease' = [lease EXCEPT ![i].seen = g] => Kept  BY <1>f DEF LeaseStates
<1>5. NotAcquired(i) \/ EnterPassive(i) => Kept  BY <1>3 DEF NotAcquired, EnterPassive
<1>6. AcquireFails(i) => Kept \/ Over  BY <1>2, <1>5 DEF AcquireFails
<1>7. ReleaseFails(i) => Kept  BY <1>3 DEF ReleaseFails
<1>8. CASE \/ Start(i) \/ LoopTop(i) \/ AcquireRead(i) \/ AcquireWrite(i) \/ WaitStopped(i)
           \/ PassiveFails(i) \/ PromotionTick(i) \/ Observe(i) \/ Probe(i)
           \/ AnnounceOwnership(i) \/ StartActivation(i) \/ BeginActive(i) \/ EndActive(i)
           \/ EndDrain(i) \/ EndActivation(i) \/ RenewalTick(i) \/ RenewalEnds(i)
           \/ GraceCheck(i) \/ FailbackTick(i) \/ FailbackEnds(i) \/ FailbackProbe(i)
           \/ Environment(i)
  BY <1>1, <1>2, <1>3, <1>4, <1>5, <1>6, <1>8
     DEF Start, LoopTop, AcquireRead, AcquireWrite, WaitStopped, PassiveFails, PromotionTick,
         Observe, Probe, AnnounceOwnership, StartActivation, BeginActive, EndActive,
         EndDrain, EndActivation, RenewalTick, RenewalEnds, GraceCheck, FailbackTick,
         FailbackEnds, FailbackProbe, Environment, Crash, StopRequest, Stall, OutageBegins,
         OutageEnds
<1>9. CASE AcquireConfirm(i)
  <2>1. CASE main'[i].pc = "acquired"  BY <1>9, <2>1, ConfirmLeads
  <2>2. CASE main'[i].pc # "acquired"
    <3>1. main' = [main EXCEPT ![i] = [@ EXCEPT !.pc = "acquired", !.passive = "none"]]
            => main'[i].pc = "acquired"
      BY Fields DEF MainStates
    <3>2. QED  BY <1>9, <2>2, <3>1, <1>2, <1>5, <1>6 DEF AcquireConfirm
  <2>3. QED  BY <2>1, <2>2
<1>10. CASE Join(i)
  <2>1. loops'[i].renewal = "none"  BY <1>10, <1>f DEF Join, NoLoops
  <2>2. main'[i].pc \in {"releaseRead", "ended"}  BY <1>10, <1>g DEF Join, Labels
  <2>3. QED  BY <2>1, <2>2
<1>11. CASE ReleaseRead(i)
  <2>1. lease' = [lease EXCEPT ![i].at = 0] => Kept  BY <1>f DEF LeaseStates
  <2>2. QED  BY <1>11, <2>1, <1>4, <1>7 DEF ReleaseRead
<1>12. CASE ReleaseWrite(i)
  <2>1. lease' = [lease EXCEPT ![i] = [@ EXCEPT !.releasedAt = lease[i].at,
                                                !.at = 0, !.seen = NoGrant]] => Kept
    BY <1>f DEF LeaseStates
  <2>2. QED  BY <1>12, <2>1, <1>7 DEF ReleaseWrite
<1>13. CASE RenewRead(i)
  <2>1. CASE StopRenewal(i)
    <3>1. loops[i].renewal = "read"  BY <1>13 DEF RenewRead, Renewing
    <3>2. loops'[i].renewal = "none"  BY <2>1, Destinations
    <3>3. main' = main \/ main' = [main EXCEPT ![i].quit = TRUE]  BY <1>13 DEF RenewRead
    <3>4. main'[i].pc = main[i].pc  BY <3>3, Fields DEF MainStates
    <3>5. QED  BY <3>1, <3>2, <3>4 DEF Mine, LoopsWithActive
  <2>2. QED  BY <1>13, <2>1, <1>1, <1>4 DEF RenewRead
<1>14. CASE RenewWrite(i)
  <2>1. CASE outage[i]  BY <1>14, <2>1, <1>1 DEF RenewWrite
  <2>2. CASE ~outage[i]  BY <1>14, <2>2, RenewLeads
  <2>3. QED  BY <2>1, <2>2
<1>15. QED
  BY <1>8, <1>9, <1>10, <1>11, <1>12, <1>13, <1>14 DEF Step

\* What the handle says is owned never outlasts a duration, and a renewal that
\* is under way has not waited longer than it may.
LEMMA CreditStep ==
  ASSUME "stall" \notin Faults, Prompt, NEW i \in Roles, Credit(i),
         Step(i) \/ Environment(i)
  PROVE  Credit(i)'
<1>0. AllTyped /\ Mine(i) /\ InTime(i)  BY DEF Prompt, IInv, OwnGrantIsLive, Mine
<1>1. lease[i].at = 0  BY <1>0, NoDelay
<1>2. /\ loops[i].renewIn \in 0..RenewalInterval /\ lease[i].owned \in Int
      /\ RenewalInterval \in Nat /\ Duration \in Nat /\ RenewalInterval < Duration
  BY <1>0, Fields, LeaseAssumption DEF LoopStates, LeaseStates, Instants
<1>3. loops'[i].renewIn \in 0..RenewalInterval
  <2>1. AllTyped'  BY <1>0, NextType DEF Next
  <2>2. QED  BY <2>1 DEF AllTyped, Typed, LoopsOK, LoopStates
<1>4. Due(i)' \in 0..RenewalInterval  BY <1>2, <1>3 DEF Due
<1>5. CASE AcquireConfirm(i) /\ main'[i].pc = "acquired"
  BY <1>0, <1>1, <1>2, <1>5, ConfirmLeads DEF Credit
<1>6. CASE RenewWrite(i) /\ ~outage[i]
  <2>1. lease[i].held /\ main[i].pc \notin {"acquired", "starting"}
    BY <1>0, <1>6 DEF Credit, RenewWrite, Renewing, Mine, LoopsWithActive
  <2>2. lease'[i].held /\ lease'[i].owned = Duration
    BY <1>0, <1>1, <1>2, <1>6, <2>1, RenewLeads
  <2>3. QED  BY <1>2, <1>4, <2>2 DEF Credit
<1>7. CASE loops'[i].renewal = "none" /\ main'[i].pc \notin {"acquired", "starting"}
  BY <1>7 DEF Credit
<1>8. CASE /\ lease'[i].held = lease[i].held /\ lease'[i].owned = lease[i].owned
           /\ ~(AcquireConfirm(i) /\ main'[i].pc = "acquired")
           /\ ~(RenewWrite(i) /\ ~outage[i])
  <2>1. main'[i].pc \in {"acquired", "starting"} => lease'[i].held /\ lease'[i].owned = Duration
    <3>1. main'[i].pc \in {"acquired", "starting"} => main[i].pc \in {"acquired", "starting"}
      BY <1>0, <1>8, Arrivals
    <3>2. QED  BY <1>8, <3>1 DEF Credit
  <2>2. ASSUME loops'[i].renewal # "none"
        PROVE  lease[i].held /\ lease[i].owned <= Duration /\ lease[i].owned >= Due(i)'
    <3>1. CASE StartActivation(i)
      BY <1>2, <1>4, <3>1 DEF StartActivation, At, Credit
    <3>2. CASE ~StartActivation(i)
      <4>1. loops[i].renewal # "none"
        BY <1>0, <2>2, <3>2, RenewalMoves
           DEF RenewalTick, RenewRead, RenewWrite, GraceCheck, Renewing
      <4>2. lease[i].held /\ lease[i].owned <= Duration /\ lease[i].owned >= Due(i)
        BY <4>1 DEF Credit
      <4>3. Due(i) >= 0  BY <1>2 DEF Due
      <4>4. \/ loops'[i].renewal = loops[i].renewal /\ SameRound(i)
            \/ loops'[i].renewal # "idle"
            \/ WithinGrace(lease[i].owned)
        BY <1>0, <1>8, <2>2, <3>2, RenewalMoves
      <4>5. CASE loops'[i].renewal = loops[i].renewal /\ SameRound(i)
        BY <4>2, <4>5 DEF Due, SameRound
      <4>6. CASE loops'[i].renewal # "idle"
        BY <1>2, <4>2, <4>3, <4>6 DEF Due
      <4>7. CASE WithinGrace(lease[i].owned)
        BY <1>2, <1>4, <4>2, <4>7 DEF WithinGrace
      <4>8. QED  BY <4>4, <4>5, <4>6, <4>7
    <3>3. QED  BY <3>1, <3>2
  <2>3. QED  BY <1>8, <2>1, <2>2 DEF Credit
<1>9. QED  BY <1>0, <1>5, <1>6, <1>7, <1>8, CreditMoves

\* The clock takes from both.
LEMMA CreditTick ==
  ASSUME "stall" \notin Faults, Prompt, Tick, NEW i \in Roles, Credit(i)
  PROVE  Credit(i)'
<1>0. AllTyped /\ Mine(i) /\ InTime(i) /\ Ticking(i) /\ Quiet(i)
  BY DEF Prompt, IInv, OwnGrantIsLive, Mine, Tick
<1>1. /\ main'[i].pc = main[i].pc /\ lease'[i] = OlderLease(i)
      /\ loops'[i].renewal = loops[i].renewal
      /\ loops'[i].renewIn = Rewind(loops[i].renewIn, RenewalInterval)
      /\ loops'[i].renewDue <=> loops[i].renewDue \/ Fires(loops[i].renewIn)
  BY <1>0, TickMoves
<1>2. main[i].pc \notin {"acquired", "starting"}  BY <1>0, QuietStates
<1>3. ASSUME loops[i].renewal # "none"
      PROVE  lease'[i].held /\ lease'[i].owned <= Duration /\ lease'[i].owned >= Due(i)'
  <2>1. /\ loops[i].renewal = "idle" /\ ~loops[i].renewDue /\ loops[i].renewIn > 0
    BY <1>0, <1>3, QuietStates DEF Ticking, Mine, LoopsWithActive
  <2>2. /\ lease[i].held /\ lease[i].owned <= Duration
        /\ lease[i].owned >= loops[i].renewIn
    BY <1>3, <2>1 DEF Credit, Due
  <2>3. /\ lease[i] \in LeaseStates /\ lease[i].owned \in Int
        /\ loops[i].renewIn \in Nat /\ Horizon \in Nat /\ Duration \in Nat
    BY <1>0, Fields, LeaseAssumption DEF LeaseStates, LoopStates, Instants
  <2>4. lease'[i].held /\ lease'[i].owned = lease[i].owned - 1
    <3>1. Older(lease[i].owned) = lease[i].owned - 1  BY <2>1, <2>2, <2>3 DEF Older
    <3>2. lease'[i].held = lease[i].held  BY <1>1, <2>3 DEF OlderLease, LeaseStates
    <3>3. lease'[i].owned = Older(lease[i].owned)
      BY <1>1, <2>2, <2>3 DEF OlderLease, LeaseStates
    <3>4. QED  BY <2>2, <3>1, <3>2, <3>3
  <2>5. Due(i)' <= lease[i].owned - 1
    <3>1. CASE loops[i].renewIn = 1
      BY <1>1, <2>2, <2>3, <3>1 DEF Due, Fires
    <3>2. CASE loops[i].renewIn # 1
      BY <1>1, <2>1, <2>2, <2>3, <3>2 DEF Due, Rewind
    <3>3. QED  BY <3>1, <3>2
  <2>6. Due(i)' \in Int
    BY <1>1, <2>3, LeaseAssumption DEF Due, Rewind
  <2>7. QED  BY <2>2, <2>3, <2>4, <2>5, <2>6
<1>4. QED  BY <1>1, <1>2, <1>3 DEF Credit

\* A step ends the overlap or leaves it, and an activation that goes on drains.
LEMMA OverlapMoves ==
  ASSUME AllTyped, NEW i \in Roles, Step(i) \/ Environment(i)
  PROVE  /\ overlap' \in {overlap, 0}
         /\ main[i].pc \in {"active", "draining"} =>
              main'[i].pc \in {"active", "draining"} \/ overlap' = 0
<1>f. main \in [Roles -> MainStates] /\ main[i] \in MainStates  BY Fields
<1>1. overlap' \in {overlap, 0}
  BY DEF Step, Environment, Start, LoopTop, AcquireRead, AcquireWrite, AcquireConfirm,
         WaitStopped, PassiveFails, PromotionTick, Observe, Probe, AnnounceOwnership,
         StartActivation, BeginActive, EndActive, EndDrain, Join, ReleaseRead, ReleaseWrite,
         EndActivation, RenewalTick, RenewalEnds, RenewRead, RenewWrite, GraceCheck,
         FailbackTick, FailbackEnds, FailbackProbe, Crash, StopRequest, Stall, OutageBegins,
         OutageEnds, history, Put
<1>2. ASSUME main[i].pc \in {"active", "draining"}, overlap' # 0
      PROVE  main'[i].pc \in {"active", "draining"}
  <2>1. CASE EndActive(i)  BY <2>1, <1>f DEF EndActive, MainStates
  <2>2. CASE ~EndActive(i)
    <3>1. \/ main' = main
          \/ main' = [main EXCEPT ![i].quit = TRUE]
          \/ main' = [main EXCEPT ![i].stopping = TRUE]
      BY <1>2, <2>2
         DEF Step, Environment, At, Start, LoopTop, AcquireRead, AcquireWrite, AcquireConfirm,
             WaitStopped, PassiveFails, PromotionTick, Observe, Probe, AnnounceOwnership,
             StartActivation, BeginActive, EndDrain, Join, ReleaseRead, ReleaseWrite,
             EndActivation, RenewalTick, RenewalEnds, RenewRead, RenewWrite, GraceCheck,
             FailbackTick, FailbackEnds, FailbackProbe, Crash, StopRequest, Stall,
             OutageBegins, OutageEnds
    <3>2. main'[i].pc = main[i].pc  BY <3>1, <1>f DEF MainStates
    <3>3. QED  BY <1>2, <3>2
  <2>3. QED  BY <2>1, <2>2
<1>3. QED  BY <1>1, <1>2

\* The instance that the file does not name goes on only towards its end.
LEMMA OustedStep ==
  ASSUME "stall" \notin Faults, Prompt, NEW i \in Roles, Credit(i), Reaching(i), Ousted(i),
         Step(i) \/ Environment(i)
  PROVE  overlap' = 0 \/ Ousted(i)'
<1>0. AllTyped /\ Mine(i) /\ InTime(i) /\ overlap \in Nat
  BY DEF Prompt, IInv, OwnGrantIsLive, Mine, AllTyped, HistoryOK
<1>1. SUFFICES ASSUME overlap' # 0 PROVE Ousted(i)'  OBVIOUS
<1>2. /\ ~Names(file, i) /\ main[i].pc \in {"active", "draining"}
      /\ loops[i].renewal # "write" /\ overlap <= Patience + Drained(i)
  BY DEF Ousted
<1>3. overlap' = overlap /\ main'[i].pc \in {"active", "draining"}
  BY <1>0, <1>1, <1>2, OverlapMoves
<1>4. file' = file
  BY <1>0, <1>2, WritesOwn DEF AcquireWrite, RenewWrite, ReleaseWrite, At, Renewing
<1>5. ~StartActivation(i) /\ ~RenewWrite(i) /\ ~AcquireConfirm(i)
  BY <1>2 DEF StartActivation, RenewWrite, AcquireConfirm, At, Renewing
<1>6. loops'[i].renewal # "write"
  BY <1>0, <1>2, <1>5, RenewalMoves DEF TakenOver
<1>7. /\ main[i].drain \in 0..ShutdownTimeout /\ ShutdownTimeout \in Nat
      /\ RenewalInterval \in Nat /\ Duration \in Nat
      /\ loops[i].renewIn \in 0..RenewalInterval
  BY <1>0, Fields, OwnershipAssumption, LeaseAssumption DEF MainStates, LoopStates
<1>8. Drained(i)' = Drained(i)
  BY <1>0, <1>2, <1>3, <1>7, Arrivals DEF Drained
<1>9. ASSUME main'[i].pc = "active", loops'[i].renewal # "none"
      PROVE  IF "outage" \in Faults THEN overlap <= Duration - lease'[i].owned
             ELSE overlap <= RenewalInterval - Due(i)'
  <2>1. main[i].pc = "active"  BY <1>0, <1>2, <1>9, Arrivals
  <2>2. loops[i].renewal # "none"
    BY <1>0, <1>5, <1>9, RenewalMoves DEF RenewalTick, RenewRead, GraceCheck, Renewing
  <2>3. CASE "outage" \in Faults
    <3>1. overlap <= Duration - lease[i].owned  BY <2>1, <2>2, <2>3 DEF Ousted
    <3>2. lease'[i].owned = lease[i].owned  BY <1>0, <1>5, <1>9, CreditMoves
    <3>3. QED  BY <2>3, <3>1, <3>2
  <2>4. CASE "outage" \notin Faults
    <3>1. overlap <= RenewalInterval - Due(i)  BY <2>1, <2>2, <2>4 DEF Ousted
    <3>2. loops[i].renewal # "check"  BY <2>4 DEF Reaching, Accessible
    <3>3. \/ loops'[i].renewal = loops[i].renewal /\ SameRound(i)
          \/ loops'[i].renewal # "idle"
      BY <1>0, <1>5, <1>9, <3>2, RenewalMoves DEF GraceCheck, Renewing
    <3>4. Due(i) >= 0 /\ Due(i) \in Int  BY <1>7 DEF Due
    <3>5. Due(i)' = Due(i) \/ Due(i)' = 0  BY <3>3 DEF Due, SameRound
    <3>6. QED  BY <1>0, <1>7, <2>4, <3>1, <3>4, <3>5
  <2>5. QED  BY <2>3, <2>4
<1>10. QED
  BY <1>2, <1>3, <1>4, <1>6, <1>8, <1>9 DEF Ousted, Names, Patience

\* Of two open compositions that let time pass, the file leaves one out.
LEMMA OneIsOusted ==
  ASSUME "stall" \notin Faults, Prompt, \A i \in Roles : Credit(i) /\ Quiet(i),
         BothOpen, overlap = 0
  PROVE  \E i \in Roles : Ousted(i)
<1>0. AllTyped /\ \A i \in Roles : InTime(i) /\ Mine(i)
  BY DEF Prompt, IInv, OwnGrantIsLive, Mine
<1>1. PICK i \in Roles : ~Names(file, i)  BY DEF Names, Roles
<1>2. /\ main[i].pc \in {"active", "draining"}
      /\ loops[i].renewal \in {"idle", "none"}
  BY <1>0, QuietStates DEF BothOpen, Open
<1>3. /\ main[i].drain \in 0..ShutdownTimeout /\ ShutdownTimeout \in Nat
      /\ RenewalInterval \in Nat /\ Duration \in Nat
      /\ loops[i].renewIn \in 0..RenewalInterval /\ lease[i].owned \in Int
  BY <1>0, Fields, OwnershipAssumption, LeaseAssumption
     DEF MainStates, LoopStates, LeaseStates, Instants
<1>4. Drained(i) \in Nat  BY <1>3 DEF Drained
<1>5. Due(i) \in 0..RenewalInterval  BY <1>3 DEF Due
<1>6. loops[i].renewal # "none" => lease[i].owned <= Duration  BY DEF Credit
<1>7. QED  BY <1>1, <1>2, <1>3, <1>4, <1>5, <1>6 DEF Ousted, Patience

\* The one whose grant was replaced is nearer to its end by the time that passed.
LEMMA OustedTick ==
  ASSUME "stall" \notin Faults, Prompt, Tick, NEW i \in Roles, Credit(i), Ousted(i)
  PROVE  overlap' = 0 \/ Ousted(i)'
<1>0. AllTyped /\ Mine(i) /\ InTime(i) /\ Ticking(i) /\ Quiet(i) /\ overlap \in Nat
  BY DEF Prompt, IInv, OwnGrantIsLive, Mine, Tick, AllTyped, HistoryOK
<1>1. /\ main'[i].pc = main[i].pc /\ lease'[i] = OlderLease(i)
      /\ main'[i].drain = IF main[i].drain = 0 THEN 0 ELSE main[i].drain - 1
      /\ loops'[i].renewal = loops[i].renewal
      /\ loops'[i].renewIn = Rewind(loops[i].renewIn, RenewalInterval)
      /\ loops'[i].renewDue <=> loops[i].renewDue \/ Fires(loops[i].renewIn)
  BY <1>0, TickMoves
<1>2. overlap' = 0 \/ (overlap' \in Nat /\ overlap' <= overlap + 1)
  BY <1>0 DEF Tick
<1>3. SUFFICES ASSUME overlap' \in Nat, overlap' <= overlap + 1 PROVE Ousted(i)'
  BY <1>2
<1>4. ~Names(file', i)
  BY <1>0, Fields DEF Ousted, Tick, OlderGrant, Names, Grants
<1>5. /\ main[i].drain \in 0..ShutdownTimeout /\ ShutdownTimeout \in Nat
      /\ RenewalInterval \in Nat \ {0} /\ Duration \in Nat /\ Horizon \in Nat
      /\ loops[i].renewIn \in 0..RenewalInterval /\ lease[i].owned \in Int
      /\ lease[i] \in LeaseStates
  BY <1>0, Fields, OwnershipAssumption, LeaseAssumption
     DEF MainStates, LoopStates, LeaseStates, Instants
<1>6. CASE main[i].pc = "active"
  <2>1. loops[i].renewal = "idle" /\ ~loops[i].renewDue /\ loops[i].renewIn > 0
    BY <1>0, <1>6, QuietStates DEF Ticking
  <2>2. /\ lease[i].held /\ lease[i].owned >= loops[i].renewIn
        /\ IF "outage" \in Faults THEN overlap <= Duration - lease[i].owned
           ELSE overlap <= RenewalInterval - loops[i].renewIn
    BY <1>6, <2>1 DEF Credit, Ousted, Due
  <2>3. CASE "outage" \in Faults
    <3>1. Older(lease[i].owned) = lease[i].owned - 1  BY <1>5, <2>1, <2>2 DEF Older
    <3>2. lease'[i].owned = lease[i].owned - 1
      BY <1>1, <1>5, <2>2, <3>1 DEF OlderLease, LeaseStates
    <3>3. overlap' <= Duration - lease'[i].owned /\ overlap' <= Duration
      BY <1>0, <1>3, <1>5, <2>1, <2>2, <2>3, <3>2
    <3>4. overlap' <= Patience + Drained(i)'
      BY <1>1, <1>3, <1>5, <1>6, <2>3, <3>3 DEF Patience, Drained
    <3>5. QED
      BY <1>1, <1>4, <1>6, <2>1, <2>3, <3>3, <3>4 DEF Ousted, Patience, Names
  <2>4. CASE "outage" \notin Faults
    <3>1. Due(i)' = loops[i].renewIn - 1 \/ Due(i)' = 0
      BY <1>1, <1>5, <2>1 DEF Due, Rewind, Fires
    <3>2. overlap' <= RenewalInterval - Due(i)' /\ overlap' <= RenewalInterval
      BY <1>0, <1>3, <1>5, <2>1, <2>2, <2>4, <3>1
    <3>3. overlap' <= Patience + Drained(i)'
      BY <1>1, <1>3, <1>5, <1>6, <2>4, <3>2 DEF Patience, Drained
    <3>4. QED
      BY <1>1, <1>4, <1>6, <2>1, <2>4, <3>2, <3>3 DEF Ousted, Patience, Names
  <2>5. QED  BY <2>3, <2>4
<1>7. CASE main[i].pc = "draining"
  <2>1. main[i].drain > 0 /\ loops[i].renewal = "none"
    BY <1>0, <1>7, QuietStates
  <2>2. Drained(i)' = Drained(i) + 1
    BY <1>1, <1>5, <1>7, <2>1 DEF Drained
  <2>3. Drained(i) \in Int  BY <1>5 DEF Drained
  <2>4. overlap <= Patience + Drained(i) /\ Patience \in Int  BY <1>5 DEF Ousted, Patience
  <2>5. overlap' <= Patience + Drained(i)'  BY <1>0, <1>3, <2>2, <2>3, <2>4
  <2>6. QED  BY <1>1, <1>4, <1>7, <2>1, <2>5 DEF Ousted, Patience, Names
<1>8. QED  BY <1>6, <1>7 DEF Ousted

\* Of two that are open, one has been replaced and will find out.
LEMMA ResolvingNext ==
  ASSUME "stall" \notin Faults, Resolving, [Next]_vars
  PROVE  Resolving'
<1>0. AllTyped /\ \A i \in Roles : Mine(i) /\ InTime(i) /\ Credit(i) /\ Reaching(i)
  BY DEF Resolving, Prompt, IInv, OwnGrantIsLive, Mine
<1>1. Prompt /\ Prompt'  BY PromptNext DEF Resolving
<1>2. CASE Tick
  <2>1. \A i \in Roles : Credit(i)' /\ Reaching(i)'
    BY <1>0, <1>1, <1>2, CreditTick, TickMoves DEF Reaching, Accessible
  <2>2. CASE \E i \in Roles : Ousted(i)
    BY <1>0, <1>1, <1>2, <2>1, <2>2, OustedTick DEF Resolving
  <2>3. CASE overlap = 0 /\ BothOpen
    <3>1. \E i \in Roles : Ousted(i)  BY <1>0, <1>1, <1>2, <2>3, OneIsOusted DEF Tick
    <3>2. QED  BY <2>2, <3>1
  <2>4. CASE overlap = 0 /\ ~BothOpen
    <3>1. overlap' = 0  BY <1>2, <2>4 DEF Tick
    <3>2. QED  BY <1>1, <2>1, <3>1 DEF Resolving
  <2>5. QED  BY <2>2, <2>3, <2>4 DEF Resolving
<1>3. ASSUME NEW j \in Roles, Step(j) \/ Environment(j) PROVE Resolving'
  <2>1. ASSUME NEW i \in Roles PROVE Credit(i)' /\ Reaching(i)'
    <3>1. CASE j = i
      BY <1>0, <1>1, <1>3, <3>1, CreditStep, AccessibleStep DEF Reaching
    <3>2. CASE j # i
      <4>1. main'[i] = main[i] /\ lease'[i] = lease[i] /\ loops'[i] = loops[i]
        BY <1>0, <1>3, <3>2, OnlyActor
      <4>2. Credit(i)'  BY <1>0, <4>1 DEF Credit, Due
      <4>3. ASSUME "outage" \notin Faults PROVE Accessible(i)'
        <5>1. ~OutageBegins(j)  BY <4>3 DEF OutageBegins, Spend
        <5>2. outage \in [Roles -> BOOLEAN]  BY <1>0 DEF AllTyped, EnvOK
        <5>3. outage'[i] = outage[i]  BY <1>0, <1>3, <3>2, <5>1, <5>2, EnvMoves
        <5>4. QED  BY <1>0, <4>1, <4>3, <5>3 DEF Reaching, Accessible
      <4>4. QED  BY <4>2, <4>3 DEF Reaching
    <3>3. QED  BY <3>1, <3>2
  <2>2. overlap' \in {overlap, 0}  BY <1>0, <1>3, OverlapMoves
  <2>3. ASSUME NEW i \in Roles, Ousted(i) PROVE overlap' = 0 \/ Ousted(i)'
    <3>1. CASE j = i  BY <1>0, <1>1, <1>3, <2>3, <3>1, OustedStep
    <3>2. CASE j # i
      <4>1. main'[i] = main[i] /\ lease'[i] = lease[i] /\ loops'[i] = loops[i]
        BY <1>0, <1>3, <3>2, OnlyActor
      <4>2. file' # file => file'.owner = j  BY <1>0, <1>3, WritesLive
      <4>3. ~Names(file', i)  BY <2>3, <3>2, <4>2 DEF Ousted, Names
      <4>4. SUFFICES ASSUME overlap' = overlap PROVE Ousted(i)'  BY <2>2
      <4>5. QED  BY <2>3, <4>1, <4>3, <4>4 DEF Ousted, Drained, Due, Patience, Names
    <3>3. QED  BY <3>1, <3>2
  <2>4. overlap' = 0 \/ \E i \in Roles : Ousted(i)'  BY <2>2, <2>3 DEF Resolving
  <2>5. QED  BY <1>1, <2>1, <2>4 DEF Resolving
<1>4. CASE UNCHANGED vars
  BY <1>1, <1>4
     DEF Resolving, vars, env, history, Credit, Due, Reaching, Accessible, Ousted, Drained, Patience, Names
<1>5. QED  BY <1>2, <1>3, <1>4 DEF Next

\* However two compositions came to be open at once, one of them has closed
\* within a renewal, or within a grant where the file cannot be read, and a
\* drain: whatever crashes, outages, lost probes, stops and long requests do,
\* and for any timings, as long as goroutines run when they are due.
THEOREM OverlapResolved ==
  ASSUME "stall" \notin Faults
  PROVE  Spec => []OverlapIsResolved
<1>1. Init => Resolving
  BY PromptInit DEF Init, Resolving, Credit, Reaching, Accessible, Down, NoHandle, NoLoops
<1>2. Resolving /\ [Next]_vars => Resolving'  BY ResolvingNext
<1>3. Resolving => OverlapIsResolved
  <2> SUFFICES ASSUME Resolving PROVE OverlapIsResolved  OBVIOUS
  <2>0. AllTyped /\ overlap \in Nat
    BY DEF Resolving, Prompt, IInv, AllTyped, HistoryOK
  <2>1. Patience \in Nat /\ ShutdownTimeout \in Nat /\ OverlapBound = ShutdownTimeout + Patience
    BY OwnershipAssumption, LeaseAssumption DEF Patience, OverlapBound
  <2>2. CASE overlap = 0  BY <2>1, <2>2 DEF OverlapIsResolved
  <2>3. CASE \E i \in Roles : Ousted(i)
    <3>1. PICK i \in Roles : Ousted(i)  BY <2>3
    <3>2. main[i].drain \in 0..ShutdownTimeout  BY <2>0, Fields DEF MainStates
    <3>3. Drained(i) \in Int /\ Drained(i) <= ShutdownTimeout
      BY <2>1, <3>2 DEF Drained
    <3>4. QED  BY <2>0, <2>1, <3>1, <3>3 DEF Ousted, OverlapIsResolved
  <2>4. QED  BY <2>2, <2>3 DEF Resolving
<1>4. QED  BY <1>1, <1>2, <1>3, PTL DEF Spec
=============================================================================
