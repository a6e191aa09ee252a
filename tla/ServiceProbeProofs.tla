------------------------- MODULE ServiceProbeProofs -------------------------
(***************************************************************************)
(* What a reader is told of a watched service, proved for every interval,  *)
(* timeout below it, network delay below it, number of retries and of      *)
(* observers: what is heard stays current; an outage is earned; a reader   *)
(* learns of an outage and of a recovery in time whatever is lost, and     *)
(* that all is well promptly when nothing is.  Then the same of the        *)
(* instances with their /health, which vouch for their monitor.            *)
(***************************************************************************)
EXTENDS InstanceHealth, TLAPS

\* The bounds of the types, as the provers need them.
LEMMA Bounds ==
  /\ Interval \in Nat /\ Timeout \in Nat /\ Delay \in Nat /\ Retries \in Nat
  /\ 0 < Timeout /\ Timeout < Interval /\ Delay < Interval /\ 0 < Retries
  /\ FreshFor = 2 * Interval + Timeout
  /\ Expired = FreshFor + Timeout + Delay + 1
BY ServiceProbeAssumption DEF FreshFor, Expired

LEMMA Caps == Horizon \in Nat /\ Span \in Nat
<1> DEFINE a == Retries - 1
<1>1. a \in Nat /\ Interval + Timeout \in Nat
  BY Bounds
<1>2. \A x, y \in Nat : x * y \in Nat
  OBVIOUS
<1>3. a * (Interval + Timeout) \in Nat /\ a * Interval \in Nat
  BY <1>1, <1>2, Bounds
<1> QED
  BY <1>3, Bounds DEF Horizon, Span, LastHealthy, FreshFor

LEMMA OlderBounded ==
  ASSUME NEW bound \in Nat, NEW low \in {-1, 0}, NEW t \in low .. bound
  PROVE  Older(t, bound) \in low .. bound
BY DEF Older

\* What a lost report adds to the time to the next.
Gap(o) == IF missed[o] = 0 THEN 0 ELSE Interval + Timeout

\* The age of a slot whose observer runs and is heard, but for one report,
\* against where its worker stands: the next report is on its way, being made,
\* or due.
Fresh(o) ==
  /\ phase[o] = "off" /\ slot[o].status # "none" => away[o]
  /\ phase[o] # "off" /\ slot[o].status # "none" /\ ~away[o] /\ missed[o] # 2 =>
       \/ /\ phase[o] = "waiting" /\ wire[o].status = "none"
          /\ slot[o].age + timer[o] <= Interval + Gap(o)
       \/ /\ phase[o] = "probing" /\ wire[o].status = "none"
          /\ slot[o].age + timer[o] <= Interval + Timeout + Gap(o)
       \/ /\ phase[o] = "waiting" /\ wire[o].status # "none"
          /\ wire[o].left + Interval = timer[o] + Delay
          /\ slot[o].age + timer[o] <= 2 * Interval + Timeout + Gap(o)

\* An attempt's timer holds no more than the timeout.
TimerBounded == \A o \in Observer : phase[o] = "probing" => timer[o] <= Timeout

IInv ==
  /\ TypeOK
  /\ TimerBounded
  /\ \A o \in Observer : Fresh(o)

LEMMA InitInv == Init => IInv
<1> SUFFICES ASSUME Init PROVE IInv
  OBVIOUS
<1>1. TypeOK
  BY Bounds, Caps, ServiceProbeAssumption DEF Init, TypeOK, Observed
<1> QED
  BY <1>1, ServiceProbeAssumption DEF Init, IInv, TimerBounded, Fresh, Gap

LEMMA ChangeInv == IInv /\ Change => IInv'
<1> SUFFICES ASSUME IInv, Change PROVE IInv'
  OBVIOUS
<1>1. TypeOK
  BY DEF IInv
<1>2. met' \in [Observer -> SUBSET BOOLEAN]
  BY <1>1 DEF Change, TypeOK
<1>3. TypeOK'
  BY <1>1, <1>2, Caps DEF Change, TypeOK, reader
<1> QED
  BY <1>3 DEF Change, IInv, TimerBounded, Fresh, Gap, reader

LEMMA StartInv ==
  ASSUME IInv, NEW o \in Observer, Start(o)
  PROVE  IInv'
<1>1. TypeOK
  BY DEF IInv
<1>2. Jitter[o] \in 0 .. Interval
  BY ServiceProbeAssumption, Bounds
<1>3. TypeOK'
  BY <1>1, <1>2 DEF Start, TypeOK, reader
<1>4. ASSUME NEW x \in Observer
      PROVE  Fresh(x)'
  BY <1>1 DEF IInv, Fresh, Gap, TypeOK, Start, reader
<1>5. TimerBounded'
  BY <1>1 DEF IInv, TimerBounded, TypeOK, Start
<1> QED  BY <1>3, <1>4, <1>5 DEF IInv

LEMMA BeginInv ==
  ASSUME IInv, NEW o \in Observer, Begin(o)
  PROVE  IInv'
<1>1. TypeOK
  BY DEF IInv
<1>2. TypeOK'
  <2>1. Timeout \in 0 .. Interval /\ {well} \in SUBSET BOOLEAN
    BY <1>1, Bounds DEF TypeOK
  <2> QED  BY <1>1, <2>1 DEF Begin, TypeOK, reader
<1>3. ASSUME NEW x \in Observer
      PROVE  Fresh(x)'
  <2>1. UNCHANGED <<slot, away, missed, wire>> /\ Fresh(x)
    BY DEF Begin, reader, IInv
  <2>2. CASE x = o
    <3>1. phase[o] = "waiting" /\ timer[o] = 0 /\ phase'[o] = "probing" /\ timer'[o] = Timeout
      BY <1>1 DEF TypeOK, Begin
    <3>2. wire[o].left \in 0 .. Delay /\ slot[o].age \in 0 .. Expired
      BY <1>1 DEF TypeOK
    <3> QED  BY <2>1, <2>2, <3>1, <3>2, Bounds DEF Fresh, Gap
  <2>3. CASE x # o
    BY <1>1, <2>1, <2>3 DEF Fresh, Gap, TypeOK, Begin
  <2> QED  BY <2>2, <2>3
<1>4. TimerBounded'
  BY <1>1, Bounds DEF IInv, TimerBounded, TypeOK, Begin
<1> QED  BY <1>2, <1>3, <1>4 DEF IInv

\* A fault is taken from what is left.
LEMMA SpendKeeps == TypeOK /\ Spend => faults' \in 0 .. MaxFaults
BY ServiceProbeAssumption DEF TypeOK, Spend

LEMMA EndAttemptInv ==
  ASSUME IInv, NEW o \in Observer, NEW answered \in BOOLEAN, EndAttempt(o, answered)
  PROVE  IInv'
<1>1. TypeOK
  BY DEF IInv
<1>2. /\ status' \in [Observer -> Observed]
      /\ failures' \in [Observer -> 0 .. Retries]
  <2> DEFINE n == IF answered THEN 0
                  ELSE IF failures[o] < Retries THEN failures[o] + 1 ELSE Retries
  <2>1. n \in 0 .. Retries
    BY <1>1, Bounds DEF TypeOK
  <2>2. failures' = [failures EXCEPT ![o] = n]
    BY DEF EndAttempt, Record
  <2>3. status' \in [Observer -> Observed]
    BY <1>1 DEF EndAttempt, Record, TypeOK, Observed, Verdict
  <2> QED  BY <1>1, <2>1, <2>2, <2>3 DEF TypeOK
<1>3. /\ UNCHANGED <<well, steady, slot, away, carries>>
      /\ phase' = [phase EXCEPT ![o] = "waiting"]
      /\ timer' = [timer EXCEPT ![o] = Interval]
      /\ phase[o] = "probing"
  BY DEF EndAttempt
<1>4. \/ /\ wire' = [wire EXCEPT ![o] = [status |-> status'[o], left |-> Delay]]
         /\ UNCHANGED <<missed, faults>>
      \/ /\ missed' = [missed EXCEPT ![o] = Older(@, 2)]
         /\ UNCHANGED wire
         /\ \/ UNCHANGED faults
            \/ Spend
  BY DEF EndAttempt, Report
<1>5. /\ wire' \in [Observer -> [status : Observed \cup {"none"}, left : 0 .. Delay]]
      /\ missed' \in [Observer -> 0 .. 2]
      /\ faults' \in 0 .. MaxFaults
  <2>1. wire' \in [Observer -> [status : Observed \cup {"none"}, left : 0 .. Delay]]
    <3>1. [status |-> status'[o], left |-> Delay]
            \in [status : Observed \cup {"none"}, left : 0 .. Delay]
      BY <1>2, Bounds
    <3> QED  BY <1>1, <1>4, <3>1 DEF TypeOK
  <2>2. missed' \in [Observer -> 0 .. 2]
    <3>1. Older(missed[o], 2) \in 0 .. 2
      BY <1>1 DEF TypeOK, Older
    <3> QED  BY <1>1, <1>4, <3>1 DEF TypeOK
  <2>3. faults' \in 0 .. MaxFaults
    BY <1>1, <1>4, SpendKeeps DEF TypeOK
  <2> QED  BY <2>1, <2>2, <2>3
<1>6. TypeOK'
  <2>1. bad' \in [Observer -> -1 .. Span] /\ met' \in [Observer -> SUBSET BOOLEAN]
    BY <1>1, Caps DEF TypeOK, EndAttempt
  <2>2. phase' \in [Observer -> {"off", "waiting", "probing"}] /\ timer' \in [Observer -> 0 .. Interval]
    <3>1. /\ phase \in [Observer -> {"off", "waiting", "probing"}]
          /\ timer \in [Observer -> 0 .. Interval]
      BY <1>1 DEF TypeOK
    <3> QED  BY <1>3, <3>1, Bounds
  <2> QED  BY <1>1, <1>2, <1>3, <1>5, <2>1, <2>2 DEF TypeOK
<1>7. TimerBounded'
  BY <1>1, <1>3, Bounds DEF IInv, TimerBounded, TypeOK
<1>8. ASSUME NEW x \in Observer
      PROVE  Fresh(x)'
  <2>1. Fresh(x) /\ phase'[o] = "waiting" /\ timer'[o] = Interval
    BY <1>1, <1>3 DEF IInv, TypeOK
  <2>2. CASE x = o
    <3>1. /\ wire[o].left \in 0 .. Delay /\ slot[o].age \in 0 .. Expired
          /\ timer[o] \in 0 .. Interval /\ missed[o] \in 0 .. 2
      BY <1>1, ServiceProbeAssumption DEF TypeOK
    <3>2. CASE wire' = [wire EXCEPT ![o] = [status |-> status'[o], left |-> Delay]]
               /\ UNCHANGED missed
      <4>1. wire'[o].left = Delay /\ wire'[o].status = status'[o] /\ status'[o] # "none"
        BY <1>1, <1>2, <3>2 DEF TypeOK, Observed, Verdict
      <4> QED  BY <1>3, <2>1, <2>2, <3>1, <3>2, <4>1, Bounds DEF Fresh, Gap
    <3>3. CASE missed' = [missed EXCEPT ![o] = Older(@, 2)] /\ UNCHANGED wire
      <4>1. missed'[o] = IF missed[o] < 2 THEN missed[o] + 1 ELSE 2
        BY <1>1, <3>3 DEF TypeOK, Older
      <4>2. missed'[o] # 2 => missed[o] = 0 /\ missed'[o] = 1
        BY <3>1, <4>1
      <4> QED  BY <1>3, <2>1, <2>2, <3>1, <3>3, <4>2, Bounds DEF Fresh, Gap
    <3> QED  BY <1>4, <3>2, <3>3
  <2>3. CASE x # o
    <3>1. wire'[x] = wire[x] /\ missed'[x] = missed[x]
      BY <1>1, <1>4, <2>3 DEF TypeOK
    <3> QED  BY <1>1, <1>3, <2>1, <2>3, <3>1 DEF Fresh, Gap, TypeOK
  <2> QED  BY <2>2, <2>3
<1> QED  BY <1>5, <1>6, <1>7, <1>8 DEF IInv

LEMMA LeaveInv ==
  ASSUME IInv, NEW o \in Observer, Leave(o)
  PROVE  IInv'
<1>1. TypeOK
  BY DEF IInv
<1>2. TypeOK'
  <2>1. faults' \in 0 .. MaxFaults
    BY <1>1, SpendKeeps DEF Leave
  <2> QED  BY <1>1, <2>1, Bounds, Caps DEF TypeOK, Leave, Gone, Observed
<1>3. TimerBounded'
  BY <1>1 DEF IInv, TimerBounded, TypeOK, Leave, Gone
<1>4. ASSUME NEW x \in Observer
      PROVE  Fresh(x)'
  BY <1>1 DEF IInv, Fresh, Gap, TypeOK, Leave, Gone
<1> QED  BY <1>2, <1>3, <1>4 DEF IInv

LEMMA DeliverInv ==
  ASSUME IInv, NEW o \in Observer, Deliver(o)
  PROVE  IInv'
<1>1. TypeOK
  BY DEF IInv
<1>2. TypeOK'
  BY <1>1, Bounds, ServiceProbeAssumption DEF TypeOK, Deliver, worker
<1>3. TimerBounded'
  BY DEF IInv, TimerBounded, Deliver, worker
<1>4. ASSUME NEW x \in Observer
      PROVE  Fresh(x)'
  <2>1. UNCHANGED <<phase, timer>> /\ Fresh(x)
    BY DEF Deliver, worker, IInv
  <2>2. CASE x = o
    <3>1. /\ slot'[o].age = 0 /\ wire'[o].status = "none" /\ missed'[o] = 0
          /\ away'[o] = (phase[o] = "off")
      BY <1>1 DEF TypeOK, Deliver
    <3>2. phase[o] \in {"off", "waiting", "probing"} /\ timer[o] \in 0 .. Interval
      BY <1>1 DEF TypeOK
    <3>3. CASE phase[o] = "off"
      BY <2>1, <2>2, <3>1, <3>3 DEF Fresh, Gap
    <3>4. CASE phase[o] # "off"
      <4>1. Gap(o)' = 0
        BY <3>1 DEF Gap
      <4>2. slot'[o].age + timer'[o] <= Interval + Gap(o)'
        BY <2>1, <3>1, <3>2, <4>1, Bounds
      <4>3. slot'[o].age + timer'[o] <= Interval + Timeout + Gap(o)'
        BY <2>1, <3>1, <3>2, <4>1, Bounds
      <4> QED  BY <2>1, <2>2, <3>1, <3>2, <3>4, <4>2, <4>3 DEF Fresh
    <3> QED  BY <3>3, <3>4
  <2>3. CASE x # o
    BY <1>1, <2>1, <2>3 DEF Fresh, Gap, TypeOK, Deliver
  <2> QED  BY <2>2, <2>3
<1> QED  BY <1>2, <1>3, <1>4 DEF IInv

LEMMA TickInv == IInv /\ Tick => IInv'
<1> SUFFICES ASSUME IInv, Tick PROVE IInv'
  OBVIOUS
<1>1. TypeOK
  BY DEF IInv
<1>2. UNCHANGED <<well, phase, met, status, failures, faults, missed, away, carries>>
  BY DEF Tick
<1>3. steady' \in 0 .. Horizon
  BY <1>1, Caps, OlderBounded DEF Tick, TypeOK
<1>4. /\ timer' \in [Observer -> 0 .. Interval]
      /\ \A o \in Observer : phase[o] # "off" => timer'[o] = timer[o] - 1
  BY <1>1, Bounds DEF Tick, MayTick, TypeOK
<1>5. /\ wire' \in [Observer -> [status : Observed \cup {"none"}, left : 0 .. Delay]]
      /\ \A o \in Observer :
           /\ wire'[o].status = wire[o].status
           /\ wire[o].status # "none" => wire'[o].left = wire[o].left - 1
  <2> DEFINE Wire == [status : Observed \cup {"none"}, left : 0 .. Delay]
             moved(o) == IF wire[o].status = "none" THEN wire[o]
                         ELSE [wire[o] EXCEPT !.left = @ - 1]
  <2>1. \A o \in Observer : wire[o] \in Wire
    BY <1>1 DEF TypeOK
  <2>2. wire' = [o \in Observer |-> moved(o)]
    BY DEF Tick
  <2>3. ASSUME NEW o \in Observer
        PROVE  /\ moved(o) \in Wire /\ moved(o).status = wire[o].status
               /\ wire[o].status # "none" => moved(o).left = wire[o].left - 1
    <3>1. CASE wire[o].status = "none"
      BY <2>1, <3>1
    <3>2. CASE wire[o].status # "none"
      <4>1. wire[o].left \in 0 .. Delay /\ wire[o].left > 0
        BY <2>1, <3>2 DEF Tick, MayTick
      <4>2. wire[o].left - 1 \in 0 .. Delay
        BY <4>1, Bounds
      <4> QED  BY <2>1, <3>2, <4>2
    <3> QED  BY <3>1, <3>2
  <2> HIDE DEF moved
  <2> QED  BY <2>2, <2>3
<1>6. /\ slot' \in [Observer -> [status : Observed \cup {"none"}, age : 0 .. Expired]]
      /\ \A o \in Observer :
           /\ slot'[o].status = slot[o].status
           /\ slot'[o].age <= slot[o].age + 1
  <2> DEFINE Slot == [status : Observed \cup {"none"}, age : 0 .. Expired]
             older(o) == IF slot[o].status = "none" THEN slot[o]
                         ELSE [slot[o] EXCEPT !.age = Older(@, Expired)]
  <2>1. \A o \in Observer : slot[o] \in Slot
    BY <1>1 DEF TypeOK
  <2>2. slot' = [o \in Observer |-> older(o)]
    BY DEF Tick
  <2>3. ASSUME NEW o \in Observer
        PROVE  /\ older(o) \in Slot /\ older(o).status = slot[o].status
               /\ older(o).age <= slot[o].age + 1
    <3>1. slot[o].age \in 0 .. Expired /\ Expired \in Nat
      BY <2>1, Bounds
    <3>2. /\ Older(slot[o].age, Expired) \in 0 .. Expired
          /\ Older(slot[o].age, Expired) <= slot[o].age + 1
      BY <3>1 DEF Older
    <3> HIDE DEF Slot
    <3>3. older(o) \in Slot
      BY <2>1, <3>2 DEF Slot
    <3> QED  BY <2>1, <3>1, <3>2, <3>3 DEF Slot
  <2> HIDE DEF older
  <2> QED  BY <2>2, <2>3
<1>7. bad' \in [Observer -> -1 .. Span]
  <2>1. \A o \in Observer : Older(bad[o], Span) \in -1 .. Span
    BY <1>1, Caps, OlderBounded DEF TypeOK
  <2> QED  BY <1>1, <2>1, Caps DEF Tick, TypeOK
<1>8. TypeOK'
  BY <1>1, <1>2, <1>3, <1>4, <1>5, <1>6, <1>7 DEF TypeOK
<1>9. TimerBounded'
  <2>1. TimerBounded'
    <3>1. \A o \in Observer : timer[o] \in 0 .. Interval
      BY <1>1 DEF TypeOK
    <3>2. \A o \in Observer : phase[o] = "probing" => timer[o] - 1 <= Timeout
      BY <3>1, Bounds DEF IInv, TimerBounded
    <3> QED  BY <1>2, <1>4, <3>2 DEF TimerBounded
  <2> QED  BY <1>2, <2>1 DEF IInv
<1>10. ASSUME NEW o \in Observer
       PROVE  Fresh(o)'
  <2>1. /\ wire[o].left \in 0 .. Delay /\ slot[o].age \in 0 .. Expired
        /\ slot'[o].age \in 0 .. Expired /\ timer[o] \in 0 .. Interval
    BY <1>1, <1>6 DEF TypeOK
  <2>2. Fresh(o)
    BY DEF IInv
  <2>3. slot'[o].age <= slot[o].age + 1 /\ slot'[o].status = slot[o].status
    BY <1>6
  <2>4. wire'[o].status = wire[o].status
    BY <1>5
  <2>5. CASE phase[o] = "off"
    BY <1>2, <2>2, <2>3, <2>5 DEF Fresh, Gap
  <2>6. CASE phase[o] # "off"
    <3>1. timer'[o] = timer[o] - 1
      BY <1>4, <2>6
    <3>2. slot'[o].age + timer'[o] <= slot[o].age + timer[o]
      BY <2>1, <2>3, <3>1
    <3>3. CASE wire[o].status = "none"
      BY <1>2, <2>1, <2>2, <2>3, <2>4, <2>6, <3>1, <3>2, <3>3, Bounds DEF Fresh, Gap
    <3>4. CASE wire[o].status # "none"
      <4>1. wire'[o].left = wire[o].left - 1
        BY <1>5, <3>4
      <4>2. SUFFICES ASSUME slot[o].status # "none", ~away[o], missed[o] # 2
                     PROVE  Fresh(o)'
        BY <1>2, <2>3, <2>6 DEF Fresh, Gap
      <4>3. /\ phase[o] = "waiting"
            /\ wire[o].left + Interval = timer[o] + Delay
            /\ slot[o].age + timer[o] <= 2 * Interval + Timeout + Gap(o)
        BY <2>2, <2>6, <3>4, <4>2 DEF Fresh, Gap
      <4>4. wire'[o].left + Interval = timer'[o] + Delay
        BY <2>1, <3>1, <4>1, <4>3, Bounds
      <4>5. slot'[o].age + timer'[o] <= 2 * Interval + Timeout + Gap(o)
        BY <2>1, <3>1, <3>2, <4>3, Bounds DEF Gap
      <4> QED  BY <1>2, <2>4, <3>4, <4>3, <4>4, <4>5 DEF Fresh, Gap
    <3> QED  BY <3>3, <3>4
  <2> QED  BY <2>5, <2>6
<1> QED  BY <1>8, <1>9, <1>10 DEF IInv

LEMMA BreakDownInv == IInv /\ BreakDown => IInv'
<1> SUFFICES ASSUME IInv, BreakDown PROVE IInv'
  OBVIOUS
<1>1. TypeOK
  BY DEF IInv
<1>2. faults' \in 0 .. MaxFaults
  BY <1>1, SpendKeeps DEF BreakDown
<1>3. TypeOK'
  BY <1>1, <1>2 DEF BreakDown, TypeOK, worker
<1> QED  BY <1>3 DEF BreakDown, IInv, TimerBounded, Fresh, Gap, worker

LEMMA StepInv == IInv /\ [Next]_vars => IInv'
<1> SUFFICES ASSUME IInv, [Next]_vars PROVE IInv'
  OBVIOUS
<1>1. CASE UNCHANGED vars
  BY <1>1 DEF vars, worker, reader, IInv, TypeOK, TimerBounded, Fresh, Gap
<1>2. CASE Change \/ BreakDown \/ Tick
  BY <1>2, ChangeInv, BreakDownInv, TickInv
<1>3. CASE \E o \in Observer : Start(o) \/ WorkerStep(o) \/ Leave(o) \/ Deliver(o)
  <2>1. PICK o \in Observer : Start(o) \/ WorkerStep(o) \/ Leave(o) \/ Deliver(o)
    BY <1>3
  <2>2. CASE WorkerStep(o)
    BY <2>2, BeginInv, EndAttemptInv DEF WorkerStep
  <2> QED  BY <2>1, <2>2, StartInv, LeaveInv, DeliverInv
<1> QED  BY <1>1, <1>2, <1>3 DEF Next

\* The invariant that freshness and its bounds rest on holds always.
THEOREM InvHolds == Spec => []IInv
BY InitInv, StepInv, PTL DEF Spec

-----------------------------------------------------------------------------
(* What follows *)

\* The state of a watched service is always well formed: in particular the
\* failures a tracker counts stop at the retries.
THEOREM TypeCorrect == Spec => []TypeOK
<1>1. IInv => TypeOK
  BY DEF IInv
<1> QED  BY <1>1, InvHolds, PTL

\* Two intervals and a timeout are enough where nothing is lost: nothing that is
\* heard goes stale before the next report, however slow the attempts and the
\* network.  And a lost report leaves its observer stale no longer than a slow
\* attempt and a slow network take.
THEOREM StaysFresh == Spec => []FreshWhileHeard
<1>1. ASSUME IInv, NEW o \in Observer,
             phase[o] # "off", slot[o].status # "none", ~away[o]
      PROVE  /\ missed[o] = 0 => slot[o].age <= FreshFor
             /\ missed[o] = 1 => slot[o].age <= FreshFor + Timeout + Delay
  <2>1. /\ slot[o].age \in 0 .. Expired /\ timer[o] \in 0 .. Interval
        /\ wire[o].left \in 0 .. Delay
    BY <1>1 DEF IInv, TypeOK
  <2>2. Fresh(o)
    BY <1>1 DEF IInv
  <2>3. CASE missed[o] = 0
    BY <1>1, <2>1, <2>2, <2>3, Bounds DEF Fresh, Gap
  <2>4. CASE missed[o] = 1
    BY <1>1, <2>1, <2>2, <2>4, Bounds DEF Fresh, Gap
  <2> QED  BY <2>3, <2>4
<1>2. IInv => FreshWhileHeard
  BY <1>1 DEF FreshWhileHeard, Current
<1> QED  BY <1>2, InvHolds, PTL

-----------------------------------------------------------------------------
(* An outage is earned *)

\* The time that k waits take, with what the provers need of the product.
Waits(k) == k * Interval

LEMMA WaitsAdd ==
  /\ Waits(0) = 0
  /\ \A k \in Nat : Waits(k) \in Nat /\ Waits(k + 1) = Waits(k) + Interval
  /\ \A k \in 0 .. Retries - 1 : Waits(k) <= Span
  /\ Waits(Retries - 1) = Span
<1>1. \A k, c \in Nat : k * c \in Nat /\ (k + 1) * c = k * c + c
  OBVIOUS
<1>2. \A j, k, c \in Nat : j <= k => j * c <= k * c
  OBVIOUS
<1>3. Retries - 1 \in Nat
  BY Bounds
<1> QED
  BY <1>1, <1>2, <1>3, Bounds DEF Waits, Span

\* The failures a tracker has counted, against how long ago the first of them
\* was and where the worker stands: a wait lies between each two.
Counting(o) ==
  /\ phase[o] = "off" => failures[o] = 0 /\ status[o] = "unknown"
  /\ failures[o] = 0 => bad[o] = -1
  /\ failures[o] = Retries => bad[o] >= Span
  /\ failures[o] # 0 => bad[o] # -1
  /\ failures[o] \in 1 .. Retries - 1 =>
       /\ phase[o] = "waiting" => bad[o] + timer[o] >= Waits(failures[o])
       /\ phase[o] = "probing" => bad[o] >= Waits(failures[o])
  /\ status[o] = "unhealthy" => failures[o] = Retries
  /\ status[o] = "healthy" => failures[o] < Retries

Earned == IInv /\ \A o \in Observer : Counting(o)

LEMMA EarnedInit == Init => Earned
BY InitInv, Bounds DEF Init, Earned, Counting

LEMMA EndAttemptEarned ==
  ASSUME Earned, NEW o \in Observer, NEW answered \in BOOLEAN, EndAttempt(o, answered)
  PROVE  Counting(o)'
<1>1. TypeOK /\ Counting(o)
  BY DEF Earned, IInv
<1>2. /\ phase[o] = "probing" /\ phase'[o] = "waiting" /\ timer'[o] = Interval
      /\ failures[o] \in 0 .. Retries /\ bad[o] \in -1 .. Span
  BY <1>1 DEF EndAttempt, TypeOK
<1>3. CASE answered
  <2>1. failures'[o] = 0 /\ status'[o] = "healthy" /\ bad'[o] = -1
    BY <1>1, <1>3 DEF EndAttempt, Record, TypeOK
  <2> QED  BY <1>2, <2>1, Bounds DEF Counting
<1>4. CASE ~answered
  <2>1. bad'[o] = IF bad[o] = -1 THEN 0 ELSE bad[o]
    BY <1>1, <1>4 DEF EndAttempt, TypeOK
  <2>2. CASE failures[o] = Retries
    <3>1. failures'[o] = Retries /\ status'[o] = "unhealthy"
      BY <1>1, <1>4, <2>2, Bounds DEF EndAttempt, Record, TypeOK
    <3> QED  BY <1>1, <1>2, <2>1, <2>2, <3>1, Bounds, Caps DEF Counting
  <2>3. CASE failures[o] < Retries
    <3>1. /\ failures'[o] = failures[o] + 1
          /\ status'[o] = IF failures[o] + 1 = Retries THEN "unhealthy" ELSE status[o]
      BY <1>1, <1>4, <2>3, Bounds DEF EndAttempt, Record, TypeOK
    <3>2. bad'[o] >= Waits(failures[o])
      BY <1>1, <1>2, <2>1, <2>3, WaitsAdd, Bounds DEF Counting
    <3>3. bad'[o] + Interval >= Waits(failures'[o]) /\ bad'[o] # -1
      BY <1>2, <2>1, <3>1, <3>2, WaitsAdd, Bounds, Caps
    <3>4. failures'[o] = Retries => bad'[o] >= Span
      <4>1. failures'[o] = Retries => failures[o] = Retries - 1
        BY <1>2, <3>1, Bounds
      <4> QED  BY <3>2, <4>1, WaitsAdd
    <3>5. status[o] # "unhealthy"
      BY <1>1, <2>3, Bounds DEF Counting
    <3> QED  BY <1>2, <2>3, <3>1, <3>3, <3>4, <3>5, Bounds DEF Counting
  <2> QED  BY <1>2, <2>2, <2>3, Bounds
<1> QED  BY <1>3, <1>4

LEMMA TickEarned ==
  ASSUME Earned, Tick, NEW o \in Observer
  PROVE  Counting(o)'
<1>1. TypeOK /\ Counting(o)
  BY DEF Earned, IInv
<1>2. UNCHANGED <<phase, status, failures>>
  BY DEF Tick
<1>3. /\ failures[o] \in 0 .. Retries /\ bad[o] \in -1 .. Span /\ timer[o] \in 0 .. Interval
      /\ phase[o] # "off" => timer'[o] = timer[o] - 1
  BY <1>1 DEF Tick, TypeOK
<1>4. bad'[o] = IF bad[o] = -1 THEN -1 ELSE IF bad[o] < Span THEN bad[o] + 1 ELSE Span
  BY DEF Tick, Older
<1>5. failures[o] \in 1 .. Retries - 1 => Waits(failures[o]) \in 0 .. Span
  BY <1>3, WaitsAdd, Bounds, Caps
<1>6. bad'[o] = bad[o] \/ (bad'[o] = bad[o] + 1 /\ bad[o] # -1)
  BY <1>3, <1>4, Caps
<1>7. ASSUME failures[o] \in 1 .. Retries - 1, phase[o] = "waiting"
      PROVE  bad'[o] + timer'[o] >= Waits(failures[o])
  <2>1. CASE bad[o] < Span
    BY <1>1, <1>2, <1>3, <1>4, <1>5, <1>7, <2>1, Caps DEF Counting
  <2>2. CASE bad[o] = Span
    <3>1. timer[o] > 0
      BY <1>7 DEF Tick, MayTick
    <3> QED  BY <1>1, <1>2, <1>3, <1>4, <1>5, <1>7, <2>2, <3>1, Caps
  <2> QED  BY <1>3, <2>1, <2>2, Caps
<1>8. failures[o] \in 1 .. Retries - 1 /\ phase[o] = "probing" => bad'[o] >= Waits(failures[o])
  BY <1>1, <1>3, <1>5, <1>6, Caps DEF Counting
<1>9. failures[o] = Retries => bad'[o] >= Span
  BY <1>1, <1>3, <1>6, Caps DEF Counting
<1>10. bad'[o] = -1 <=> bad[o] = -1
  BY <1>3, <1>6, Caps
<1> QED  BY <1>1, <1>2, <1>7, <1>8, <1>9, <1>10 DEF Counting

LEMMA EarnedNext == Earned /\ [Next]_vars => Earned'
<1> SUFFICES ASSUME Earned, [Next]_vars, NEW x \in Observer PROVE Counting(x)'
  BY StepInv DEF Earned
<1>1. TypeOK /\ Counting(x)
  BY DEF Earned, IInv
<1>2. CASE Change \/ BreakDown \/ UNCHANGED vars
  BY <1>1, <1>2 DEF Change, BreakDown, vars, worker, Counting
<1>3. CASE Tick
  BY <1>3, TickEarned
<1>4. ASSUME NEW o \in Observer, Start(o) PROVE Counting(x)'
  BY <1>1, <1>4, Bounds DEF Start, Counting, TypeOK
<1>5. ASSUME NEW o \in Observer, Begin(o) PROVE Counting(x)'
  <2>1. UNCHANGED <<status, failures, bad>>
    BY <1>5 DEF Begin
  <2>2. CASE x = o
    <3>1. phase[o] = "waiting" /\ timer[o] = 0 /\ phase'[o] = "probing"
      BY <1>1, <1>5 DEF Begin, TypeOK
    <3>2. failures[x] \in 1 .. Retries - 1 => bad[x] >= Waits(failures[x])
      BY <1>1, <2>2, <3>1, Caps DEF Counting, TypeOK
    <3> QED  BY <1>1, <2>1, <2>2, <3>1, <3>2 DEF Counting
  <2>3. CASE x # o
    <3>1. phase'[x] = phase[x] /\ timer'[x] = timer[x]
      BY <1>1, <1>5, <2>3 DEF Begin, TypeOK
    <3> QED  BY <1>1, <2>1, <3>1 DEF Counting
  <2> QED  BY <2>2, <2>3
<1>6. ASSUME NEW o \in Observer, NEW answered \in BOOLEAN, EndAttempt(o, answered)
      PROVE  Counting(x)'
  <2>1. CASE x = o
    BY <1>6, <2>1, EndAttemptEarned
  <2>2. CASE x # o
    <3>1. /\ phase'[x] = phase[x] /\ timer'[x] = timer[x] /\ status'[x] = status[x]
          /\ failures'[x] = failures[x] /\ bad'[x] = bad[x]
      BY <1>1, <1>6, <2>2 DEF EndAttempt, Record, TypeOK
    <3> QED  BY <1>1, <3>1 DEF Counting
  <2> QED  BY <2>1, <2>2
<1>7. ASSUME NEW o \in Observer, Leave(o) PROVE Counting(x)'
  BY <1>1, <1>7, Bounds DEF Leave, Gone, Counting, TypeOK
<1>8. ASSUME NEW o \in Observer, Deliver(o) PROVE Counting(x)'
  BY <1>1, <1>8 DEF Deliver, worker, Counting
<1> QED  BY <1>2, <1>3, <1>4, <1>5, <1>6, <1>7, <1>8 DEF Next, WorkerStep

LEMMA EarnedHolds == Spec => []Earned
BY EarnedInit, EarnedNext, PTL DEF Spec

\* An observer calls a service unhealthy only after failures that span all the
\* waits between the retries, for every number of retries.
THEOREM OutageIsEarned == Spec => []UnhealthyIsEarned
<1>1. Earned => UnhealthyIsEarned
  BY DEF Earned, Counting, UnhealthyIsEarned
<1> QED  BY <1>1, EarnedHolds, PTL

-----------------------------------------------------------------------------
(* An outage and a recovery are seen *)

\* The verdict that is no longer true of the service, what a report says that
\* was made of the service as it was, and how long after the change the last
\* such report is made.
Wrong == IF well THEN "unhealthy" ELSE "healthy"
Outdated == IF well THEN {"unhealthy", "unknown"} ELSE {"healthy"}
LastWrong == IF well THEN Timeout ELSE LastHealthy

\* The longest that k failed attempts and the waits before them take.
Attempts(k) == k * (Interval + Timeout)

LEMMA AttemptsAdd ==
  /\ Attempts(0) = 0
  /\ \A k \in Nat : /\ Attempts(k) \in Nat
                    /\ Attempts(k + 1) = Attempts(k) + Interval + Timeout
  /\ \A k \in 0 .. Retries - 1 : Timeout + Attempts(k) <= LastHealthy
  /\ LastHealthy \in Nat /\ Timeout <= LastHealthy
<1> DEFINE c == Interval + Timeout
<1>1. \A k, d \in Nat : k * d \in Nat /\ (k + 1) * d = k * d + d
  OBVIOUS
<1>2. \A j, k, d \in Nat : j <= k => j * d <= k * d
  OBVIOUS
<1>3. Retries - 1 \in Nat /\ c \in Nat
  BY Bounds
<1>4. (Retries - 1) * c \in Nat /\ 0 * c = 0
  BY <1>1, <1>3
<1>5. \A k \in Nat : k * c \in Nat /\ (k + 1) * c = k * c + c
  BY <1>1, <1>3
<1>6. \A k \in 0 .. Retries - 1 : k * c <= (Retries - 1) * c
  BY <1>2, <1>3
<1>7. LastHealthy = Timeout + (Retries - 1) * c
  BY DEF LastHealthy
<1>8. \A k : Attempts(k) = k * c
  BY DEF Attempts
<1> HIDE DEF c
<1>9. c = Interval + Timeout
  BY DEF c
<1> QED
  BY <1>4, <1>5, <1>6, <1>7, <1>8, <1>9, Bounds

LEMMA LastWrongBounds == LastWrong \in Nat /\ Timeout <= LastWrong
BY AttemptsAdd, Bounds DEF LastWrong

\* An attempt can still find the service as it no longer is if it began before
\* the change.
LateAttempt(o) ==
  phase[o] = "probing" /\ (\E v \in met[o] : v # well) => steady + timer[o] <= Timeout

\* A tracker that calls a failing service healthy has counted every attempt that
\* began since, and these are fewer than the retries.
LateStatus(o) ==
  ~well /\ status[o] = "healthy" =>
    /\ phase[o] = "waiting" => steady + timer[o] <= Timeout + Attempts(failures[o]) + Interval
    /\ phase[o] = "probing" => steady + timer[o] <= Timeout + Attempts(failures[o] + 1)

\* A report that is on its way left in time, and one that arrived has been
\* there since or is stale.
LateReport(o) ==
  wire[o].status \in Outdated => steady + wire[o].left <= LastWrong + Delay
LateSlot(o) ==
  slot[o].status \in Outdated =>
    slot[o].age = Expired \/ steady <= LastWrong + Delay + slot[o].age

Late(o) == LateAttempt(o) /\ LateStatus(o) /\ LateReport(o) /\ LateSlot(o)

Truthful == Earned /\ \A o \in Observer : Late(o)

\* The types of what is compared, for one observer.
LEMMA LateTypes ==
  ASSUME TypeOK, NEW o \in Observer
  PROVE  /\ well \in BOOLEAN /\ steady \in Nat
         /\ timer[o] \in Nat /\ met[o] \subseteq BOOLEAN
         /\ failures[o] \in 0 .. Retries
         /\ wire[o].left \in 0 .. Delay /\ slot[o].age \in 0 .. Expired
BY Bounds, Caps DEF TypeOK

LEMMA TruthfulInit == Init => Truthful
BY EarnedInit DEF Init, Truthful, Late, LateAttempt, LateStatus, LateReport, LateSlot, Outdated

\* A change of the service begins everything anew.
LEMMA ChangeTruthful ==
  ASSUME Truthful, Change, NEW o \in Observer
  PROVE  Late(o)'
<1>1. TypeOK /\ TimerBounded /\ Counting(o)
  BY DEF Truthful, Earned, IInv
<1>2. /\ steady' = 0 /\ UNCHANGED <<phase, timer, status, failures, wire, slot>>
  BY DEF Change, reader
<1>3. /\ timer[o] \in 0 .. Interval /\ failures[o] \in 0 .. Retries
      /\ wire[o].left \in 0 .. Delay /\ slot[o].age \in 0 .. Expired
  BY <1>1 DEF TypeOK
<1>4. LateAttempt(o)'
  BY <1>1, <1>2, <1>3 DEF LateAttempt, TimerBounded
<1>5. LateStatus(o)'
  <2>1. Attempts(failures[o]) \in Nat
    BY <1>3, AttemptsAdd, Bounds
  <2>2. Attempts(failures[o] + 1) \in Nat
    BY <1>3, AttemptsAdd, Bounds
  <2>3. phase[o] = "probing" => timer[o] <= Timeout
    BY <1>1 DEF TimerBounded
  <2> QED  BY <1>2, <1>3, <2>1, <2>2, <2>3, Bounds DEF LateStatus
<1>6. LateReport(o)' /\ LateSlot(o)'
  <2>1. LastWrong' \in Nat
    BY AttemptsAdd, Bounds DEF LastWrong
  <2> QED  BY <1>2, <1>3, <2>1, Bounds DEF LateReport, LateSlot
<1> QED  BY <1>4, <1>5, <1>6 DEF Late

LEMMA BeginTruthful ==
  ASSUME Truthful, NEW o \in Observer, Begin(o)
  PROVE  Late(o)'
<1>1. TypeOK /\ Counting(o) /\ Late(o)
  BY DEF Truthful, Earned, IInv
<1>2. /\ phase[o] = "waiting" /\ timer[o] = 0 /\ phase'[o] = "probing"
      /\ timer'[o] = Timeout /\ met'[o] = {well}
      /\ UNCHANGED <<well, steady, status, failures, wire, slot>>
  BY <1>1 DEF Begin, TypeOK, reader
<1>3. LateAttempt(o)'
  BY <1>2 DEF LateAttempt
<1>4. LateStatus(o)'
  <2>1. steady \in Nat /\ failures[o] \in Nat
    BY <1>1, LateTypes, Bounds
  <2>2. Attempts(failures[o]) \in Nat
          /\ Attempts(failures[o] + 1) = Attempts(failures[o]) + Interval + Timeout
    BY <2>1, AttemptsAdd
  <2> QED  BY <1>1, <1>2, <2>1, <2>2, Bounds DEF Late, LateStatus
<1>5. LateReport(o)' /\ LateSlot(o)'
  BY <1>1, <1>2 DEF Late, LateReport, LateSlot, Outdated, LastWrong
<1> QED  BY <1>3, <1>4, <1>5 DEF Late

LEMMA EndAttemptTruthful ==
  ASSUME Truthful, NEW o \in Observer, NEW answered \in BOOLEAN, EndAttempt(o, answered)
  PROVE  Late(o)'
<1>1. TypeOK /\ Counting(o) /\ Counting(o)' /\ Late(o)
  BY EndAttemptEarned DEF Truthful, Earned, IInv
<1>2. /\ phase[o] = "probing" /\ phase'[o] = "waiting" /\ timer'[o] = Interval
      /\ met'[o] = {} /\ answered \in met[o]
      /\ UNCHANGED <<well, steady, slot>>
  BY <1>1 DEF EndAttempt, TypeOK
<1>3. /\ well \in BOOLEAN /\ steady \in Nat /\ timer[o] \in Nat
      /\ failures[o] \in 0 .. Retries /\ failures'[o] \in 0 .. Retries
      /\ wire[o].left \in 0 .. Delay
  <2>1. TypeOK'
    BY EndAttemptInv DEF Truthful, Earned, IInv
  <2> QED  BY <1>1, <2>1, LateTypes DEF TypeOK
<1>4. answered # well => steady <= Timeout
  BY <1>1, <1>2, <1>3, Bounds DEF Late, LateAttempt
<1>5. ~answered => /\ failures[o] < Retries => failures'[o] = failures[o] + 1
                   /\ failures[o] = Retries => status'[o] = "unhealthy"
                   /\ status'[o] = "healthy" => status[o] = "healthy"
  BY <1>1, Bounds DEF EndAttempt, Record, TypeOK
<1>6. answered => failures'[o] = 0 /\ status'[o] = "healthy"
  BY <1>1 DEF EndAttempt, Record, TypeOK
<1>7. ~well /\ status'[o] = "healthy" =>
        /\ steady <= Timeout + Attempts(failures'[o])
        /\ steady <= LastHealthy
  <2>1. ASSUME answered, ~well
        PROVE  steady <= Timeout + Attempts(failures'[o]) /\ steady <= LastHealthy
    <3>1. steady <= Timeout
      BY <1>4, <2>1
    <3> QED  BY <1>3, <1>6, <2>1, <3>1, AttemptsAdd, Bounds
  <2>2. ASSUME ~answered, ~well, status'[o] = "healthy"
        PROVE  steady <= Timeout + Attempts(failures'[o]) /\ steady <= LastHealthy
    <3>1. failures'[o] = failures[o] + 1 /\ status[o] = "healthy"
      BY <1>3, <1>5, <2>2, Bounds
    <3>2. failures'[o] \in 0 .. Retries - 1
      BY <1>1, <1>3, <2>2, Bounds DEF Counting
    <3>3. steady + timer[o] <= Timeout + Attempts(failures'[o])
      BY <1>1, <1>2, <2>2, <3>1 DEF Late, LateStatus
    <3>4. Attempts(failures'[o]) \in Nat /\ Timeout + Attempts(failures'[o]) <= LastHealthy
      BY <3>2, AttemptsAdd, Bounds
    <3> QED  BY <1>3, <3>3, <3>4, AttemptsAdd, Bounds
  <2> QED  BY <2>1, <2>2
<1>8. LateAttempt(o)'
  BY <1>2 DEF LateAttempt
<1>9. LateStatus(o)'
  <2>1. Attempts(failures'[o]) \in Nat
    BY <1>3, AttemptsAdd, Bounds
  <2> QED  BY <1>2, <1>3, <1>7, <2>1, Bounds DEF LateStatus
<1>10. LateSlot(o)'
  BY <1>1, <1>2 DEF Late, LateSlot, Outdated, LastWrong
<1>11. LateReport(o)'
  <2>1. CASE wire' = [wire EXCEPT ![o] = [status |-> status'[o], left |-> Delay]]
    <3>1. wire'[o].status = status'[o] /\ wire'[o].left = Delay
      BY <1>1, <2>1 DEF TypeOK
    <3>2. well /\ status'[o] \in {"unhealthy", "unknown"} => steady <= Timeout
      BY <1>4, <1>6
    <3>3. status'[o] \in Outdated => steady <= LastWrong
      BY <1>7, <3>2 DEF Outdated, LastWrong
    <3> QED
      BY <1>2, <1>3, <3>1, <3>3, LastWrongBounds, Bounds DEF LateReport, Outdated, LastWrong
  <2>2. CASE UNCHANGED wire
    BY <1>1, <1>2, <2>2 DEF Late, LateReport, Outdated, LastWrong
  <2> QED  BY <2>1, <2>2 DEF EndAttempt, Report
<1> QED  BY <1>8, <1>9, <1>10, <1>11 DEF Late

LEMMA DeliverTruthful ==
  ASSUME Truthful, NEW o \in Observer, Deliver(o)
  PROVE  Late(o)'
<1>1. TypeOK /\ Late(o)
  BY DEF Truthful, Earned, IInv
<1>2. /\ UNCHANGED <<well, steady, phase, timer, met, status, failures>>
      /\ slot'[o] = [status |-> wire[o].status, age |-> 0]
      /\ wire'[o].status = "none"
  BY <1>1 DEF Deliver, worker, TypeOK
<1>3. LateReport(o)' /\ LateAttempt(o)' /\ LateStatus(o)'
  BY <1>1, <1>2 DEF Late, LateReport, LateAttempt, LateStatus, Outdated
<1>4. LateSlot(o)'
  BY <1>1, <1>2, LateTypes, LastWrongBounds, Bounds
  DEF Late, LateReport, LateSlot, Outdated, LastWrong
<1> QED  BY <1>3, <1>4 DEF Late

LEMMA TickTruthful ==
  ASSUME Truthful, Tick, NEW o \in Observer
  PROVE  Late(o)'
<1>1. TypeOK /\ Late(o) /\ Counting(o)
  BY DEF Truthful, Earned, IInv
<1>2. /\ UNCHANGED <<well, phase, met, status, failures>>
      /\ phase[o] # "off" => timer'[o] = timer[o] - 1
      /\ wire'[o].status = wire[o].status
      /\ wire[o].status # "none" => wire'[o].left = wire[o].left - 1
      /\ slot'[o].status = slot[o].status
      /\ slot[o].status # "none" =>
           slot'[o].age = IF slot[o].age < Expired THEN slot[o].age + 1 ELSE Expired
  BY <1>1 DEF Tick, TypeOK, Older
<1>3. /\ steady \in Nat /\ timer[o] \in Nat /\ failures[o] \in Nat
      /\ wire[o].left \in Nat /\ slot[o].age \in 0 .. Expired
  BY <1>1, LateTypes, Bounds
<1>4. steady' \in Nat /\ steady' <= steady + 1
  BY <1>1, Caps DEF Tick, Older, TypeOK
<1>5. LateAttempt(o)'
  BY <1>1, <1>2, <1>3, <1>4, Bounds DEF Late, LateAttempt
<1>6. LateStatus(o)'
  <2>1. Attempts(failures[o]) \in Nat /\ Attempts(failures[o] + 1) \in Nat
    BY <1>3, AttemptsAdd
  <2> QED  BY <1>1, <1>2, <1>3, <1>4, <2>1, Bounds DEF Late, LateStatus
<1>7. LateReport(o)'
  BY <1>1, <1>2, <1>3, <1>4, LastWrongBounds, Bounds
  DEF Late, LateReport, Outdated, LastWrong
<1>8. LateSlot(o)'
  BY <1>1, <1>2, <1>3, <1>4, LastWrongBounds, Bounds
  DEF Late, LateSlot, Outdated, LastWrong
<1> QED  BY <1>5, <1>6, <1>7, <1>8 DEF Late

\* Processes that start and end say nothing.
LEMMA LifeTruthful ==
  ASSUME Truthful, NEW o \in Observer, Start(o) \/ Leave(o)
  PROVE  Late(o)'
<1>1. TypeOK /\ Late(o) /\ Counting(o)
  BY DEF Truthful, Earned, IInv
<1>2. UNCHANGED <<well, steady, wire, slot>> /\ phase'[o] # "probing"
  BY <1>1 DEF Start, Leave, TypeOK, Gone, reader
<1>3. LateAttempt(o)' /\ LateReport(o)' /\ LateSlot(o)'
  BY <1>1, <1>2 DEF Late, LateAttempt, LateReport, LateSlot, Outdated, LastWrong
<1>4. status'[o] # "healthy"
  BY <1>1 DEF Start, Leave, Gone, Counting, TypeOK
<1> QED  BY <1>3, <1>4 DEF Late, LateStatus

\* What one observer's process does leaves what the others said alone.
LEMMA OthersTruthful ==
  ASSUME Truthful, NEW x \in Observer,
         UNCHANGED <<well, steady, phase[x], timer[x], met[x], status[x], failures[x],
                     wire[x], slot[x]>>
  PROVE  Late(x)'
BY DEF Truthful, Late, LateAttempt, LateStatus, LateReport, LateSlot, Outdated, LastWrong

LEMMA TruthfulNext == Truthful /\ [Next]_vars => Truthful'
<1> SUFFICES ASSUME Truthful, [Next]_vars, NEW x \in Observer PROVE Late(x)'
  BY EarnedNext DEF Truthful
<1>1. TypeOK
  BY DEF Truthful, Earned, IInv
<1>2. CASE BreakDown \/ UNCHANGED vars
  BY <1>2, OthersTruthful DEF BreakDown, vars, worker, reader
<1>3. CASE Change \/ Tick
  BY <1>3, ChangeTruthful, TickTruthful
<1>4. ASSUME NEW o \in Observer, Start(o) \/ WorkerStep(o) \/ Leave(o) \/ Deliver(o)
      PROVE  Late(x)'
  <2>1. CASE x = o
    BY <1>4, <2>1, LifeTruthful, BeginTruthful, EndAttemptTruthful, DeliverTruthful
    DEF WorkerStep
  <2>2. CASE x # o
    <3>1. CASE Start(o) \/ Begin(o)
      BY <1>1, <2>2, <3>1, OthersTruthful DEF Start, Begin, reader, TypeOK
    <3>2. ASSUME NEW answered \in BOOLEAN, EndAttempt(o, answered) PROVE Late(x)'
      BY <1>1, <2>2, <3>2, OthersTruthful DEF EndAttempt, Record, Report, TypeOK
    <3>3. CASE Leave(o)
      BY <1>1, <2>2, <3>3, OthersTruthful DEF Leave, Gone, TypeOK
    <3>4. CASE Deliver(o)
      BY <1>1, <2>2, <3>4, OthersTruthful DEF Deliver, worker, TypeOK
    <3> QED  BY <1>4, <3>1, <3>2, <3>3, <3>4 DEF WorkerStep
  <2> QED  BY <2>1, <2>2
<1> QED  BY <1>2, <1>3, <1>4 DEF Next

LEMMA TruthfulHolds == Spec => []Truthful
BY TruthfulInit, TruthfulNext, PTL DEF Spec

\* Once the last wrong report is stale, no current report is wrong, and what
\* the rest add up to is not either.
LEMMA NobodyIsWrong ==
  ASSUME Truthful, steady > LastWrong + Delay + FreshFor
  PROVE  Answer \notin {Wrong, "degraded"}
<1> DEFINE said == {slot[o].status : o \in {x \in Observer : Current(x)}} \cap Verdict
<1>1. ASSUME NEW o \in Observer, Current(o), slot[o].status = Wrong
      PROVE  FALSE
  <2>1. slot[o].age \in 0 .. Expired /\ slot[o].age <= FreshFor /\ steady \in Nat
    BY <1>1, LateTypes DEF Truthful, Earned, IInv, Current
  <2>2. slot[o].age = Expired \/ steady <= LastWrong + Delay + slot[o].age
    BY <1>1 DEF Truthful, Late, LateSlot, Wrong, Outdated
  <2> QED  BY <2>1, <2>2, LastWrongBounds, Bounds
<1>2. Wrong \notin said /\ Wrong \in Verdict
  BY <1>1 DEF Wrong, Verdict
<1>3. said # {} => (CHOOSE v \in said : TRUE) \in said
  OBVIOUS
<1>4. Answer = Reduce(said)
  BY DEF Answer
<1>5. said \subseteq Verdict
  OBVIOUS
<1> HIDE DEF said
<1>6. Wrong # "unknown" /\ "degraded" \notin Verdict
  BY DEF Wrong, Verdict
<1>7. CASE said = {}
  BY <1>4, <1>6, <1>7 DEF Reduce
<1>8. CASE said # {}
  <2>1. Answer = CHOOSE v \in said : TRUE
    BY <1>2, <1>4, <1>8 DEF Reduce
  <2> QED  BY <1>2, <1>3, <1>5, <1>6, <1>8, <2>1
<1> QED  BY <1>7, <1>8

\* Whatever is lost and whoever dies, a service that recovered is not called
\* unhealthy for longer than an attempt, a delay and a report's freshness.
THEOREM RecoveryIsAlwaysSeen == Spec => []RecoveryIsSeen
<1>1. Truthful => RecoveryIsSeen
  BY NobodyIsWrong DEF RecoveryIsSeen, Wrong, LastWrong
<1> QED  BY <1>1, TruthfulHolds, PTL

\* And one that fails is not called healthy for longer than the retries, a delay
\* and a report's freshness, for every number of retries.
THEOREM OutageIsAlwaysSeen == Spec => []OutageIsSeen
<1>1. Truthful => OutageIsSeen
  BY NobodyIsWrong DEF OutageIsSeen, Wrong, LastWrong
<1> QED  BY <1>1, TruthfulHolds, PTL

-----------------------------------------------------------------------------
(* Health is seen promptly *)

IsHeard(o) == slot[o].status # "none" /\ ~away[o] /\ missed[o] = 0

\* What the reader has of a well service from an observer it hears is right
\* already, or soon put right: a wait, an attempt and a delay lie ahead at most.
Prompt(o) ==
  well /\ phase[o] # "off" /\ IsHeard(o) /\ slot[o].status # "healthy" =>
    /\ phase[o] = "waiting" /\ wire[o].status = "none" =>
         steady + timer[o] <= Interval + Timeout + Delay
    /\ phase[o] = "probing" => steady + timer[o] <= Interval + 2 * Timeout + Delay
    /\ wire[o].status = "healthy" => steady + wire[o].left <= Interval + 2 * (Timeout + Delay)

Prompted == Truthful /\ \A o \in Observer : Prompt(o)

LEMMA PromptInit == Init => Prompted
BY TruthfulInit DEF Init, Prompted, Prompt

LEMMA ChangePrompt ==
  ASSUME Prompted, Change, NEW o \in Observer
  PROVE  Prompt(o)'
<1>1. TypeOK /\ TimerBounded
  BY DEF Prompted, Truthful, Earned, IInv
<1>2. steady' = 0 /\ UNCHANGED <<phase, timer, wire, slot>>
  BY DEF Change, reader
<1>3. timer[o] \in 0 .. Interval /\ wire[o].left \in 0 .. Delay
  BY <1>1 DEF TypeOK
<1> QED  BY <1>1, <1>2, <1>3, Bounds DEF Prompt, TimerBounded

LEMMA BeginPrompt ==
  ASSUME Prompted, NEW o \in Observer, Begin(o)
  PROVE  Prompt(o)'
<1>1. TypeOK /\ Prompt(o) /\ Fresh(o)
  BY DEF Prompted, Truthful, Earned, IInv
<1>2. /\ phase[o] = "waiting" /\ timer[o] = 0 /\ phase'[o] = "probing"
      /\ timer'[o] = Timeout
      /\ UNCHANGED <<well, steady, wire, slot, away, missed>>
  BY <1>1 DEF Begin, TypeOK, reader
<1>3. IsHeard(o) => wire[o].status = "none"
  BY <1>1, <1>2, LateTypes, Bounds DEF Fresh, Gap, IsHeard
<1>4. steady \in Nat
  BY <1>1, LateTypes
<1> QED  BY <1>1, <1>2, <1>3, <1>4, Bounds DEF Prompt, IsHeard

LEMMA EndAttemptPrompt ==
  ASSUME Prompted, NEW o \in Observer, NEW answered \in BOOLEAN, EndAttempt(o, answered)
  PROVE  Prompt(o)'
<1>1. TypeOK /\ Prompt(o) /\ Fresh(o) /\ LateAttempt(o)
  BY DEF Prompted, Truthful, Earned, IInv, Late
<1>2. /\ phase[o] = "probing" /\ phase'[o] = "waiting" /\ answered \in met[o]
      /\ UNCHANGED <<well, steady, slot, away>>
  BY <1>1 DEF EndAttempt, TypeOK
<1>3. steady \in Nat /\ timer[o] \in Nat /\ missed[o] \in 0 .. 2
  BY <1>1, LateTypes, ServiceProbeAssumption DEF TypeOK
<1>4. CASE missed' = [missed EXCEPT ![o] = Older(@, 2)]
  <2>1. missed'[o] # 0
    BY <1>1, <1>3, <1>4 DEF TypeOK, Older
  <2> QED  BY <2>1 DEF Prompt, IsHeard
<1>5. CASE /\ wire' = [wire EXCEPT ![o] = [status |-> status'[o], left |-> Delay]]
           /\ UNCHANGED missed
  <2>1. wire'[o].status = status'[o] /\ wire'[o].left = Delay
    BY <1>1, <1>5 DEF TypeOK
  <2>2. status'[o] # "none"
    <3>1. TypeOK'
      BY EndAttemptInv DEF Prompted, Truthful, Earned, IInv
    <3> QED  BY <3>1 DEF TypeOK, Observed, Verdict
  <2> QED  BY <1>1, <1>2, <1>3, <1>5, <2>1, <2>2, Bounds DEF Prompt, IsHeard
<1> QED  BY <1>4, <1>5 DEF EndAttempt, Report

LEMMA DeliverPrompt ==
  ASSUME Prompted, NEW o \in Observer, Deliver(o)
  PROVE  Prompt(o)'
<1>1. TypeOK /\ LateReport(o) /\ TimerBounded
  BY DEF Prompted, Truthful, Earned, IInv, Late
<1>2. /\ UNCHANGED <<well, steady, phase, timer>>
      /\ slot'[o].status = wire[o].status
      /\ wire'[o].status = "none"
      /\ wire[o].status # "none"
  BY <1>1 DEF Deliver, worker, TypeOK
<1>3. /\ steady \in Nat /\ timer[o] \in 0 .. Interval /\ wire[o].left \in 0 .. Delay
      /\ wire[o].status \in {"healthy", "unhealthy", "unknown", "none"}
  BY <1>1, LateTypes DEF TypeOK, Observed, Verdict
<1>4. well /\ wire[o].status # "healthy" => steady <= Timeout + Delay
  BY <1>1, <1>2, <1>3, Bounds DEF LateReport, Outdated, LastWrong
<1> QED  BY <1>1, <1>2, <1>3, <1>4, Bounds DEF Prompt, TimerBounded

LEMMA TickPrompt ==
  ASSUME Prompted, Tick, NEW o \in Observer
  PROVE  Prompt(o)'
<1>1. TypeOK /\ Prompt(o)
  BY DEF Prompted, Truthful, Earned, IInv
<1>2. /\ UNCHANGED <<well, phase, away, missed>>
      /\ phase[o] # "off" => timer'[o] = timer[o] - 1
      /\ wire'[o].status = wire[o].status
      /\ wire[o].status # "none" => wire'[o].left = wire[o].left - 1
      /\ slot'[o].status = slot[o].status
  BY <1>1 DEF Tick, TypeOK
<1>3. steady \in Nat /\ timer[o] \in Nat /\ wire[o].left \in Nat
  BY <1>1, LateTypes, Bounds
<1>4. steady' \in Nat /\ steady' <= steady + 1
  BY <1>1, Caps DEF Tick, Older, TypeOK
<1> QED  BY <1>1, <1>2, <1>3, <1>4, Bounds DEF Prompt, IsHeard

\* A process that is not running is not heard.
LEMMA LifePrompt ==
  ASSUME Prompted, NEW o \in Observer, Start(o) \/ Leave(o)
  PROVE  Prompt(o)'
<1>1. TypeOK /\ Fresh(o)
  BY DEF Prompted, Truthful, Earned, IInv
<1>2. slot[o].status # "none" => away'[o]
  BY <1>1 DEF Start, Leave, TypeOK, Fresh, Gap, reader
<1>3. UNCHANGED slot
  BY DEF Start, Leave, reader
<1> QED  BY <1>2, <1>3 DEF Prompt, IsHeard

LEMMA OthersPrompt ==
  ASSUME Prompted, NEW x \in Observer,
         UNCHANGED <<well, steady, phase[x], timer[x], wire[x], slot[x], away[x], missed[x]>>
  PROVE  Prompt(x)'
BY DEF Prompted, Prompt, IsHeard

LEMMA PromptNext == Prompted /\ [Next]_vars => Prompted'
<1> SUFFICES ASSUME Prompted, [Next]_vars, NEW x \in Observer PROVE Prompt(x)'
  BY TruthfulNext DEF Prompted
<1>1. TypeOK
  BY DEF Prompted, Truthful, Earned, IInv
<1>2. CASE BreakDown \/ UNCHANGED vars
  BY <1>2, OthersPrompt DEF BreakDown, vars, worker, reader
<1>3. CASE Change \/ Tick
  BY <1>3, ChangePrompt, TickPrompt
<1>4. ASSUME NEW o \in Observer, Start(o) \/ WorkerStep(o) \/ Leave(o) \/ Deliver(o)
      PROVE  Prompt(x)'
  <2>1. CASE x = o
    BY <1>4, <2>1, LifePrompt, BeginPrompt, EndAttemptPrompt, DeliverPrompt DEF WorkerStep
  <2>2. CASE x # o
    <3>1. CASE Start(o) \/ Begin(o)
      BY <1>1, <2>2, <3>1, OthersPrompt DEF Start, Begin, reader, TypeOK
    <3>2. ASSUME NEW answered \in BOOLEAN, EndAttempt(o, answered) PROVE Prompt(x)'
      BY <1>1, <2>2, <3>2, OthersPrompt DEF EndAttempt, Report, TypeOK
    <3>3. CASE Leave(o)
      BY <1>1, <2>2, <3>3, OthersPrompt DEF Leave, Gone, TypeOK
    <3>4. CASE Deliver(o)
      BY <1>1, <2>2, <3>4, OthersPrompt DEF Deliver, worker, TypeOK
    <3> QED  BY <1>4, <3>1, <3>2, <3>3, <3>4 DEF WorkerStep
  <2> QED  BY <2>1, <2>2
<1> QED  BY <1>2, <1>3, <1>4 DEF Next

LEMMA PromptHolds == Spec => []Prompted
BY PromptInit, PromptNext, PTL DEF Spec

\* When every observer is heard, a service that has been well for an attempt
\* that still failed, its report, a wait, an attempt and its report is called
\* healthy by all of them, and so by the reader.
THEOREM HealthIsAlwaysSeenPromptly == Spec => []HealthIsSeenPromptly
<1>1. ASSUME Prompted, well, steady > Interval + 2 * (Timeout + Delay),
             \A o \in Observer : phase[o] # "off" /\ IsHeard(o)
      PROVE  Answer = "healthy"
  <2>1. ASSUME NEW o \in Observer
        PROVE  slot[o].status = "healthy" /\ Current(o)
    <3>1. TypeOK /\ Prompt(o) /\ Fresh(o) /\ LateReport(o) /\ phase[o] # "off" /\ IsHeard(o)
      BY <1>1 DEF Prompted, Truthful, Earned, IInv, Late
    <3>2. /\ steady \in Nat /\ timer[o] \in Nat
          /\ wire[o].left \in 0 .. Delay /\ slot[o].age \in 0 .. Expired
          /\ phase[o] \in {"off", "waiting", "probing"}
          /\ wire[o].status \in {"healthy", "unhealthy", "unknown", "none"}
      BY <3>1, LateTypes DEF TypeOK, Observed, Verdict
    <3>3. wire[o].status \in {"unhealthy", "unknown"} => steady <= Timeout + Delay
      BY <1>1, <3>1, <3>2, Bounds DEF LateReport, Outdated, LastWrong
    <3>4. slot[o].status = "healthy"
      BY <1>1, <3>1, <3>2, <3>3, Bounds DEF Prompt
    <3>5. Current(o)
      BY <3>1, <3>2, <3>4, Bounds DEF Fresh, Gap, IsHeard, Current
    <3> QED  BY <3>4, <3>5
  <2>2. {slot[o].status : o \in {x \in Observer : Current(x)}} = {"healthy"}
    BY <2>1, ServiceProbeAssumption
  <2>3. {slot[o].status : o \in {x \in Observer : Current(x)}} \cap Verdict = {"healthy"}
    BY <2>2 DEF Verdict
  <2>4. "unhealthy" \notin {"healthy"} /\ (CHOOSE v \in {"healthy"} : TRUE) = "healthy"
    OBVIOUS
  <2> QED  BY <2>3, <2>4 DEF Answer, Reduce, Verdict
<1>2. Prompted => HealthIsSeenPromptly
  BY <1>1 DEF HealthIsSeenPromptly, IsHeard
<1> QED  BY <1>2, PromptHolds, PTL

(***************************************************************************)
(* An instance that runs vouches for its monitor, and what is proved of a  *)
(* watched service holds beside /health.                                   *)
(***************************************************************************)
\* What the argument needs of the state's types.
OwnTyped ==
  /\ phase \in [Observer -> {"off", "waiting", "probing"}]
  /\ timer \in [Observer -> 0 .. Interval]
  /\ own \in [Observer -> -1 .. Expired]

\* The age of an observer's own report and what is left of its worker's timer:
\* an interval in the wait, an interval and a timeout in the attempt.
OwnIsFed ==
  \A o \in Observer :
    /\ phase[o] = "off" => own[o] = -1
    /\ phase[o] = "waiting" => own[o] + timer[o] <= Interval \/ own[o] = -1
    /\ phase[o] = "probing" => own[o] + timer[o] <= Interval + Timeout \/ own[o] = -1

OInv == OwnTyped /\ OwnIsFed

LEMMA OwnInitially == InitInstances => OInv
BY ServiceProbeAssumption DEF InitInstances, Init, OInv, OwnTyped, OwnIsFed, Expired, FreshFor

\* An attempt begins where the wait is over.
LEMMA BeginFeeds ==
  ASSUME OInv, NEW o \in Observer, Begin(o), UNCHANGED own
  PROVE  OInv'
<1>1. OwnTyped'
  BY ServiceProbeAssumption DEF OInv, OwnTyped, Begin, Expired, FreshFor
<1>2. OwnIsFed'
  <2> SUFFICES ASSUME NEW x \in Observer
               PROVE  /\ phase'[x] = "off" => own'[x] = -1
                      /\ phase'[x] = "waiting" => own'[x] + timer'[x] <= Interval \/ own'[x] = -1
                      /\ phase'[x] = "probing" => own'[x] + timer'[x] <= Interval + Timeout \/ own'[x] = -1
    BY DEF OwnIsFed
  <2>1. CASE x = o
    BY <2>1, ServiceProbeAssumption DEF OInv, OwnTyped, OwnIsFed, Begin
  <2>2. CASE x # o
    BY <2>2, ServiceProbeAssumption DEF OInv, OwnTyped, OwnIsFed, Begin
  <2> QED
    BY <2>1, <2>2
<1> QED
  BY <1>1, <1>2 DEF OInv

\* The end of an attempt feeds the own view, whatever becomes of the report.
LEMMA EndFeeds ==
  ASSUME OInv, NEW o \in Observer, NEW answered \in BOOLEAN,
         EndAttempt(o, answered), OwnApplied(o)
  PROVE  OInv'
<1>1. OwnTyped'
  BY ServiceProbeAssumption DEF OInv, OwnTyped, EndAttempt, OwnApplied, Expired, FreshFor
<1>2. OwnIsFed'
  BY ServiceProbeAssumption DEF OInv, OwnTyped, OwnIsFed, EndAttempt, OwnApplied
<1> QED
  BY <1>1, <1>2 DEF OInv

\* While a unit of time passes every timer that runs loses one, so that the age
\* and the timer together do not grow.
LEMMA TickFeeds ==
  ASSUME OInv, Tick, Aged
  PROVE  OInv'
<1>1. OwnTyped'
  BY ServiceProbeAssumption DEF OInv, OwnTyped, Tick, MayTick, Aged, Older, Expired, FreshFor
<1>2. OwnIsFed'
  BY ServiceProbeAssumption DEF OInv, OwnTyped, OwnIsFed, Tick, MayTick, Aged, Older, Expired, FreshFor
<1> QED
  BY <1>1, <1>2 DEF OInv

\* Processes that start and end begin with a view that holds nothing of theirs.
LEMMA LifeFeeds ==
  ASSUME OInv, NEW o \in Observer,
         \/ Start(o) /\ UNCHANGED own
         \/ Leave(o) /\ own' = [own EXCEPT ![o] = -1]
  PROVE  OInv'
<1>1. CASE Start(o) /\ UNCHANGED own
  <2>1. own[o] = -1
    BY <1>1 DEF OInv, OwnIsFed, Start
  <2>2. Jitter[o] \in 0 .. Interval
    BY ServiceProbeAssumption
  <2>3. OwnTyped'
    BY <1>1, <2>2 DEF OInv, OwnTyped, Start
  <2>4. OwnIsFed'
    BY <1>1, <2>1 DEF OInv, OwnTyped, OwnIsFed, Start
  <2> QED
    BY <2>3, <2>4 DEF OInv
<1>2. CASE Leave(o) /\ own' = [own EXCEPT ![o] = -1]
  BY <1>2, ServiceProbeAssumption DEF OInv, OwnTyped, OwnIsFed, Leave, Gone, Expired, FreshFor
<1> QED
  BY <1>1, <1>2

LEMMA OwnNext == OInv /\ [NextInstances]_ivars => OInv'
<1> SUFFICES ASSUME OInv, [NextInstances]_ivars PROVE OInv'
  OBVIOUS
<1>1. CASE (Change \/ BreakDown) /\ UNCHANGED own
  BY <1>1 DEF OInv, OwnTyped, OwnIsFed, Change, BreakDown, worker
<1>2. ASSUME NEW o \in Observer, Deliver(o), UNCHANGED own PROVE OInv'
  BY <1>2 DEF OInv, OwnTyped, OwnIsFed, Deliver, worker
<1>3. CASE UNCHANGED ivars
  BY <1>3 DEF OInv, OwnTyped, OwnIsFed, ivars, vars, worker
<1> QED
  BY <1>1, <1>2, <1>3, BeginFeeds, EndFeeds, TickFeeds, LifeFeeds DEF NextInstances

LEMMA OwnHolds == SpecInstances => []OInv
BY OwnInitially, OwnNext, PTL DEF SpecInstances

\* An instance that runs vouches for its monitor: its own report is never older
\* than an interval and a timeout, which is a whole interval less than what
\* serviceMonitorStatus allows.
THEOREM MonitorAlwaysSpeaksForItself == SpecInstances => []MonitorSpeaksForItself
<1>1. OInv => MonitorSpeaksForItself
  BY ServiceProbeAssumption
  DEF OInv, OwnTyped, OwnIsFed, MonitorSpeaksForItself, MonitorStatus, FreshFor
<1> QED
  BY <1>1, OwnHolds, PTL

\* /health, the gate and the distribution are looked at and change nothing: a
\* step of the instances is a step of the watched service.
THEOREM InstancesWatchTheService == SpecInstances => Spec
<1>1. InitInstances => Init
  BY DEF InitInstances
<1>2. [NextInstances]_ivars => [Next]_vars
  BY DEF NextInstances, Next, WorkerStep, ivars
<1> QED
  BY <1>1, <1>2, PTL DEF SpecInstances, Spec

\* So what a reader is told of the service is as good beside /health: current,
\* earned, and in time.
THEOREM InstancesReportTruly ==
  SpecInstances => [](/\ FreshWhileHeard /\ UnhealthyIsEarned /\ RecoveryIsSeen
                      /\ OutageIsSeen /\ HealthIsSeenPromptly)
BY InstancesWatchTheService, StaysFresh, OutageIsEarned, RecoveryIsAlwaysSeen,
   OutageIsAlwaysSeen, HealthIsAlwaysSeenPromptly, PTL
=============================================================================
