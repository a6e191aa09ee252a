-------------------------- MODULE SiteHealthProofs --------------------------
(***************************************************************************)
(* The fence of the health view, proved for every number of instances,     *)
(* services, restarts, activations and reports: a report is identified by  *)
(* its observer, epoch and sequence, a slot keeps the latest report its    *)
(* view was offered, and so two instances that were offered the same       *)
(* reports hold the same.  And the publisher's ledger: every report is     *)
(* accounted for once, and what an instance finds out is news to it.       *)
(***************************************************************************)
EXTENDS SiteHealth, FiniteSetTheorems, TLAPS

\* What identifies a report in a set of them.
Unique(S) ==
  \A a, b \in S :
    a.observer = b.observer /\ a.epoch = b.epoch /\ a.sequence = b.sequence => a = b

\* At most one report for each slot.
OnePerSlot(V) == \A a, b \in V : SameSlot(a, b) => a = b

\* V is what is left of the reports H.
Newest(V, H) ==
  /\ V \subseteq H
  /\ \A r \in H : \E s \in V : SameSlot(s, r) /\ (s = r \/ Later(s, r))

LEMMA ReportDropped ==
  ASSUME NEW V, NEW r \in Report
  PROVE  DropReason(V, r) = "none" <=> \A s \in V : SameSlot(s, r) => Later(r, s)
BY DEF DropReason, Report, SameSlot

\* Apply keeps the newest report of each slot.
LEMMA ApplyKeepsNewest ==
  ASSUME NEW S \in SUBSET Report, Unique(S),
         NEW H \in SUBSET S, NEW V, OnePerSlot(V), Newest(V, H),
         NEW r \in S
  PROVE  OnePerSlot(Apply(V, r)) /\ Newest(Apply(V, r), H \cup {r})
<1> DEFINE W == Apply(V, r)
<1>0. r \in Report /\ V \subseteq S /\ S \subseteq Report
  BY DEF Newest
<1>1. CASE DropReason(V, r) = "none"
  <2>1. W = {s \in V : ~SameSlot(s, r)} \cup {r}
    BY <1>1 DEF Apply
  <2>2. \A s \in V : SameSlot(s, r) => Later(r, s)
    BY <1>0, <1>1, ReportDropped
  <2>3. OnePerSlot(W)
    BY <2>1 DEF OnePerSlot, SameSlot
  <2>4. W \subseteq H \cup {r}
    BY <2>1 DEF Newest
  <2>5. ASSUME NEW q \in H \cup {r}
        PROVE  \E s \in W : SameSlot(s, q) /\ (s = q \/ Later(s, q))
    <3>1. CASE q = r
      BY <3>1, <2>1 DEF SameSlot
    <3>2. CASE q \in H
      <4>1. PICK s \in V : SameSlot(s, q) /\ (s = q \/ Later(s, q))
        BY <3>2 DEF Newest
      <4>2. CASE ~SameSlot(s, r)
        BY <4>1, <4>2, <2>1
      <4>3. CASE SameSlot(s, r)
        <5>1. Later(r, s)
          BY <4>3, <2>2
        <5>2. q \in Report /\ s \in Report
          BY <3>2, <1>0
        <5>3. Later(r, q)
          BY <5>1, <5>2, <4>1, <1>0 DEF Later, Report
        <5>4. SameSlot(r, q)
          BY <4>1, <4>3 DEF SameSlot
        <5> QED  BY <5>3, <5>4, <2>1
      <4> QED  BY <4>2, <4>3
    <3> QED  BY <3>1, <3>2
  <2> QED  BY <2>3, <2>4, <2>5 DEF Newest
<1>2. CASE DropReason(V, r) # "none"
  <2>1. W = V
    BY <1>2 DEF Apply
  <2>2. PICK s \in V : SameSlot(s, r) /\ ~Later(r, s)
    BY <1>0, <1>2, ReportDropped
  <2>3. s \in Report /\ s \in S
    BY <1>0
  <2>4. s = r \/ Later(s, r)
    <3>1. CASE s.epoch = r.epoch /\ s.sequence = r.sequence
      BY <3>1, <2>2, <2>3 DEF Unique, SameSlot
    <3>2. CASE ~(s.epoch = r.epoch /\ s.sequence = r.sequence)
      BY <3>2, <2>2, <2>3, <1>0 DEF Later, Report
    <3> QED  BY <3>1, <3>2
  <2>5. Newest(W, H \cup {r})
    BY <2>1, <2>2, <2>4 DEF Newest
  <2> QED  BY <2>1, <2>5
<1> QED  BY <1>1, <1>2

\* What the view cannot place leaves it alone.
LEMMA MisplacedDropped ==
  ASSUME NEW V, NEW s \in Service, NEW o \in Observer, NEW r \in Misplaced(s, o)
  PROVE  Apply(V, r) = V
BY SiteHealthAssumption DEF Misplaced, Apply, DropReason, ObservedStatus

-----------------------------------------------------------------------------
(* The inductive invariant *)

\* Nothing was ever stated under an epoch beyond the one its instance captured
\* last, nor under that one beyond the running process's sequence.
Fence ==
  /\ \A i \in Observer : epoch[i] <= durable[i]
  /\ \A r \in stated :
       /\ r.epoch <= epoch[r.observer]
       /\ r.epoch = epoch[r.observer] /\ proc[r.observer] # "down"
            => r.sequence <= sequence[r.observer]
  /\ \A i \in Observer, s \in Service : worker[i][s] # "done" => proc[i] # "down"
  /\ Unique(stated)

\* Whatever is held or on its way somewhere was stated.
Carried ==
  /\ \A i \in Observer, s \in Service :
       worker[i][s] \in {"queued", "woken"} => stamped[i][s] \in stated
  /\ \A i \in Observer :
       pending[i] \cup batch[i] \cup wire[i] \cup heard[i] \subseteq stated

Slots == \A i \in Observer : OnePerSlot(view[i]) /\ Newest(view[i], heard[i])

FinitePending == \A i \in Observer : IsFiniteSet(pending[i])

IInv == TypeOK /\ FinitePending /\ Fence /\ Carried /\ Slots

LEMMA InitInv == Init => IInv
<1> SUFFICES ASSUME Init PROVE IInv
  OBVIOUS
<1>1. TypeOK
  BY DEF Init, TypeOK, NoReport, NoCounts
<1>2. FinitePending
  BY FS_EmptySet DEF Init, FinitePending
<1>3. Fence /\ Carried
  BY DEF Init, Fence, Carried, Unique
<1>4. Slots
  BY DEF Init, Slots, OnePerSlot, Newest
<1> QED  BY <1>1, <1>2, <1>3, <1>4 DEF IInv

\* A process begins or is gone.
LEMMA EmptiedInv ==
  ASSUME IInv, NEW i \in Observer, NEW w \in {"watching", "done"}, NEW s \in {"idle", "done"},
         Emptied(i, w, s), stated' = stated,
         durable' \in [Observer -> Nat], epoch' \in [Observer -> Nat],
         proc' \in [Observer -> {"down", "up", "stopping", "closing"}],
         w = "done" \/ proc'[i] # "down",
         \A j \in Observer \ {i} : proc'[j] = proc[j] /\ epoch'[j] = epoch[j] /\ durable'[j] = durable[j],
         epoch'[i] <= durable'[i],
         \/ epoch'[i] = durable[i] + 1
         \/ epoch'[i] = epoch[i] /\ proc'[i] = "down"
  PROVE  IInv'
<1>1. TypeOK'
  BY DEF IInv, TypeOK, Emptied, NoReport, NoCounts
<1>2. FinitePending'
  BY FS_EmptySet DEF IInv, FinitePending, Emptied, TypeOK
<1>3. Fence'
  <2>1. \A j \in Observer : epoch'[j] <= durable'[j]
    BY DEF IInv, Fence
  <2>2. ASSUME NEW r \in stated'
        PROVE  /\ r.epoch <= epoch'[r.observer]
               /\ r.epoch = epoch'[r.observer] /\ proc'[r.observer] # "down"
                    => r.sequence <= sequence'[r.observer]
    <3>1. r \in stated /\ r \in Report /\ r.observer \in Observer
      BY DEF IInv, TypeOK, Report
    <3>2. r.epoch \in Nat /\ r.epoch <= epoch[r.observer] /\ epoch[r.observer] <= durable[r.observer]
      BY <3>1 DEF IInv, Fence, Report
    <3>3. CASE r.observer # i
      BY <3>1, <3>2, <3>3 DEF IInv, Fence, TypeOK, Emptied
    <3>4. CASE r.observer = i
      BY <3>1, <3>2, <3>4 DEF IInv, TypeOK
    <3> QED  BY <3>3, <3>4
  <2>3. ASSUME NEW j \in Observer, NEW x \in Service, worker'[j][x] # "done"
        PROVE  proc'[j] # "down"
    BY <2>3 DEF IInv, TypeOK, Fence, Emptied
  <2>4. Unique(stated')
    BY DEF IInv, Fence
  <2> QED  BY <2>1, <2>2, <2>3, <2>4 DEF Fence, Unique
<1>4. Carried'
  BY DEF IInv, Carried, Emptied, TypeOK
<1>5. Slots'
  BY DEF IInv, Slots, OnePerSlot, Newest, Emptied, TypeOK
<1> QED  BY <1>1, <1>2, <1>3, <1>4, <1>5 DEF IInv

LEMMA ProcessInv ==
  ASSUME IInv, NEW i \in Observer,
         Start(i) \/ Activate(i) \/ Interrupt(i) \/ Crash(i) \/ StopStep(i)
  PROVE  IInv'
<1>1. CASE Start(i)
  <2>1. Emptied(i, "watching", "idle") /\ stated' = stated
    BY <1>1 DEF Start
  <2>2. /\ durable' \in [Observer -> Nat] /\ epoch' \in [Observer -> Nat]
        /\ proc' \in [Observer -> {"down", "up", "stopping", "closing"}]
        /\ proc'[i] # "down"
        /\ \A j \in Observer \ {i} : proc'[j] = proc[j] /\ epoch'[j] = epoch[j] /\ durable'[j] = durable[j]
        /\ epoch'[i] <= durable'[i] /\ epoch'[i] = durable[i] + 1
    BY <1>1 DEF IInv, TypeOK, Start, AdvanceEpoch
  <2> QED  BY <2>1, <2>2, EmptiedInv
<1>2. CASE Stopped(i) \/ Crash(i)
  <2>1. Emptied(i, "done", "done") /\ stated' = stated
    BY <1>2 DEF Stopped, Crash
  <2>2. /\ durable' = durable /\ epoch' = epoch
        /\ proc' \in [Observer -> {"down", "up", "stopping", "closing"}]
        /\ proc'[i] = "down"
        /\ \A j \in Observer \ {i} : proc'[j] = proc[j]
    BY <1>2 DEF IInv, TypeOK, Stopped, Crash
  <2>3. durable \in [Observer -> Nat] /\ epoch \in [Observer -> Nat] /\ epoch[i] <= durable[i]
    BY DEF IInv, TypeOK, Fence
  <2> QED  BY <2>1, <2>2, <2>3, EmptiedInv
<1>3. CASE Activate(i) \/ Interrupt(i) \/ MonitorStopped(i)
  <2>1. /\ UNCHANGED <<epoch, worker, stamped, publisher, view, seen, wire, stated, heard>>
        /\ durable' \in [Observer -> Nat]
        /\ \A j \in Observer : durable[j] <= durable'[j]
        /\ proc' \in [Observer -> {"down", "up", "stopping", "closing"}]
        /\ \A j \in Observer : proc'[j] = "down" <=> proc[j] = "down"
    <3>1. durable \in [Observer -> Nat] /\ proc \in [Observer -> {"down", "up", "stopping", "closing"}]
      BY DEF IInv, TypeOK
    <3>2. CASE Activate(i)
      BY <3>1, <3>2 DEF Activate, publisher
    <3>3. CASE Interrupt(i) \/ MonitorStopped(i)
      BY <3>1, <3>3 DEF Interrupt, MonitorStopped, publisher
    <3> QED  BY <1>3, <3>2, <3>3
  <2>2. TypeOK'
    BY <2>1 DEF IInv, TypeOK, publisher
  <2>3. FinitePending' /\ Carried' /\ Slots'
    BY <2>1 DEF IInv, FinitePending, Carried, Slots, publisher
  <2>4. Fence'
    BY <2>1 DEF IInv, Fence, TypeOK, Report, publisher
  <2> QED  BY <2>2, <2>3, <2>4 DEF IInv
<1> QED  BY <1>1, <1>2, <1>3 DEF StopStep

\* A worker that only moves on, within its running process.
LEMMA WorkerMoveInv ==
  ASSUME IInv, NEW i \in Observer, NEW s \in Service,
         NEW to \in {"watching", "reporting", "queued", "woken", "done"},
         to # "done" => proc[i] # "down",
         to \in {"queued", "woken"} => worker[i][s] \in {"queued", "woken"},
         worker' = [worker EXCEPT ![i][s] = to],
         wake' \in [Observer -> BOOLEAN],
         UNCHANGED <<durable, proc, epoch, stamped, sequence, pending, sender, batch, counts,
                     view, seen, wire, stated, heard>>
  PROVE  IInv'
<1>1. TypeOK'
  BY DEF IInv, TypeOK
<1>2. FinitePending' /\ Slots'
  BY DEF IInv, FinitePending, Slots
<1>3. Fence'
  BY DEF IInv, Fence, TypeOK
<1>4. Carried'
  BY DEF IInv, Carried, TypeOK
<1> QED  BY <1>1, <1>2, <1>3, <1>4 DEF IInv

\* Publish: the new report has a number of its own.
LEMMA PublishInv ==
  ASSUME IInv, NEW i \in Observer, NEW s \in Service, NEW status \in Outcomes,
         Publish(i, s, status)
  PROVE  IInv'
<1> DEFINE r == [service |-> s, observer |-> i, epoch |-> epoch[i],
                 sequence |-> sequence[i] + 1, status |-> status]
           replaced == {p \in pending[i] : p.service = s}
<1>1. /\ worker' = [worker EXCEPT ![i][s] = "queued"] /\ worker[i][s] = "reporting"
      /\ stamped' = [stamped EXCEPT ![i][s] = r]
      /\ sequence' = [sequence EXCEPT ![i] = @ + 1]
      /\ pending' = [pending EXCEPT ![i] = (@ \ replaced) \cup {r}]
      /\ counts' = [counts EXCEPT ![i].superseded = @ + Cardinality(replaced)]
      /\ stated' = stated \cup {r}
      /\ UNCHANGED <<durable, proc, epoch, wake, sender, batch, view, seen, wire, heard>>
  BY DEF Publish
<1>2. TypeOK
  BY DEF IInv
<1>3. r \in Report
  BY <1>2, SiteHealthAssumption DEF TypeOK, Report
<1>4. IsFiniteSet(replaced) /\ IsFiniteSet((pending[i] \ replaced) \cup {r})
  <2>1. IsFiniteSet(pending[i])
    BY DEF IInv, FinitePending
  <2> QED  BY <2>1, FS_Subset, FS_AddElement
<1>5. Cardinality(replaced) \in Nat
  BY <1>4, FS_CardinalityType
<1>6. TypeOK'
  <2>1. counts' \in [Observer -> [sent : Nat, superseded : Nat, failed : Nat]]
    <3>1. counts \in [Observer -> [sent : Nat, superseded : Nat, failed : Nat]]
      BY <1>2 DEF TypeOK
    <3>2. ASSUME NEW n \in Nat
          PROVE  [counts EXCEPT ![i].superseded = @ + n]
                   \in [Observer -> [sent : Nat, superseded : Nat, failed : Nat]]
      BY <3>1
    <3> QED  BY <3>2, <1>1, <1>5
  <2>2. pending' \in [Observer -> SUBSET Report] /\ stated' \in SUBSET Report
    BY <1>1, <1>2, <1>3 DEF TypeOK
  <2>3. /\ worker' \in [Observer -> [Service -> {"watching", "reporting", "queued", "woken", "done"}]]
        /\ stamped' \in [Observer -> [Service -> Report \cup {NoReport}]]
        /\ sequence' \in [Observer -> Nat]
    BY <1>1, <1>2, <1>3 DEF TypeOK
  <2> QED  BY <1>1, <1>2, <2>1, <2>2, <2>3 DEF TypeOK
<1>7. FinitePending'
  BY <1>1, <1>2, <1>4 DEF IInv, FinitePending, TypeOK
<1>8. Fence'
  <2>1. proc[i] # "down"
    BY <1>1 DEF IInv, Fence
  <2>2. \A j \in Observer : epoch'[j] <= durable'[j]
    BY <1>1 DEF IInv, Fence
  <2>3. ASSUME NEW q \in stated'
        PROVE  /\ q.epoch <= epoch'[q.observer]
               /\ q.epoch = epoch'[q.observer] /\ proc'[q.observer] # "down"
                    => q.sequence <= sequence'[q.observer]
    <3>1. CASE q = r
      BY <3>1, <1>1, <1>2 DEF TypeOK
    <3>2. CASE q \in stated
      BY <3>2, <1>1, <1>2 DEF IInv, Fence, TypeOK, Report
    <3> QED  BY <3>1, <3>2, <1>1
  <2>4. ASSUME NEW j \in Observer, NEW x \in Service, worker'[j][x] # "done"
        PROVE  proc'[j] # "down"
    BY <2>1, <2>4, <1>1, <1>2 DEF IInv, Fence, TypeOK
  <2>5. Unique(stated')
    <3>1. ASSUME NEW q \in stated, q.observer = i, q.epoch = epoch[i]
          PROVE  q.sequence # r.sequence
      BY <3>1, <2>1, <1>2 DEF IInv, Fence, TypeOK, Report
    <3> QED  BY <3>1, <1>1 DEF IInv, Fence, Unique
  <2> QED  BY <2>2, <2>3, <2>4, <2>5 DEF Fence
<1>9. Carried'
  BY <1>1, <1>2 DEF IInv, Carried, TypeOK
<1>10. Slots'
  BY <1>1 DEF IInv, Slots
<1> QED  BY <1>6, <1>7, <1>8, <1>9, <1>10 DEF IInv

\* A stated report is offered to a view.
LEMMA OfferKeeps ==
  ASSUME IInv, NEW i \in Observer, NEW r \in stated, Offer(i, r),
         heard' = [heard EXCEPT ![i] = @ \cup {r}], stated' = stated
  PROVE  /\ view' \in [Observer -> SUBSET Report]
         /\ seen' \in [Observer -> SUBSET Reasons]
         /\ heard' \in [Observer -> SUBSET Report]
         /\ \A j \in Observer : heard'[j] \subseteq stated
         /\ Slots'
<1>1. TypeOK /\ r \in Report /\ stated \in SUBSET Report
  BY DEF IInv, TypeOK
<1>2. \A j \in Observer : heard[j] \subseteq stated
  BY DEF IInv, Carried
<1>3. OnePerSlot(Apply(view[i], r)) /\ Newest(Apply(view[i], r), heard[i] \cup {r})
  <2>1. Unique(stated) /\ OnePerSlot(view[i]) /\ Newest(view[i], heard[i])
    BY DEF IInv, Fence, Slots
  <2> QED  BY <1>1, <1>2, <2>1, ApplyKeepsNewest
<1>4. Apply(view[i], r) \subseteq view[i] \cup {r}
  BY DEF Apply
<1>5. DropReason(view[i], r) \in Reasons \cup {"none"}
  BY DEF DropReason, Reasons
<1>6. view' \in [Observer -> SUBSET Report]
  BY <1>1, <1>4 DEF TypeOK, Offer
<1>7. seen' \in [Observer -> SUBSET Reasons]
  BY <1>1, <1>5 DEF TypeOK, Offer
<1>8. heard' \in [Observer -> SUBSET Report] /\ \A j \in Observer : heard'[j] \subseteq stated
  BY <1>1, <1>2 DEF TypeOK
<1>9. ASSUME NEW j \in Observer PROVE OnePerSlot(view'[j]) /\ Newest(view'[j], heard'[j])
  <2>1. CASE j = i
    BY <2>1, <1>1, <1>3 DEF TypeOK, Offer
  <2>2. CASE j # i
    BY <2>2, <1>1 DEF TypeOK, Offer, IInv, Slots
  <2> QED  BY <2>1, <2>2
<1> QED  BY <1>6, <1>7, <1>8, <1>9 DEF Slots

\* The steps of a worker.
LEMMA WorkerInv ==
  ASSUME IInv, NEW i \in Observer, NEW s \in Service, WorkerStep(i, s)
  PROVE  IInv'
<1>1. TypeOK
  BY DEF IInv
<1>2. CASE EndAttempt(i, s)
  BY <1>1, <1>2, WorkerMoveInv DEF EndAttempt, publisher, TypeOK
<1>3. CASE Cancelled(i, s)
  BY <1>1, <1>3, WorkerMoveInv DEF Cancelled, publisher, TypeOK
<1>4. CASE Wake(i, s)
  <2>1. proc[i] # "down"
    BY <1>4 DEF Wake, IInv, Fence
  <2> QED  BY <1>1, <1>4, <2>1, WorkerMoveInv DEF Wake, TypeOK
<1>5. CASE \E status \in Outcomes : Publish(i, s, status)
  BY <1>5, PublishInv
<1>6. CASE ApplyOwn(i, s)
  <2> DEFINE r == stamped[i][s]
  <2>1. /\ worker' = [worker EXCEPT ![i][s] = "watching"] /\ worker[i][s] = "woken"
        /\ stamped' = [stamped EXCEPT ![i][s] = NoReport]
        /\ Offer(i, r)
        /\ heard' = [heard EXCEPT ![i] = @ \cup {r}]
        /\ UNCHANGED <<durable, proc, epoch, sequence, pending, wake, sender, batch, counts, wire, stated>>
    BY <1>6 DEF ApplyOwn, publisher
  <2>2. r \in stated
    BY <2>1 DEF IInv, Carried
  <2>3. /\ view' \in [Observer -> SUBSET Report]
        /\ seen' \in [Observer -> SUBSET Reasons]
        /\ heard' \in [Observer -> SUBSET Report]
        /\ \A j \in Observer : heard'[j] \subseteq stated
        /\ Slots'
    BY <2>1, <2>2, OfferKeeps
  <2>4. proc[i] # "down"
    BY <2>1 DEF IInv, Fence
  <2>5. TypeOK'
    BY <1>1, <2>1, <2>3 DEF TypeOK
  <2>6. FinitePending'
    BY <2>1 DEF IInv, FinitePending
  <2>7. Fence'
    BY <1>1, <2>1, <2>4 DEF IInv, Fence, TypeOK
  <2>8. Carried'
    BY <1>1, <2>1, <2>3 DEF IInv, Carried, TypeOK
  <2> QED  BY <2>3, <2>5, <2>6, <2>7, <2>8 DEF IInv
<1> QED  BY <1>2, <1>3, <1>4, <1>5, <1>6 DEF WorkerStep

\* The steps of the sender.
LEMMA SenderInv ==
  ASSUME IInv, NEW i \in Observer, SenderStep(i)
  PROVE  IInv'
<1>1. TypeOK
  BY DEF IInv
<1>2. /\ UNCHANGED <<durable, proc, epoch, worker, stamped, sequence, view, seen, stated, heard>>
      /\ wake' \in [Observer -> BOOLEAN]
      /\ sender' \in [Observer -> {"idle", "woken", "sending", "done"}]
      /\ pending' \in [Observer -> SUBSET Report]
      /\ batch' \in [Observer -> SUBSET Report]
      /\ wire' \in [Observer -> SUBSET Report]
      /\ counts' \in [Observer -> [sent : Nat, superseded : Nat, failed : Nat]]
      /\ \A j \in Observer : /\ pending'[j] \subseteq pending[j]
                             /\ batch'[j] \subseteq batch[j] \cup pending[j]
                             /\ wire'[j] \subseteq wire[j] \cup batch[i]
  <2>1. CASE SenderWakes(i)
    BY <1>1, <2>1 DEF TypeOK, SenderWakes
  <2>2. CASE TakeBatch(i)
    BY <1>1, <2>2 DEF TypeOK, TakeBatch
  <2>3. CASE \E r \in batch[i] : Send(i, r) \/ SendFails(i, r)
    <3>1. PICK r \in batch[i] : Send(i, r) \/ SendFails(i, r)
      BY <2>3
    <3>2. counts' \in [Observer -> [sent : Nat, superseded : Nat, failed : Nat]]
      <4>1. counts \in [Observer -> [sent : Nat, superseded : Nat, failed : Nat]]
        BY <1>1 DEF TypeOK
      <4>2. \/ counts' = [counts EXCEPT ![i].sent = @ + 1]
            \/ counts' = [counts EXCEPT ![i].failed = @ + 1]
        BY <3>1 DEF Send, SendFails
      <4> QED  BY <4>1, <4>2
    <3>3. batch' = [batch EXCEPT ![i] = @ \ {r}] /\ r \in Report
      BY <1>1, <3>1 DEF Send, SendFails, TypeOK
    <3>4. /\ wire' \in [Observer -> SUBSET Report]
          /\ \A j \in Observer : wire'[j] \subseteq wire[j] \cup batch[i]
      <4>1. CASE Send(i, r)
        BY <1>1, <3>3, <4>1 DEF TypeOK, Send
      <4>2. CASE SendFails(i, r)
        BY <1>1, <4>2 DEF TypeOK, SendFails
      <4> QED  BY <3>1, <4>1, <4>2
    <3>5. UNCHANGED <<durable, proc, epoch, worker, stamped, sequence, pending, wake, sender,
                      view, seen, stated, heard>>
      BY <3>1 DEF Send, SendFails
    <3> QED  BY <1>1, <3>2, <3>3, <3>4, <3>5 DEF TypeOK
  <2>4. CASE Drained(i) \/ SenderEnds(i)
    BY <1>1, <2>4 DEF TypeOK, Drained, SenderEnds
  <2> QED  BY <2>1, <2>2, <2>3, <2>4 DEF SenderStep
<1>3. TypeOK'
  BY <1>1, <1>2 DEF TypeOK
<1>4. FinitePending'
  BY <1>2, FS_Subset DEF IInv, FinitePending
<1>5. Fence' /\ Slots'
  BY <1>2 DEF IInv, Fence, Slots
<1>6. Carried'
  BY <1>2 DEF IInv, Carried
<1> QED  BY <1>3, <1>4, <1>5, <1>6 DEF IInv

\* What arrives on the subject.
LEMMA ReceiverInv ==
  ASSUME IInv, NEW i \in Observer,
         (\E r \in wire[i] : Deliver(i, r)) \/ Reject(i) \/ Stray(i)
  PROVE  IInv'
<1>1. TypeOK
  BY DEF IInv
<1>2. CASE \E r \in wire[i] : Deliver(i, r)
  <2>1. PICK r \in wire[i] : Deliver(i, r)
    BY <1>2
  <2>2. /\ Offer(i, r)
        /\ heard' = [heard EXCEPT ![i] = @ \cup {r}]
        /\ wire' = wire \/ wire' = [wire EXCEPT ![i] = @ \ {r}]
        /\ UNCHANGED <<durable, proc, epoch, worker, stamped, sequence, pending, wake, sender,
                       batch, counts, stated>>
    BY <2>1 DEF Deliver, publisher
  <2>3. r \in stated
    BY DEF IInv, Carried
  <2>4. /\ view' \in [Observer -> SUBSET Report]
        /\ seen' \in [Observer -> SUBSET Reasons]
        /\ heard' \in [Observer -> SUBSET Report]
        /\ \A j \in Observer : heard'[j] \subseteq stated
        /\ Slots'
    BY <2>2, <2>3, OfferKeeps
  <2>5. /\ wire' \in [Observer -> SUBSET Report]
        /\ \A j \in Observer : wire'[j] \subseteq wire[j]
    <3>1. wire \in [Observer -> SUBSET Report]
      BY <1>1 DEF TypeOK
    <3>2. CASE wire' = wire
      BY <3>1, <3>2
    <3>3. CASE wire' = [wire EXCEPT ![i] = @ \ {r}]
      BY <3>1, <3>3
    <3> QED  BY <2>2, <3>2, <3>3
  <2>6. TypeOK'
    BY <1>1, <2>2, <2>4, <2>5 DEF TypeOK
  <2>7. FinitePending' /\ Fence'
    BY <2>2 DEF IInv, FinitePending, Fence
  <2>8. Carried'
    BY <2>2, <2>4, <2>5 DEF IInv, Carried
  <2> QED  BY <2>4, <2>6, <2>7, <2>8 DEF IInv
<1>3. CASE Reject(i) \/ Stray(i)
  <2>1. seen' \in [Observer -> SUBSET Reasons]
    <3>1. CASE Reject(i)
      BY <1>1, <3>1 DEF TypeOK, Reject, Reasons
    <3>2. CASE Stray(i)
      <4>1. PICK r : Offer(i, r)
        BY <3>2 DEF Stray
      <4>2. DropReason(view[i], r) \in Reasons \cup {"none"}
        BY DEF DropReason, Reasons
      <4> QED  BY <1>1, <4>1, <4>2 DEF TypeOK, Offer
    <3> QED  BY <1>3, <3>1, <3>2
  <2>2. view' = view
    <3>1. CASE Reject(i)
      BY <3>1 DEF Reject
    <3>2. CASE Stray(i)
      <4>1. PICK s \in Service, o \in Observer : \E q \in Misplaced(s, o) : Offer(i, q)
        BY <3>2 DEF Stray
      <4> PICK r \in Misplaced(s, o) : Offer(i, r)
        BY <4>1
      <4>2. Apply(view[i], r) = view[i]
        BY MisplacedDropped
      <4> QED  BY <1>1, <4>2 DEF TypeOK, Offer
    <3> QED  BY <1>3, <3>1, <3>2
  <2>3. UNCHANGED <<durable, proc, epoch, worker, stamped, sequence, pending, wake, sender,
                    batch, counts, wire, stated, heard>>
    BY <1>3 DEF Reject, Stray, publisher
  <2>4. TypeOK'
    BY <1>1, <2>1, <2>2, <2>3 DEF TypeOK
  <2>5. FinitePending' /\ Fence' /\ Carried' /\ Slots'
    BY <2>2, <2>3 DEF IInv, FinitePending, Fence, Carried, Slots
  <2> QED  BY <2>4, <2>5 DEF IInv
<1> QED  BY <1>2, <1>3

LEMMA StepInv == IInv /\ [Next]_vars => IInv'
<1> SUFFICES ASSUME IInv, [Next]_vars PROVE IInv'
  OBVIOUS
<1>1. CASE UNCHANGED vars
  BY <1>1 DEF IInv, TypeOK, FinitePending, Fence, Carried, Slots, vars, publisher
<1>2. CASE Next
  <2>1. PICK i \in Observer :
          \/ Start(i) \/ Activate(i) \/ Interrupt(i) \/ Crash(i)
          \/ \E s \in Service : WorkerStep(i, s)
          \/ SenderStep(i)
          \/ StopStep(i)
          \/ \E r \in wire[i] : Deliver(i, r)
          \/ Reject(i) \/ Stray(i)
    BY <1>2 DEF Next
  <2>2. CASE Start(i) \/ Activate(i) \/ Interrupt(i) \/ Crash(i) \/ StopStep(i)
    BY <2>2, ProcessInv
  <2>3. CASE \E s \in Service : WorkerStep(i, s)
    BY <2>3, WorkerInv
  <2>4. CASE SenderStep(i)
    BY <2>4, SenderInv
  <2>5. CASE (\E r \in wire[i] : Deliver(i, r)) \/ Reject(i) \/ Stray(i)
    BY <2>5, ReceiverInv
  <2> QED  BY <2>1, <2>2, <2>3, <2>4, <2>5
<1> QED  BY <1>1, <1>2

\* The inductive invariant holds in every reachable state.
THEOREM InvHolds == Spec => []IInv
BY InitInv, StepInv, PTL DEF Spec

-----------------------------------------------------------------------------
(* What follows *)

\* The service-health state is always well formed; in particular no view ever
\* holds a report that is not one of this site's.
THEOREM TypeCorrect == Spec => []TypeOK
<1>1. IInv => TypeOK
  BY DEF IInv
<1> QED  BY <1>1, InvHolds, PTL

\* The durable epoch, captured once, and the sequence identify a report across
\* any number of restarts and activations.
THEOREM Identified == Spec => []ReportsAreUnique
<1>1. IInv => ReportsAreUnique
  BY DEF IInv, Fence, Unique, ReportsAreUnique
<1> QED  BY <1>1, InvHolds, PTL

\* Whatever is lost, late or repeated, a slot holds the latest report its view
\* was offered.
THEOREM NewestWins == Spec => []NewestReportWins
<1>1. IInv => NewestReportWins
  BY DEF IInv, Slots, Newest, NewestReportWins
<1> QED  BY <1>1, InvHolds, PTL

\* Views that were offered the same reports, in any orders, are the same.
THEOREM Converges == Spec => []SameReportsSameView
<1>1. ASSUME IInv, NEW i \in Observer, NEW j \in Observer, heard[i] = heard[j]
      PROVE  view[i] \subseteq view[j]
  <2>1. SUFFICES ASSUME NEW a \in view[i] PROVE a \in view[j]
    OBVIOUS
  <2>2. a \in heard[j] /\ view[i] \subseteq heard[i] /\ view[j] \subseteq heard[j]
    BY <1>1 DEF IInv, Slots, Newest
  <2>3. PICK b \in view[j] : SameSlot(b, a) /\ (b = a \/ Later(b, a))
    BY <1>1, <2>2 DEF IInv, Slots, Newest
  <2>4. PICK c \in view[i] : SameSlot(c, b) /\ (c = b \/ Later(c, b))
    BY <1>1, <2>2 DEF IInv, Slots, Newest
  <2>5. c = a
    BY <1>1, <2>3, <2>4 DEF IInv, Slots, OnePerSlot, SameSlot
  <2>6. a \in Report /\ b \in Report
    BY <1>1 DEF IInv, TypeOK
  <2>7. ~(Later(b, a) /\ Later(a, b))
    BY <2>6 DEF Later, Report
  <2> QED  BY <2>3, <2>4, <2>5, <2>7
<1>2. IInv => SameReportsSameView
  BY <1>1 DEF SameReportsSameView
<1> QED  BY <1>2, InvHolds, PTL

\* Only what instances of this site stated is in a view.
THEOREM OnlyStated == Spec => []OnlyStatedReports
<1>1. IInv => OnlyStatedReports
  BY DEF IInv, Carried, Slots, Newest, OnlyStatedReports
<1> QED  BY <1>1, InvHolds, PTL

-----------------------------------------------------------------------------
(* What becomes of a report, and what an instance finds out itself *)

\* The batch is what the sender is sending, and every number that was given out
\* is in one of the counts, waits, or is in the batch.
Ledger ==
  \A i \in Observer :
    /\ IsFiniteSet(batch[i])
    /\ sender[i] # "sending" => batch[i] = {}
    /\ sequence[i] = counts[i].sent + counts[i].superseded + counts[i].failed
                      + Cardinality(pending[i]) + Cardinality(batch[i])

\* An instance publishes its own reports, each worker those about its service,
\* and never hears them.
OwnReports ==
  \A i \in Observer :
    /\ \A p \in pending[i] \cup batch[i] : p.observer = i
    /\ \A r \in wire[i] : r.observer # i
    /\ \A s \in Service : worker[i][s] \in {"queued", "woken"} =>
         stamped[i][s].observer = i /\ stamped[i][s].service = s

\* Nothing later was stated about a service than what waits about it.
Latest ==
  \A i \in Observer : \A p \in pending[i], r \in stated : SameSlot(r, p) => ~Later(r, p)

\* A report that its worker is about to apply is later than all its view was
\* offered for its slot.
News ==
  \A i \in Observer, s \in Service : worker[i][s] \in {"queued", "woken"} =>
    \A h \in heard[i] : SameSlot(h, stamped[i][s]) => Later(stamped[i][s], h)

\* The workers have ended when the sender is told to, and until there is one.
WorkersFirst ==
  \A i \in Observer :
    sender[i] = "done" \/ proc[i] = "closing" => \A s \in Service : worker[i][s] = "done"

Accounted == Ledger /\ OwnReports /\ Latest /\ News /\ WorkersFirst

LEMMA AccountedInit == Init => Accounted
<1> SUFFICES ASSUME Init PROVE Accounted
  OBVIOUS
<1>1. Ledger
  BY FS_EmptySet DEF Init, Ledger, NoCounts
<1>2. OwnReports /\ Latest /\ News /\ WorkersFirst
  BY DEF Init, OwnReports, Latest, News, WorkersFirst
<1> QED  BY <1>1, <1>2 DEF Accounted

\* A process begins or is gone, with nothing to account for.
LEMMA EmptiedAccounted ==
  ASSUME TypeOK, Accounted, NEW i \in Observer, NEW w \in {"watching", "done"},
         NEW s \in {"idle", "done"}, Emptied(i, w, s), stated' = stated,
         w = "done" \/ (s # "done" /\ proc'[i] # "closing"),
         \A j \in Observer \ {i} : proc'[j] = proc[j]
  PROVE  Accounted'
<1>1. Ledger'
  <2> SUFFICES ASSUME NEW j \in Observer
               PROVE  /\ IsFiniteSet(batch'[j])
                      /\ sender'[j] # "sending" => batch'[j] = {}
                      /\ sequence'[j] = counts'[j].sent + counts'[j].superseded + counts'[j].failed
                                         + Cardinality(pending'[j]) + Cardinality(batch'[j])
    BY DEF Ledger
  <2>1. CASE j = i
    <3>1. /\ sequence'[j] = 0 /\ pending'[j] = {} /\ batch'[j] = {} /\ counts'[j] = NoCounts
      BY <2>1 DEF TypeOK, Emptied
    <3> QED  BY <3>1, FS_EmptySet DEF NoCounts
  <2>2. CASE j # i
    BY <2>2 DEF TypeOK, Emptied, Accounted, Ledger
  <2> QED  BY <2>1, <2>2
<1>2. OwnReports'
  BY DEF TypeOK, Emptied, Accounted, OwnReports
<1>3. Latest'
  BY DEF TypeOK, Emptied, Accounted, Latest
<1>4. News'
  BY DEF TypeOK, Emptied, Accounted, News
<1>5. WorkersFirst'
  BY DEF TypeOK, Emptied, Accounted, WorkersFirst
<1> QED  BY <1>1, <1>2, <1>3, <1>4, <1>5 DEF Accounted

LEMMA ProcessAccounted ==
  ASSUME TypeOK, Accounted, NEW i \in Observer,
         Start(i) \/ Activate(i) \/ Interrupt(i) \/ Crash(i) \/ StopStep(i)
  PROVE  Accounted'
<1>1. CASE Start(i)
  <2>1. /\ Emptied(i, "watching", "idle") /\ stated' = stated
        /\ proc'[i] = "up" /\ \A j \in Observer \ {i} : proc'[j] = proc[j]
    BY <1>1 DEF TypeOK, Start
  <2> QED  BY <2>1, EmptiedAccounted
<1>2. CASE Stopped(i) \/ Crash(i)
  <2>1. /\ Emptied(i, "done", "done") /\ stated' = stated
        /\ \A j \in Observer \ {i} : proc'[j] = proc[j]
    BY <1>2 DEF TypeOK, Stopped, Crash
  <2> QED  BY <2>1, EmptiedAccounted
<1>3. CASE Activate(i) \/ Interrupt(i) \/ MonitorStopped(i)
  <2>1. UNCHANGED <<worker, stamped, sequence, pending, sender, batch, counts, wire, stated, heard>>
    BY <1>3 DEF Activate, Interrupt, MonitorStopped, publisher
  <2>2. \A j \in Observer :
          proc'[j] = "closing" => proc[j] = "closing" \/ \A s \in Service : worker[j][s] = "done"
    BY <1>3 DEF TypeOK, Activate, Interrupt, MonitorStopped
  <2>3. Ledger' /\ OwnReports' /\ Latest' /\ News'
    BY <2>1 DEF Accounted, Ledger, OwnReports, Latest, News
  <2>4. WorkersFirst'
    BY <2>1, <2>2 DEF Accounted, WorkersFirst
  <2> QED  BY <2>3, <2>4 DEF Accounted
<1> QED  BY <1>1, <1>2, <1>3 DEF StopStep

\* A worker that only moves on.
LEMMA WorkerMoveAccounted ==
  ASSUME TypeOK, Accounted, NEW i \in Observer, NEW s \in Service,
         NEW to \in {"reporting", "woken", "done"},
         to # "done" => proc[i] # "closing" /\ sender[i] # "done",
         to = "woken" => worker[i][s] = "queued",
         worker' = [worker EXCEPT ![i][s] = to],
         UNCHANGED <<proc, stamped, sequence, pending, sender, batch, counts, wire, stated, heard>>
  PROVE  Accounted'
<1>1. Ledger' /\ Latest'
  BY DEF Accounted, Ledger, Latest
<1>2. OwnReports'
  BY DEF TypeOK, Accounted, OwnReports
<1>3. News'
  BY DEF TypeOK, Accounted, News
<1>4. WorkersFirst'
  BY DEF TypeOK, Accounted, WorkersFirst
<1> QED  BY <1>1, <1>2, <1>3, <1>4 DEF Accounted

\* Publish: the new report takes the place of the one that waited, and is later
\* than anything stated of its slot.
LEMMA PublishAccounted ==
  ASSUME IInv, Accounted, NEW i \in Observer, NEW s \in Service, NEW status \in Outcomes,
         Publish(i, s, status)
  PROVE  Accounted'
<1> DEFINE r == [service |-> s, observer |-> i, epoch |-> epoch[i],
                 sequence |-> sequence[i] + 1, status |-> status]
           replaced == {p \in pending[i] : p.service = s}
           waiting == (pending[i] \ replaced) \cup {r}
<1>1. /\ worker' = [worker EXCEPT ![i][s] = "queued"] /\ worker[i][s] = "reporting"
      /\ stamped' = [stamped EXCEPT ![i][s] = r]
      /\ sequence' = [sequence EXCEPT ![i] = @ + 1]
      /\ pending' = [pending EXCEPT ![i] = waiting]
      /\ counts' = [counts EXCEPT ![i].superseded = @ + Cardinality(replaced)]
      /\ stated' = stated \cup {r}
      /\ UNCHANGED <<proc, sender, batch, wire, heard>>
  BY DEF Publish
<1>2. TypeOK /\ proc[i] # "down"
  BY <1>1 DEF IInv, Fence
<1>3. ASSUME NEW q \in stated, q.observer = i
      PROVE  Later(r, q) /\ ~Later(q, r) /\ q # r
  <2>1. q \in Report /\ epoch[i] \in Nat /\ sequence[i] \in Nat
    BY <1>2 DEF TypeOK
  <2>2. q.epoch \in Nat /\ q.sequence \in Nat
    BY <2>1 DEF Report
  <2>3. q.epoch <= epoch[i] /\ (q.epoch = epoch[i] => q.sequence <= sequence[i])
    BY <1>2, <1>3 DEF IInv, Fence
  <2>4. r.epoch = epoch[i] /\ r.sequence = sequence[i] + 1
    OBVIOUS
  <2>5. Later(r, q) /\ ~Later(q, r)
    <3> HIDE DEF r
    <3> QED  BY <2>1, <2>2, <2>3, <2>4 DEF Later
  <2>6. q # r
    <3> HIDE DEF r
    <3> QED  BY <2>5
  <2> QED  BY <2>5, <2>6
<1>4. \A q \in stated : SameSlot(q, r) => Later(r, q) /\ ~Later(q, r)
  BY <1>3 DEF SameSlot
<1>5. ASSUME NEW j \in Observer
      PROVE  /\ IsFiniteSet(batch'[j])
             /\ sender'[j] # "sending" => batch'[j] = {}
             /\ sequence'[j] = counts'[j].sent + counts'[j].superseded + counts'[j].failed
                                + Cardinality(pending'[j]) + Cardinality(batch'[j])
  <2>1. CASE j # i
    BY <1>1, <1>2, <2>1 DEF TypeOK, Accounted, Ledger
  <2>2. CASE j = i
    <3>1. IsFiniteSet(pending[i]) /\ IsFiniteSet(replaced) /\ IsFiniteSet(pending[i] \ replaced)
      BY FS_Subset DEF IInv, FinitePending
    <3>2. r \notin pending[i] \ replaced
      BY <1>3 DEF IInv, Carried
    <3>3. Cardinality(waiting) = Cardinality(pending[i] \ replaced) + 1
      BY <3>1, <3>2, FS_AddElement
    <3>4. Cardinality(pending[i] \ replaced) = Cardinality(pending[i]) - Cardinality(replaced)
      <4>1. pending[i] \cap replaced = replaced
        OBVIOUS
      <4> QED  BY <3>1, <4>1, FS_Difference
    <3>5. /\ Cardinality(pending[i]) \in Nat /\ Cardinality(replaced) \in Nat
          /\ Cardinality(batch[i]) \in Nat /\ IsFiniteSet(batch[i])
      BY <3>1, FS_CardinalityType DEF Accounted, Ledger
    <3>6. /\ counts'[i].sent = counts[i].sent /\ counts'[i].failed = counts[i].failed
          /\ counts'[i].superseded = counts[i].superseded + Cardinality(replaced)
          /\ counts[i].sent \in Nat /\ counts[i].superseded \in Nat /\ counts[i].failed \in Nat
      BY <1>1, <1>2 DEF TypeOK
    <3>7. /\ sequence'[i] = sequence[i] + 1 /\ sequence[i] \in Nat
          /\ pending'[i] = waiting /\ batch'[i] = batch[i] /\ sender'[i] = sender[i]
      BY <1>1, <1>2 DEF TypeOK
    <3> HIDE DEF waiting, replaced
    <3>8. sequence[i] = counts[i].sent + counts[i].superseded + counts[i].failed
                        + Cardinality(pending[i]) + Cardinality(batch[i])
      BY DEF Accounted, Ledger
    <3>9. sequence'[i] = counts'[i].sent + counts'[i].superseded + counts'[i].failed
                         + Cardinality(pending'[i]) + Cardinality(batch'[i])
      BY <3>3, <3>4, <3>5, <3>6, <3>7, <3>8
    <3> QED  BY <2>2, <3>5, <3>7, <3>9 DEF Accounted, Ledger
  <2> QED  BY <2>1, <2>2
<1>6. OwnReports'
  BY <1>1, <1>2 DEF TypeOK, Accounted, OwnReports
<1>7. Latest'
  <2> SUFFICES ASSUME NEW j \in Observer, NEW p \in pending'[j], NEW q \in stated',
                      SameSlot(q, p)
               PROVE  ~Later(q, p)
    BY DEF Latest
  <2>1. CASE p \in pending[j] /\ q \in stated
    BY <2>1 DEF Accounted, Latest
  <2>2. CASE j = i /\ p = r
    <3>1. ~Later(r, r)
      BY <1>2 DEF Later, TypeOK
    <3> QED  BY <1>1, <1>4, <2>2, <3>1
  <2>3. CASE p \in pending[j] /\ q = r /\ ~(j = i /\ p = r)
    <3>1. p.observer = j
      BY <2>3 DEF Accounted, OwnReports
    <3>2. j = i /\ p.service = s
      BY <2>3, <3>1 DEF SameSlot
    <3> QED  BY <1>1, <1>2, <2>3, <3>2 DEF TypeOK
  <2> QED  BY <1>1, <1>2, <2>1, <2>2, <2>3 DEF TypeOK
<1>8. News'
  <2> SUFFICES ASSUME NEW j \in Observer, NEW x \in Service,
                      worker'[j][x] \in {"queued", "woken"},
                      NEW h \in heard[j], SameSlot(h, stamped'[j][x])
               PROVE  Later(stamped'[j][x], h)
    BY <1>1 DEF News
  <2>1. CASE j = i /\ x = s
    <3>1. stamped'[j][x] = r /\ h \in stated
      BY <1>1, <1>2, <2>1 DEF TypeOK, IInv, Carried
    <3> QED  BY <1>4, <3>1
  <2>2. CASE ~(j = i /\ x = s)
    <3>1. worker'[j][x] = worker[j][x] /\ stamped'[j][x] = stamped[j][x]
      BY <1>1, <1>2, <2>2 DEF TypeOK
    <3> QED  BY <3>1 DEF Accounted, News
  <2> QED  BY <2>1, <2>2
<1>9. WorkersFirst'
  <2>1. sender[i] # "done" /\ proc[i] # "closing"
    BY <1>1 DEF Accounted, WorkersFirst
  <2> QED  BY <1>1, <1>2, <2>1 DEF TypeOK, Accounted, WorkersFirst
<1> QED  BY <1>5, <1>6, <1>7, <1>8, <1>9 DEF Accounted, Ledger

LEMMA WorkerAccounted ==
  ASSUME IInv, Accounted, NEW i \in Observer, NEW s \in Service, WorkerStep(i, s)
  PROVE  Accounted'
<1>1. TypeOK
  BY DEF IInv
<1>2. worker[i][s] # "done" => sender[i] # "done" /\ proc[i] # "closing"
  BY DEF Accounted, WorkersFirst
<1>3. CASE EndAttempt(i, s)
  BY <1>1, <1>2, <1>3, WorkerMoveAccounted DEF EndAttempt, publisher
<1>4. CASE Cancelled(i, s)
  BY <1>1, <1>4, WorkerMoveAccounted DEF Cancelled, publisher
<1>5. CASE Wake(i, s)
  BY <1>1, <1>2, <1>5, WorkerMoveAccounted DEF Wake
<1>6. CASE \E status \in Outcomes : Publish(i, s, status)
  BY <1>6, PublishAccounted
<1>7. CASE ApplyOwn(i, s)
  <2>1. /\ worker' = [worker EXCEPT ![i][s] = "watching"] /\ worker[i][s] = "woken"
        /\ stamped' = [stamped EXCEPT ![i][s] = NoReport]
        /\ heard' = [heard EXCEPT ![i] = @ \cup {stamped[i][s]}]
        /\ UNCHANGED <<proc, sequence, pending, sender, batch, counts, wire, stated>>
    BY <1>7 DEF ApplyOwn, publisher
  <2>2. Ledger' /\ Latest'
    BY <2>1 DEF Accounted, Ledger, Latest
  <2>3. OwnReports'
    BY <1>1, <2>1 DEF TypeOK, Accounted, OwnReports
  <2>4. News'
    <3> SUFFICES ASSUME NEW j \in Observer, NEW x \in Service,
                        worker'[j][x] \in {"queued", "woken"},
                        NEW h \in heard'[j], SameSlot(h, stamped'[j][x])
                 PROVE  Later(stamped'[j][x], h)
      BY DEF News
    <3>1. ~(j = i /\ x = s)
      BY <1>1, <2>1 DEF TypeOK
    <3>2. worker'[j][x] = worker[j][x] /\ stamped'[j][x] = stamped[j][x]
      BY <1>1, <2>1, <3>1 DEF TypeOK
    <3>3. h \in heard[j]
      <4>1. stamped[j][x].service = x /\ stamped[i][s].service = s
        BY <2>1, <3>2 DEF Accounted, OwnReports
      <4> QED  BY <1>1, <2>1, <3>1, <3>2, <4>1 DEF TypeOK, SameSlot
    <3> QED  BY <3>2, <3>3 DEF Accounted, News
  <2>5. WorkersFirst'
    BY <1>1, <1>2, <2>1 DEF TypeOK, Accounted, WorkersFirst
  <2> QED  BY <2>2, <2>3, <2>4, <2>5 DEF Accounted
<1> QED  BY <1>3, <1>4, <1>5, <1>6, <1>7 DEF WorkerStep

\* The steps of the sender: what it takes or sends moves from one part of the
\* ledger to another.
LEMMA SenderAccounted ==
  ASSUME IInv, Accounted, NEW i \in Observer, SenderStep(i)
  PROVE  Accounted'
<1>1. TypeOK
  BY DEF IInv
<1>2. /\ UNCHANGED <<proc, worker, stamped, sequence, stated, heard>>
      /\ \A j \in Observer : pending'[j] \subseteq pending[j]
      /\ \A j \in Observer : batch'[j] \subseteq batch[j] \cup pending[j]
      /\ \A j \in Observer : sender'[j] = "done" => sender[j] = "done" \/ proc[j] = "closing"
  <2>1. CASE SenderWakes(i)
    BY <1>1, <2>1 DEF TypeOK, SenderWakes
  <2>2. CASE TakeBatch(i)
    BY <1>1, <2>2 DEF TypeOK, TakeBatch
  <2>3. CASE \E r \in batch[i] : Send(i, r) \/ SendFails(i, r)
    <3>1. PICK r \in batch[i] : Send(i, r) \/ SendFails(i, r)
      BY <2>3
    <3>2. /\ batch' = [batch EXCEPT ![i] = @ \ {r}]
          /\ UNCHANGED <<proc, worker, stamped, sequence, pending, sender, stated, heard>>
      BY <3>1 DEF Send, SendFails
    <3> QED  BY <1>1, <3>2 DEF TypeOK
  <2>4. CASE Drained(i)
    BY <1>1, <2>4 DEF TypeOK, Drained
  <2>5. CASE SenderEnds(i)
    BY <1>1, <2>5 DEF TypeOK, SenderEnds
  <2> QED  BY <2>1, <2>2, <2>3, <2>4, <2>5 DEF SenderStep
<1>3. ASSUME NEW j \in Observer, NEW r \in wire'[j]
      PROVE  r.observer # j
  <2>1. CASE r \in wire[j]
    BY <2>1 DEF Accounted, OwnReports
  <2>2. CASE r \notin wire[j]
    <3>1. PICK q \in batch[i] : Send(i, q)
      BY <1>1, <2>2 DEF SenderStep, SenderWakes, TakeBatch, SendFails, Drained, SenderEnds
    <3>2. r = q /\ j # i
      BY <2>2, <3>1 DEF Send, Audience
    <3> QED  BY <3>1, <3>2 DEF Accounted, OwnReports
  <2> QED  BY <2>1, <2>2
<1>4. OwnReports'
  BY <1>2, <1>3 DEF Accounted, OwnReports
<1>5. Latest' /\ News'
  BY <1>2 DEF Accounted, Latest, News
<1>6. WorkersFirst'
  BY <1>2 DEF Accounted, WorkersFirst
<1>7. Ledger'
  <2>1. CASE SenderWakes(i) \/ Drained(i) \/ SenderEnds(i)
    <3>1. /\ UNCHANGED <<sequence, counts, pending, batch>>
          /\ \A j \in Observer : batch[j] = {} \/ sender'[j] = sender[j]
      BY <1>1, <2>1 DEF TypeOK, SenderWakes, Drained, SenderEnds, Accounted, Ledger
    <3> QED  BY <3>1 DEF Accounted, Ledger
  <2>2. CASE TakeBatch(i)
    <3>1. ASSUME NEW j \in Observer
          PROVE  /\ IsFiniteSet(batch'[j])
                 /\ sender'[j] # "sending" => batch'[j] = {}
                 /\ Cardinality(pending'[j]) + Cardinality(batch'[j])
                      = Cardinality(pending[j]) + Cardinality(batch[j])
      <4>1. CASE j # i
        BY <1>1, <2>2, <4>1 DEF TypeOK, TakeBatch, Accounted, Ledger
      <4>2. CASE j = i
        <5>1. batch[i] = {} /\ batch'[i] = pending[i] /\ pending'[i] = {} /\ sender'[i] = "sending"
          BY <1>1, <2>2 DEF TypeOK, TakeBatch, Accounted, Ledger
        <5>2. IsFiniteSet(pending[i]) /\ Cardinality(pending[i]) \in Nat
          BY FS_CardinalityType DEF IInv, FinitePending
        <5>3. Cardinality({}) = 0
          BY FS_EmptySet
        <5> QED  BY <4>2, <5>1, <5>2, <5>3
      <4> QED  BY <4>1, <4>2
    <3>2. UNCHANGED <<sequence, counts>>
      BY <2>2 DEF TakeBatch
    <3>3. ASSUME NEW j \in Observer
          PROVE  /\ counts[j].sent \in Nat /\ counts[j].superseded \in Nat /\ counts[j].failed \in Nat
                 /\ Cardinality(pending[j]) \in Nat /\ Cardinality(batch[j]) \in Nat
                 /\ Cardinality(pending'[j]) \in Nat /\ Cardinality(batch'[j]) \in Nat
      <4>1. IsFiniteSet(pending[j]) /\ IsFiniteSet(batch[j])
        BY DEF IInv, FinitePending, Accounted, Ledger
      <4>2. IsFiniteSet(pending'[j]) /\ IsFiniteSet(batch'[j])
        BY <1>2, <3>1, <4>1, FS_Subset
      <4> QED  BY <1>1, <4>1, <4>2, FS_CardinalityType DEF TypeOK
    <3>4. ASSUME NEW j \in Observer
          PROVE  sequence'[j] = counts'[j].sent + counts'[j].superseded + counts'[j].failed
                                 + Cardinality(pending'[j]) + Cardinality(batch'[j])
      <4>1. sequence[j] = counts[j].sent + counts[j].superseded + counts[j].failed
                           + Cardinality(pending[j]) + Cardinality(batch[j])
        BY DEF Accounted, Ledger
      <4> QED  BY <3>1, <3>2, <3>3, <4>1
    <3> QED  BY <3>1, <3>4 DEF Ledger
  <2>3. CASE \E r \in batch[i] : Send(i, r) \/ SendFails(i, r)
    <3>1. PICK r \in batch[i] : Send(i, r) \/ SendFails(i, r)
      BY <2>3
    <3>2. /\ batch' = [batch EXCEPT ![i] = @ \ {r}] /\ sender[i] = "sending"
          /\ UNCHANGED <<sequence, pending, sender>>
      BY <3>1 DEF Send, SendFails
    <3>3. \/ counts' = [counts EXCEPT ![i].sent = @ + 1]
          \/ counts' = [counts EXCEPT ![i].failed = @ + 1]
      BY <3>1 DEF Send, SendFails
    <3>4. counts \in [Observer -> [sent : Nat, superseded : Nat, failed : Nat]]
      BY <1>1 DEF TypeOK
    <3>5. \A j \in Observer \ {i} : counts'[j] = counts[j] /\ batch'[j] = batch[j]
      BY <1>1, <3>2, <3>3, <3>4 DEF TypeOK
    <3>6. /\ counts[i].sent \in Nat /\ counts[i].superseded \in Nat /\ counts[i].failed \in Nat
          /\ counts'[i].sent \in Nat /\ counts'[i].superseded \in Nat /\ counts'[i].failed \in Nat
          /\ counts'[i].sent + counts'[i].superseded + counts'[i].failed
               = counts[i].sent + counts[i].superseded + counts[i].failed + 1
      <4>1. CASE counts' = [counts EXCEPT ![i].sent = @ + 1]
        BY <3>4, <4>1
      <4>2. CASE counts' = [counts EXCEPT ![i].failed = @ + 1]
        BY <3>4, <4>2
      <4> QED  BY <3>3, <4>1, <4>2
    <3>7. /\ IsFiniteSet(batch[i]) /\ IsFiniteSet(batch'[i])
          /\ Cardinality(batch'[i]) = Cardinality(batch[i]) - 1
          /\ Cardinality(batch[i]) \in Nat /\ Cardinality(batch'[i]) \in Nat
          /\ Cardinality(pending[i]) \in Nat
      <4>1. IsFiniteSet(batch[i]) /\ IsFiniteSet(pending[i])
        BY DEF IInv, FinitePending, Accounted, Ledger
      <4>2. batch'[i] = batch[i] \ {r}
        BY <1>1, <3>2 DEF TypeOK
      <4> QED  BY <3>1, <4>1, <4>2, FS_RemoveElement, FS_CardinalityType
    <3>8. ASSUME NEW j \in Observer
          PROVE  /\ IsFiniteSet(batch'[j])
                 /\ sender'[j] # "sending" => batch'[j] = {}
                 /\ sequence'[j] = counts'[j].sent + counts'[j].superseded + counts'[j].failed
                                    + Cardinality(pending'[j]) + Cardinality(batch'[j])
      <4>1. CASE j # i
        BY <3>2, <3>5, <4>1 DEF Accounted, Ledger
      <4>2. CASE j = i
        <5>1. sequence[i] = counts[i].sent + counts[i].superseded + counts[i].failed
                             + Cardinality(pending[i]) + Cardinality(batch[i])
          BY DEF Accounted, Ledger
        <5>2. sequence'[i] = counts'[i].sent + counts'[i].superseded + counts'[i].failed
                              + Cardinality(pending'[i]) + Cardinality(batch'[i])
          BY <3>2, <3>6, <3>7, <5>1
        <5> QED  BY <3>2, <3>7, <4>2, <5>2
      <4> QED  BY <4>1, <4>2
    <3> QED  BY <3>8 DEF Ledger
  <2> QED  BY <2>1, <2>2, <2>3 DEF SenderStep
<1> QED  BY <1>4, <1>5, <1>6, <1>7 DEF Accounted

\* What arrives is never a slot of the instance it arrives at.
LEMMA ReceiverAccounted ==
  ASSUME IInv, Accounted, NEW i \in Observer,
         (\E r \in wire[i] : Deliver(i, r)) \/ Reject(i) \/ Stray(i)
  PROVE  Accounted'
<1>1. TypeOK
  BY DEF IInv
<1>2. UNCHANGED <<proc, worker, stamped, sequence, pending, sender, batch, counts, stated>>
  BY DEF Deliver, Reject, Stray, publisher
<1>3. Ledger' /\ Latest' /\ WorkersFirst'
  BY <1>2 DEF Accounted, Ledger, Latest, WorkersFirst
<1>4. OwnReports'
  <2>1. \A j \in Observer : wire'[j] \subseteq wire[j]
    <3>1. CASE wire' = wire
      BY <3>1
    <3>2. CASE \E r \in wire[i] : wire' = [wire EXCEPT ![i] = @ \ {r}]
      BY <1>1, <3>2 DEF TypeOK
    <3> QED  BY <3>1, <3>2 DEF Deliver, Reject, Stray
  <2> QED  BY <1>2, <2>1 DEF Accounted, OwnReports
<1>5. News'
  <2> SUFFICES ASSUME NEW j \in Observer, NEW x \in Service,
                      worker[j][x] \in {"queued", "woken"},
                      NEW h \in heard'[j], SameSlot(h, stamped[j][x])
               PROVE  Later(stamped[j][x], h)
    BY <1>2 DEF News
  <2>1. CASE h \in heard[j]
    BY <2>1 DEF Accounted, News
  <2>2. CASE h \notin heard[j]
    <3>1. PICK r \in wire[i] : Deliver(i, r)
      BY <2>2 DEF Reject, Stray
    <3>2. h = r /\ j = i
      BY <1>1, <2>2, <3>1 DEF Deliver, TypeOK
    <3>3. r.observer # i /\ stamped[j][x].observer = i
      BY <3>2 DEF Accounted, OwnReports
    <3> QED  BY <3>2, <3>3 DEF SameSlot
  <2> QED  BY <2>1, <2>2
<1> QED  BY <1>3, <1>4, <1>5 DEF Accounted

LEMMA AccountedNext == IInv /\ Accounted /\ [Next]_vars => Accounted'
<1> SUFFICES ASSUME IInv, Accounted, [Next]_vars PROVE Accounted'
  OBVIOUS
<1>1. CASE UNCHANGED vars
  BY <1>1 DEF Accounted, Ledger, OwnReports, Latest, News, WorkersFirst, vars, publisher
<1>2. CASE Next
  <2>1. PICK i \in Observer :
          \/ Start(i) \/ Activate(i) \/ Interrupt(i) \/ Crash(i)
          \/ \E s \in Service : WorkerStep(i, s)
          \/ SenderStep(i)
          \/ StopStep(i)
          \/ \E r \in wire[i] : Deliver(i, r)
          \/ Reject(i) \/ Stray(i)
    BY <1>2 DEF Next
  <2>2. CASE Start(i) \/ Activate(i) \/ Interrupt(i) \/ Crash(i) \/ StopStep(i)
    BY <2>2, ProcessAccounted DEF IInv
  <2>3. CASE \E s \in Service : WorkerStep(i, s)
    BY <2>3, WorkerAccounted
  <2>4. CASE SenderStep(i)
    BY <2>4, SenderAccounted
  <2>5. CASE (\E r \in wire[i] : Deliver(i, r)) \/ Reject(i) \/ Stray(i)
    BY <2>5, ReceiverAccounted
  <2> QED  BY <2>1, <2>2, <2>3, <2>4, <2>5
<1> QED  BY <1>1, <1>2

LEMMA AccountedHolds == Spec => []Accounted
BY AccountedInit, AccountedNext, InvHolds, PTL DEF Spec

\* Every report a process made is sent, superseded, refused, waiting or in the
\* batch, once; what waits about a service is the last thing found out about it;
\* and no worker outlives the sender it hands its reports to (Publish, drain,
\* send, serviceHealth.Stop).
THEOREM EveryReportCounted == Spec => []EveryReportIsCounted
<1>1. Accounted => EveryReportIsCounted
  BY DEF Accounted, Ledger, Latest, WorkersFirst, EveryReportIsCounted
<1> QED  BY <1>1, AccountedHolds, PTL

\* Nothing that comes over the network, however late or often, takes the slot of
\* the instance it comes to, so localSink never finds its report dropped.
THEOREM OwnReportsAreNews == Spec => []OwnReportIsNews
<1>1. ASSUME IInv, Accounted PROVE OwnReportIsNews
  <2> SUFFICES ASSUME NEW i \in Observer, NEW s \in Service,
                      worker[i][s] \in {"queued", "woken"}
               PROVE  DropReason(view[i], stamped[i][s]) = "none"
    BY DEF OwnReportIsNews
  <2>1. stamped[i][s] \in Report
    BY <1>1 DEF IInv, TypeOK, Carried
  <2>2. view[i] \subseteq heard[i]
    BY <1>1 DEF IInv, Slots, Newest
  <2>3. \A h \in view[i] : SameSlot(h, stamped[i][s]) => Later(stamped[i][s], h)
    BY <1>1, <2>2 DEF Accounted, News
  <2> QED  BY <2>1, <2>3, ReportDropped
<1> QED  BY <1>1, InvHolds, AccountedHolds, PTL

=============================================================================
