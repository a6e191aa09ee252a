----------------------------- MODULE SiteHealth -----------------------------
(***************************************************************************)
(* Service health inside one site: each platform instance probes its       *)
(* machine's services, applies what it found to its own view, and sends it *)
(* to every other instance (platform/internal: machine/servicehealth,      *)
(* site/healthfabric, site/healthview, composed by app/servicehealth.go;   *)
(* instance/state as the source of the epoch).                             *)
(*                                                                         *)
(* The services are those of one machine.  Observer holds the machine's    *)
(* instances, and may hold instances of other machines: what they say of   *)
(* their own services shares no slot with these, so here they only listen  *)
(* (MaxReports is 0 for them).                                             *)
(*                                                                         *)
(* Workers, the sender's goroutine and deliveries interleave at the steps  *)
(* that take a lock or touch the wake channel.  The network loses, delays, *)
(* reorders and repeats messages; what a process published before it died  *)
(* is still on its way afterwards.                                         *)
(***************************************************************************)
EXTENDS HealthView, FiniteSets

CONSTANTS
  Outcomes,     \* the statuses attempts end in
  Faults,       \* what else may happen, of FaultKinds
  MaxEpoch,     \* bound of each instance's incarnations
  MaxReports,   \* bound of each instance's reports, over all its incarnations
  MaxStrays     \* bound of the kinds of stray message that reach one process

FaultKinds == {"activate", "stop", "crash", "refuse", "repeat", "stray"}

ASSUME SiteHealthAssumption ==
  /\ Outcomes \subseteq ObservedStatus
  /\ Faults \subseteq FaultKinds
  /\ "elsewhere" \notin Service /\ "stranger" \notin Observer
  /\ MaxEpoch \in [Observer -> Nat] /\ MaxReports \in [Observer -> Nat]
  /\ MaxStrays \in Nat

VARIABLES
  durable,   \* the epoch in each instance's state file
  proc,      \* "down", "up", "stopping" (probing ends) or "closing" (the sender ends)
  epoch,     \* the epoch each process captured when it started
  worker,    \* where each service's worker stands
  stamped,   \* the report each worker is about to apply to its own view
  sequence,  \* Publisher.sequence
  pending,   \* Publisher.pending: at most one report for each service
  wake,      \* a token in the wake channel
  sender,    \* where Publisher.run stands
  batch,     \* what drain took and has not sent yet
  counts,    \* Publisher.sent, superseded and failed
  view,      \* the health view's slots
  seen,      \* the reasons for which a message was rejected or dropped so far
  wire,      \* the messages on their way to each instance
  \* history
  stated,    \* every report ever stamped, by any incarnation
  heard      \* the reports offered to each process's view

publisher == <<sequence, pending, wake, sender, batch, counts>>
vars == <<durable, proc, epoch, worker, stamped, publisher, view, seen, wire, stated, heard>>

NoReport == [service |-> "none", observer |-> "none", epoch |-> 0, sequence |-> 0, status |-> "unknown"]
Report == [service : Service, observer : Observer, epoch : Nat, sequence : Nat, status : ObservedStatus]
\* Why a message is not decoded (one for decode's six), and why a report is not
\* applied.
Reasons == {"rejected", "unknown_target", "unknown_observer", "unusable_status", "duplicate", "stale"}

NoCounts == [sent |-> 0, superseded |-> 0, failed |-> 0]

TypeOK ==
  /\ durable \in [Observer -> Nat]
  /\ proc \in [Observer -> {"down", "up", "stopping", "closing"}]
  /\ epoch \in [Observer -> Nat]
  /\ worker \in [Observer -> [Service -> {"watching", "reporting", "queued", "woken", "done"}]]
  /\ stamped \in [Observer -> [Service -> Report \cup {NoReport}]]
  /\ sequence \in [Observer -> Nat]
  /\ pending \in [Observer -> SUBSET Report]
  /\ wake \in [Observer -> BOOLEAN]
  /\ sender \in [Observer -> {"idle", "woken", "sending", "done"}]
  /\ batch \in [Observer -> SUBSET Report]
  /\ counts \in [Observer -> [sent : Nat, superseded : Nat, failed : Nat]]
  /\ view \in [Observer -> SUBSET Report]
  /\ seen \in [Observer -> SUBSET Reasons]
  /\ wire \in [Observer -> SUBSET Report]
  /\ stated \in SUBSET Report
  /\ heard \in [Observer -> SUBSET Report]

Init ==
  /\ durable = [i \in Observer |-> 0]
  /\ proc = [i \in Observer |-> "down"]
  /\ epoch = [i \in Observer |-> 0]
  /\ worker = [i \in Observer |-> [s \in Service |-> "done"]]
  /\ stamped = [i \in Observer |-> [s \in Service |-> NoReport]]
  /\ sequence = [i \in Observer |-> 0]
  /\ pending = [i \in Observer |-> {}]
  /\ wake = [i \in Observer |-> FALSE]
  /\ sender = [i \in Observer |-> "done"]
  /\ batch = [i \in Observer |-> {}]
  /\ counts = [i \in Observer |-> NoCounts]
  /\ view = [i \in Observer |-> {}]
  /\ seen = [i \in Observer |-> {}]
  /\ wire = [i \in Observer |-> {}]
  /\ stated = {}
  /\ heard = [i \in Observer |-> {}]

-----------------------------------------------------------------------------
(* The process *)

\* Variant: the epoch is raised in memory and never reaches the file.
AdvanceInMemory(i) ==
  /\ epoch' = [epoch EXCEPT ![i] = durable[i] + 1]
  /\ UNCHANGED durable

\* Advance(ReasonProcessStarted) as Run calls it: what the process works
\* under is in the file before anything is started with it.
AdvanceEpoch(i) ==
  /\ durable' = [durable EXCEPT ![i] = @ + 1]
  /\ epoch' = [epoch EXCEPT ![i] = durable[i] + 1]

\* What is left of process i's health subsystem when the process is gone, or
\* what a new one begins with.
Emptied(i, w, s) ==
  /\ worker' = [worker EXCEPT ![i] = [x \in Service |-> w]]
  /\ stamped' = [stamped EXCEPT ![i] = [x \in Service |-> NoReport]]
  /\ sequence' = [sequence EXCEPT ![i] = 0]
  /\ pending' = [pending EXCEPT ![i] = {}]
  /\ wake' = [wake EXCEPT ![i] = FALSE]
  /\ sender' = [sender EXCEPT ![i] = s]
  /\ batch' = [batch EXCEPT ![i] = {}]
  /\ counts' = [counts EXCEPT ![i] = NoCounts]
  /\ view' = [view EXCEPT ![i] = {}]
  /\ seen' = [seen EXCEPT ![i] = {}]
  /\ wire' = [wire EXCEPT ![i] = {}]
  /\ heard' = [heard EXCEPT ![i] = {}]

\* The epoch is advanced and service health composed: an empty view, the
\* subscription, the publisher, and last the workers.
Start(i) ==
  /\ proc[i] = "down"
  /\ durable[i] < MaxEpoch[i]
  /\ AdvanceEpoch(i)
  /\ proc' = [proc EXCEPT ![i] = "up"]
  /\ Emptied(i, "watching", "idle")
  /\ UNCHANGED stated

\* An activation advances the durable epoch; the publisher keeps its own.
Activate(i) ==
  /\ "activate" \in Faults
  /\ proc[i] = "up"
  /\ durable[i] < MaxEpoch[i]
  /\ durable' = [durable EXCEPT ![i] = @ + 1]
  /\ UNCHANGED <<proc, epoch, worker, stamped, publisher, view, seen, wire, stated, heard>>

\* The process's context is cancelled and serviceHealth.Stop begins.
Interrupt(i) ==
  /\ "stop" \in Faults
  /\ proc[i] = "up"
  /\ proc' = [proc EXCEPT ![i] = "stopping"]
  /\ UNCHANGED <<durable, epoch, worker, stamped, publisher, view, seen, wire, stated, heard>>

\* Variant: the publisher is closed without waiting for the workers.
PublisherStoppedFirst(i) ==
  /\ proc[i] = "stopping"
  /\ proc' = [proc EXCEPT ![i] = "closing"]
  /\ UNCHANGED <<durable, epoch, worker, stamped, publisher, view, seen, wire, stated, heard>>

\* Monitor.Stop returns when every worker has, and Publisher.Close cancels the
\* sender's context.
MonitorStopped(i) ==
  /\ proc[i] = "stopping"
  /\ \A s \in Service : worker[i][s] = "done"
  /\ proc' = [proc EXCEPT ![i] = "closing"]
  /\ UNCHANGED <<durable, epoch, worker, stamped, publisher, view, seen, wire, stated, heard>>

\* Publisher.Close returns when the sender has; the subscription and the
\* connection are closed, and the process leaves.
Stopped(i) ==
  /\ proc[i] = "closing"
  /\ sender[i] = "done"
  /\ proc' = [proc EXCEPT ![i] = "down"]
  /\ Emptied(i, "done", "done")
  /\ UNCHANGED <<durable, epoch, stated>>

Crash(i) ==
  /\ "crash" \in Faults
  /\ proc[i] # "down"
  /\ proc' = [proc EXCEPT ![i] = "down"]
  /\ Emptied(i, "done", "done")
  /\ UNCHANGED <<durable, epoch, stated>>

-----------------------------------------------------------------------------
(* A worker *)

\* The wait and the probe after it have ended and the process's context has
\* not: the attempt counts.
EndAttempt(i, s) ==
  /\ proc[i] = "up"
  /\ worker[i][s] = "watching"
  /\ Cardinality({r \in stated : r.observer = i}) < MaxReports[i]
  /\ worker' = [worker EXCEPT ![i][s] = "reporting"]
  /\ UNCHANGED <<durable, proc, epoch, stamped, publisher, view, seen, wire, stated, heard>>

\* Variant: Monitor.Stop waits for the workers before it cancels them.
CancelledLate(i, s) ==
  /\ proc[i] = "closing"
  /\ worker[i][s] = "watching"
  /\ worker' = [worker EXCEPT ![i][s] = "done"]
  /\ UNCHANGED <<durable, proc, epoch, stamped, publisher, view, seen, wire, stated, heard>>

\* The context is cancelled while the worker waits or probes: nothing is
\* recorded and the worker returns.
Cancelled(i, s) ==
  /\ proc[i] \in {"stopping", "closing"}
  /\ worker[i][s] = "watching"
  /\ worker' = [worker EXCEPT ![i][s] = "done"]
  /\ UNCHANGED <<durable, proc, epoch, stamped, publisher, view, seen, wire, stated, heard>>

\* Publish, under the lock: the report is stamped and becomes its service's
\* latest.  Its caller never asks whether the process is stopping.
Publish(i, s, status) ==
  LET r == [service |-> s, observer |-> i, epoch |-> epoch[i],
            sequence |-> sequence[i] + 1, status |-> status]
      replaced == {p \in pending[i] : p.service = s}
  IN  /\ worker[i][s] = "reporting"
      /\ worker' = [worker EXCEPT ![i][s] = "queued"]
      /\ stamped' = [stamped EXCEPT ![i][s] = r]
      /\ sequence' = [sequence EXCEPT ![i] = @ + 1]
      /\ pending' = [pending EXCEPT ![i] = (@ \ replaced) \cup {r}]
      /\ counts' = [counts EXCEPT ![i].superseded = @ + Cardinality(replaced)]
      /\ stated' = stated \cup {r}
      /\ UNCHANGED <<durable, proc, epoch, wake, sender, batch, view, seen, wire, heard>>

\* Publish, after the lock: a token, unless there is one already.
Wake(i, s) ==
  /\ worker[i][s] = "queued"
  /\ worker' = [worker EXCEPT ![i][s] = "woken"]
  /\ wake' = [wake EXCEPT ![i] = TRUE]
  /\ UNCHANGED <<durable, proc, epoch, stamped, sequence, pending, sender, batch, counts,
                 view, seen, wire, stated, heard>>

\* View.Apply at instance i.
Offer(i, r) ==
  /\ view' = [view EXCEPT ![i] = Apply(@, r)]
  /\ seen' = [seen EXCEPT ![i] = @ \cup ({DropReason(view[i], r)} \ {"none"})]

\* localSink: what Publish returned is applied to the process's own view.
ApplyOwn(i, s) ==
  /\ worker[i][s] = "woken"
  /\ worker' = [worker EXCEPT ![i][s] = "watching"]
  /\ stamped' = [stamped EXCEPT ![i][s] = NoReport]
  /\ Offer(i, stamped[i][s])
  /\ heard' = [heard EXCEPT ![i] = @ \cup {stamped[i][s]}]
  /\ UNCHANGED <<durable, proc, epoch, publisher, wire, stated>>

-----------------------------------------------------------------------------
(* The sender *)

SenderWakes(i) ==
  /\ sender[i] = "idle"
  /\ wake[i]
  /\ wake' = [wake EXCEPT ![i] = FALSE]
  /\ sender' = [sender EXCEPT ![i] = "woken"]
  /\ UNCHANGED <<durable, proc, epoch, worker, stamped, sequence, pending, batch, counts,
                 view, seen, wire, stated, heard>>

\* Variant: drain sends from a copy and leaves the map as it is.
TakeCopy(i) ==
  /\ sender[i] = "woken"
  /\ sender' = [sender EXCEPT ![i] = "sending"]
  /\ batch' = [batch EXCEPT ![i] = pending[i]]
  /\ UNCHANGED <<durable, proc, epoch, worker, stamped, sequence, pending, wake, counts,
                 view, seen, wire, stated, heard>>

\* drain takes the pending map whole and leaves an empty one.
TakeBatch(i) ==
  /\ sender[i] = "woken"
  /\ sender' = [sender EXCEPT ![i] = "sending"]
  /\ batch' = [batch EXCEPT ![i] = pending[i]]
  /\ pending' = [pending EXCEPT ![i] = {}]
  /\ UNCHANGED <<durable, proc, epoch, worker, stamped, sequence, wake, counts,
                 view, seen, wire, stated, heard>>

\* Variant: the connection echoes.
AudienceWithSelf(i) == {j \in Observer : proc[j] # "down"}

\* Who hears what instance i says: its connection does not echo.
Audience(i) == {j \in Observer \ {i} : proc[j] # "down"}

\* The connection takes a report of the batch; it reaches some of its audience.
Send(i, r) ==
  /\ sender[i] = "sending"
  /\ r \in batch[i]
  /\ batch' = [batch EXCEPT ![i] = @ \ {r}]
  /\ counts' = [counts EXCEPT ![i].sent = @ + 1]
  /\ \E reached \in SUBSET Audience(i) :
       wire' = [j \in Observer |-> IF j \in reached THEN wire[j] \cup {r} ELSE wire[j]]
  /\ UNCHANGED <<durable, proc, epoch, worker, stamped, sequence, pending, wake, sender,
                 view, seen, stated, heard>>

\* Variant: what the connection refuses is put back to be sent again.
SendFailsRequeued(i, r) ==
  /\ "refuse" \in Faults
  /\ sender[i] = "sending"
  /\ r \in batch[i]
  /\ batch' = [batch EXCEPT ![i] = @ \ {r}]
  /\ pending' = [pending EXCEPT ![i] = {p \in @ : p.service # r.service} \cup {r}]
  /\ wake' = [wake EXCEPT ![i] = TRUE]
  /\ UNCHANGED <<durable, proc, epoch, worker, stamped, sequence, sender, counts,
                 view, seen, wire, stated, heard>>

\* The report cannot be encoded, or the connection refuses it; it is not put back.
SendFails(i, r) ==
  /\ "refuse" \in Faults
  /\ sender[i] = "sending"
  /\ r \in batch[i]
  /\ batch' = [batch EXCEPT ![i] = @ \ {r}]
  /\ counts' = [counts EXCEPT ![i].failed = @ + 1]
  /\ UNCHANGED <<durable, proc, epoch, worker, stamped, sequence, pending, wake, sender,
                 view, seen, wire, stated, heard>>

\* Variant: a token that came while it was sending is thrown away.
DrainedForgetting(i) ==
  /\ sender[i] = "sending"
  /\ batch[i] = {}
  /\ sender' = [sender EXCEPT ![i] = "idle"]
  /\ wake' = [wake EXCEPT ![i] = FALSE]
  /\ UNCHANGED <<durable, proc, epoch, worker, stamped, sequence, pending, batch,
                 counts, view, seen, wire, stated, heard>>

\* The batch has been sent.
Drained(i) ==
  /\ sender[i] = "sending"
  /\ batch[i] = {}
  /\ sender' = [sender EXCEPT ![i] = "idle"]
  /\ UNCHANGED <<durable, proc, epoch, worker, stamped, sequence, pending, wake, batch,
                 counts, view, seen, wire, stated, heard>>

\* run's select: a cancelled context ends it, and races a token.
SenderEnds(i) ==
  /\ proc[i] = "closing"
  /\ sender[i] = "idle"
  /\ sender' = [sender EXCEPT ![i] = "done"]
  /\ UNCHANGED <<durable, proc, epoch, worker, stamped, sequence, pending, wake, batch,
                 counts, view, seen, wire, stated, heard>>

-----------------------------------------------------------------------------
(* The subscriber *)

\* A message arrives; the network may deliver it once more.
Deliver(i, r) ==
  /\ r \in wire[i]
  /\ \/ wire' = [wire EXCEPT ![i] = @ \ {r}]
     \/ "repeat" \in Faults /\ wire' = wire
  /\ Offer(i, r)
  /\ heard' = [heard EXCEPT ![i] = @ \cup {r}]
  /\ UNCHANGED <<durable, proc, epoch, worker, stamped, publisher, stated>>

\* A report the view cannot place: of an unlisted unit, by an unexpected
\* observer, or with a status no observer may state.
Misplaced(s, o) ==
  LET Claim(service, observer, status) ==
        [service |-> service, observer |-> observer, epoch |-> MaxEpoch[o] + 1,
         sequence |-> 1, status |-> status]
  IN  {Claim("elsewhere", o, "healthy"), Claim(s, "stranger", "healthy"), Claim(s, o, "degraded")}

\* Something that no instance of the site stated reaches process i.
MayStray(i) ==
  /\ "stray" \in Faults
  /\ proc[i] # "down"
  /\ Cardinality(seen[i] \ {"duplicate", "stale"}) < MaxStrays

\* Bytes that decode refuses.
Reject(i) ==
  /\ MayStray(i)
  /\ seen' = [seen EXCEPT ![i] = @ \cup {"rejected"}]
  /\ UNCHANGED <<durable, proc, epoch, worker, stamped, publisher, view, wire, stated, heard>>

Stray(i) ==
  /\ MayStray(i)
  /\ \E s \in Service, o \in Observer : \E r \in Misplaced(s, o) : Offer(i, r)
  /\ UNCHANGED <<durable, proc, epoch, worker, stamped, publisher, wire, stated, heard>>

-----------------------------------------------------------------------------
WorkerStep(i, s) ==
  \/ EndAttempt(i, s)
  \/ Cancelled(i, s)
  \/ \E status \in Outcomes : Publish(i, s, status)
  \/ Wake(i, s)
  \/ ApplyOwn(i, s)

SenderStep(i) ==
  \/ SenderWakes(i)
  \/ TakeBatch(i)
  \/ \E r \in batch[i] : Send(i, r) \/ SendFails(i, r)
  \/ Drained(i)
  \/ SenderEnds(i)

StopStep(i) == MonitorStopped(i) \/ Stopped(i)

Next ==
  \E i \in Observer :
    \/ Start(i) \/ Activate(i) \/ Interrupt(i) \/ Crash(i)
    \/ \E s \in Service : WorkerStep(i, s)
    \/ SenderStep(i)
    \/ StopStep(i)
    \/ \E r \in wire[i] : Deliver(i, r)
    \/ Reject(i) \/ Stray(i)

Spec == Init /\ [][Next]_vars

-----------------------------------------------------------------------------
(* Properties *)

\* No two reports that differ carry the same observer, epoch and sequence,
\* whatever processes of an instance made them: what the fence of Apply
\* compares identifies a report (state.Advance before anything else, captured
\* once; Publisher.sequence).
ReportsAreUnique ==
  \A a, b \in stated :
    a.observer = b.observer /\ a.epoch = b.epoch /\ a.sequence = b.sequence => a = b

\* Each slot holds the latest of the reports its view was offered, in whatever
\* order they came and however often (Apply).
NewestReportWins ==
  \A i \in Observer :
    /\ view[i] \subseteq heard[i]
    /\ \A r \in heard[i] : \E s \in view[i] : SameSlot(s, r) /\ (s = r \/ Later(s, r))

\* Two instances that received the same reports have the same slots, in
\* whatever order each received them (view_test.go: nothing about a snapshot
\* depends on the order reports happened to arrive in).
SameReportsSameView ==
  \A i, j \in Observer : heard[i] = heard[j] => view[i] = view[j]

\* What an instance finds out itself is always news to its own view: nothing
\* that comes back from the site takes its slot first (NoEcho; localSink warns
\* if it happens).
OwnReportIsNews ==
  \A i \in Observer, s \in Service :
    worker[i][s] \in {"queued", "woken"} => DropReason(view[i], stamped[i][s]) = "none"

\* Every report a process made is accounted for once: sent, superseded, refused,
\* waiting or in the batch.  What waits about a service is the last thing found
\* out about it (Publish replaces, drain puts nothing back), and nothing is
\* handed to a sender that has ended (serviceHealth.Stop: the monitor first).
EveryReportIsCounted ==
  \A i \in Observer :
    /\ sequence[i] = counts[i].sent + counts[i].superseded + counts[i].failed
                      + Cardinality(pending[i]) + Cardinality(batch[i])
    /\ \A p \in pending[i], r \in stated : SameSlot(r, p) => ~Later(r, p)
    /\ sender[i] = "done" => \A s \in Service : worker[i][s] = "done"

\* A view holds only reports instances of this site stated about its services,
\* whatever else arrives on the subject (decode, Apply).
OnlyStatedReports == \A i \in Observer : view[i] \subseteq stated

-----------------------------------------------------------------------------
(* Fairness: the goroutines of a running process are scheduled, and a wait or  *)
(* a probe ends by its timer.  Nothing obliges an instance to start or a       *)
(* message to arrive.                                                          *)

Fairness ==
  \A i \in Observer :
    /\ \A s \in Service :
         /\ WF_vars(EndAttempt(i, s))
         /\ WF_vars(Cancelled(i, s))
         /\ WF_vars(\E status \in Outcomes : Publish(i, s, status))
         /\ WF_vars(Wake(i, s))
         /\ WF_vars(ApplyOwn(i, s))
    /\ WF_vars(SenderStep(i))
    /\ WF_vars(StopStep(i))

FairSpec == Spec /\ Fairness

\* What is handed to the publisher of a process that stays up does not stay
\* there: the sender takes it or a newer one replaces it (Publisher).
ReportsLeave ==
  \A i \in Observer : \A s \in Service, n \in 1 .. MaxReports[i] :
    (\E r \in pending[i] : r.service = s /\ r.sequence = n)
      ~> (proc[i] # "up" \/ ~\E r \in pending[i] : r.service = s /\ r.sequence = n)

\* A stop completes: no worker waits for the sender, nor the sender for a worker
\* (Monitor.Stop, Publisher.Close).
StopCompletes == \A i \in Observer : proc[i] = "stopping" ~> proc[i] = "down"

=============================================================================
