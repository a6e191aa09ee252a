-------------------------- MODULE ProcessLifeProofs --------------------------
(***************************************************************************)
(* What ProcessLife promises about the order of start-up, serving and      *)
(* shutdown, for any number of requests and incarnations.                  *)
(***************************************************************************)
EXTENDS ProcessLife, TLAPS

\* Where main is before the listener is bound, while loops of an activation may
\* run, while the Passive composition may, and after the server was shut down.
Early == {"off", "advance", "epoch_advance_failed", "process_started", "epoch_advanced", "broker",
          "client", "event_fabric_start_failed", "event_fabric_started", "health",
          "service_health_start_failed", "lease", "lease_open_failed", "listen", "api_listen_failed"}
Activated == {"activate", "activation_epoch_failed", "activation_epoch", "swap", "api_active",
              "serving", "retire", "retire_failed", "drain", "api_stopped", "join", "fail"}
Waiting == {"passive", "won", "stop_waiting"}
Out == {"process_stopped", "leave"}
AfterStopped == {"leave", "off", "advance", "process_started", "epoch_advance_failed"}

NoRequest == \A r \in Request : request[r] = "none"

Typed ==
  /\ pc \in Where /\ request \in [Request -> {"none", "accepted", "counted", "passive", "active"}]
  /\ handler \in {"passive", "active"} /\ drained \in BOOLEAN /\ overdue \in BOOLEAN
  /\ disk \in Nat /\ mem \in Nat /\ epoch \in Nat
Bound ==
  /\ pc \in Early => listener = "none"
  /\ listener = "none" => NoRequest
  /\ pc = "closing" => listener = "closed"
  /\ pc \in Out => listener \in {"none", "closed"} /\ (~overdue => NoRequest)
Alone ==
  /\ pc \notin Activated => loops = {}
  /\ pc \notin Waiting => passive = "none"
  /\ last = "process_stopped" => pc \in AfterStopped
Retiring ==
  /\ drained => handler = "passive" /\ \A r \in Request : request[r] # "active"
  /\ pc = "drain" => handler = "passive"
Counted ==
  /\ epoch <= disk
  /\ pc # "off" => epoch <= mem /\ mem <= disk

IInv == Typed /\ Bound /\ Alone /\ Retiring /\ Counted

LEMMA SayGoes ==
  ASSUME Say
  PROVE  /\ pc' \in Where /\ pc' \notin {"off", "closing", "drain"}
         /\ pc' \in Early => pc \in Early
         /\ pc' \in Out => pc \in Early \cup Out
         /\ pc \in Activated => pc' \in Activated
         /\ pc \notin Waiting /\ pc' \notin Waiting
         /\ pc # "off" /\ last' \in {last, pc}
         /\ (last = "process_stopped" => pc \in AfterStopped)
              => (last' = "process_stopped" => pc' \in AfterStopped)
         /\ pc' \notin {"process_started", "activation_epoch"}
<1> USE DEF Say, Then, Where, Early, Activated, Waiting, Out, AfterStopped, Accepted
<1>1. pc \in DOMAIN Then
  OBVIOUS
<1>2. CASE pc \in {"epoch_advance_failed", "process_started", "epoch_advanced",
                   "event_fabric_start_failed", "event_fabric_started"}
  BY <1>2
<1>3. CASE pc \in {"service_health_start_failed", "lease_open_failed", "api_listen_failed",
                   "api_listening", "lease_opened"}
  BY <1>3
<1>4. CASE pc \in {"ownership_waiting", "ownership_acquired", "activation_started",
                   "activation_epoch_failed", "activation_epoch"}
  BY <1>4
<1>5. CASE pc \in {"api_active", "api_stopped", "activation_ended", "process_stopped"}
  BY <1>5
<1> QED
  BY <1>1, <1>2, <1>3, <1>4, <1>5

LEMMA InductiveStart == Init => IInv
<1> SUFFICES ASSUME Init PROVE IInv
  OBVIOUS
<1>1. Typed
  <2>1. pc \in Where
    BY DEF Init, Where
  <2> QED
    BY <2>1 DEF Init, Typed
<1>2. Bound /\ Retiring
  BY DEF Init, Bound, Retiring, NoRequest, Out
<1>3. Alone
  BY DEF Init, Alone, Activated, Waiting
<1>4. Counted
  BY DEF Init, Counted
<1> QED
  BY <1>1, <1>2, <1>3, <1>4 DEF IInv

LEMMA SayKeeps == ASSUME IInv, Say PROVE IInv'
<1>1. /\ UNCHANGED <<leased, stop, up, listener, returned, handler, request, drained, overdue,
                     passive, loops, cancelled, failed, disk, mem, epoch>>
  BY DEF Say, server, activation, epochs
<1> USE SayGoes, <1>1 DEF IInv
<1>2. Typed'
  BY DEF Typed
<1>3. Bound'
  BY DEF Bound, NoRequest, Early, Out
<1>4. Alone'
  BY DEF Alone
<1>5. Retiring'
  BY DEF Retiring
<1>6. Counted'
  BY DEF Counted
<1> QED
  BY <1>2, <1>3, <1>4, <1>5, <1>6

\* The steps that leave the requests and the listener alone.
LEMMA MainKeeps ==
  ASSUME IInv,
         Start \/ Turn \/ StartPassive \/ JoinPassive \/ Promote \/ StopWaiting \/ StartLoops
           \/ Swap \/ Serve \/ Retire \/ Join \/ EndTurn
  PROVE  IInv'
<1> USE DEF IInv, Goto, server, activation, epochs, Where, Then
<1>1. UNCHANGED <<listener, request, overdue, disk, mem, epoch, last>>
  BY DEF Start, Turn, StartPassive, JoinPassive, Promote, StopWaiting, StartLoops, Swap, Serve,
         Retire, Join, EndTurn
<1>2. Typed'
  BY <1>1 DEF Typed, Start, Turn, StartPassive, JoinPassive, Promote, StopWaiting, StartLoops, Swap,
         Serve, Retire, Retired, Join, EndTurn
<1>3. Bound'
  BY <1>1 DEF Bound, NoRequest, Early, Out, Start, Turn, StartPassive, JoinPassive, Promote,
         StopWaiting, StartLoops, Swap, Serve, Retire, Join, EndTurn
<1>4. Alone'
  BY <1>1 DEF Alone, Activated, Waiting, AfterStopped, Start, Turn, StartPassive, JoinPassive,
         Promote, StopWaiting, StartLoops, Swap, Serve, Retire, Join, LoopsJoined, EndTurn
<1>5. Retiring'
  BY <1>1 DEF Retiring, Start, Turn, StartPassive, JoinPassive, Promote, StopWaiting, StartLoops,
         Swap, Serve, Retire, Retired, Join, EndTurn
<1>6. Counted'
  BY <1>1 DEF Counted, Start, Turn, StartPassive, JoinPassive, Promote, StopWaiting, StartLoops,
         Swap, Serve, Retire, Join, EndTurn
<1> QED
  BY <1>2, <1>3, <1>4, <1>5, <1>6

LEMMA AdvanceKeeps ==
  ASSUME IInv, Advance
  PROVE  /\ IInv'
         /\ pc' \in {"process_started", "activation_epoch"} => epoch' > epoch
<1> USE DEF IInv, Goto, server, activation, epochs, Where, Then, Advance, AdvanceEpoch
<1>1. Typed'
  BY DEF Typed
<1>2. Bound'
  BY DEF Bound, NoRequest, Early, Out
<1>3. Alone'
  BY DEF Alone, Activated, Waiting, AfterStopped
<1>4. Retiring'
  BY DEF Retiring
<1>5. Counted' /\ (pc' \in {"process_started", "activation_epoch"} => epoch' > epoch)
  BY DEF Counted, Typed
<1> QED
  BY <1>1, <1>2, <1>3, <1>4, <1>5

\* The process begins, binds its listener, shuts it down, and ends.
LEMMA BoundsKeep ==
  ASSUME IInv, Launch \/ Listen \/ Shutdown \/ ShutdownEnds
  PROVE  IInv'
<1> USE DEF IInv, Goto, server, activation, epochs, Launch, Listen, Shutdown,
            ShutdownBegins, ShutdownEnds
<1>1. Typed'
  BY DEF Typed, Where, Then
<1>2. Bound'
  BY DEF Bound, NoRequest, Early, Out
<1>3. Alone'
  BY DEF Alone, Activated, Waiting, AfterStopped
<1>4. Retiring'
  <2>1. UNCHANGED <<drained, handler, request>> /\ pc' # "drain"
    OBVIOUS
  <2> QED
    BY <2>1 DEF Retiring
<1>5. Counted'
  <2>1. CASE Launch
    BY <2>1 DEF Counted, Typed
  <2>2. CASE Listen \/ Shutdown \/ ShutdownEnds
    BY <2>2 DEF Counted
  <2> QED
    BY <2>1, <2>2
<1> QED
  BY <1>1, <1>2, <1>3, <1>4, <1>5

LEMMA GoneKeeps ==
  ASSUME IInv, Gone, UNCHANGED <<mem, epoch, last>>, disk' \in Nat, disk' >= epoch,
         last = "process_stopped" => pc \in AfterStopped
  PROVE  IInv'
<1> USE DEF IInv
<1>1. pc' = "off" /\ "off" \in Where
  BY DEF Gone, Where
<1>2. Typed'
  BY <1>1 DEF Gone, Typed
<1>3. Bound' /\ Retiring'
  BY DEF Gone, Bound, Retiring, NoRequest, Out
<1>4. Alone'
  BY DEF Gone, Alone, Activated, Waiting, AfterStopped
<1>5. Counted'
  BY DEF Gone, Counted, Typed
<1> QED
  BY <1>2, <1>3, <1>4, <1>5

LEMMA UnwindKeeps == ASSUME IInv, Unwind PROVE IInv'
<1>1. CASE Gone
  BY <1>1, GoneKeeps DEF Unwind, epochs, IInv, Typed, Alone, Counted
<1>2. CASE UNCHANGED <<pc, stop, server, request, drained, overdue, passive, activation>>
  BY <1>2 DEF Unwind, server, activation, epochs, IInv, Typed, Bound, Alone, Retiring, Counted, NoRequest
<1> QED
  BY <1>1, <1>2 DEF Unwind

LEMMA CrashKeeps == ASSUME IInv, Crash PROVE IInv'
<1>1. disk' \in {disk, mem + 1}
  BY DEF Crash
<1>2. disk' \in Nat /\ disk' >= epoch
  BY <1>1 DEF Crash, IInv, Typed, Counted
<1> QED
  BY <1>2, GoneKeeps DEF Crash, IInv, Alone

LEMMA DrainKeeps == ASSUME IInv, Drain PROVE IInv'
<1> USE DEF IInv, Goto, server, epochs, Where, Then, Drain
<1>1. Typed'
  BY DEF Typed
<1>2. Bound'
  BY DEF Bound, NoRequest, Early, Out
<1>3. Alone'
  BY DEF Alone, Activated, Waiting, AfterStopped
<1>4. Retiring'
  BY DEF Retiring, InFlight
<1>5. Counted'
  BY DEF Counted
<1> QED
  BY <1>1, <1>2, <1>3, <1>4, <1>5

\* The goroutines beside main: what they state, they state while main waits for them.
LEMMA OthersKeep ==
  ASSUME IInv,
         Decline \/ PassiveGoes \/ ListenerDies \/ Interrupt
           \/ \E l \in {"renewal", "failback"} : LoopTicks(l) \/ LoopEnds(l)
  PROVE  IInv'
<1> USE DEF IInv, server, activation, epochs, Decline, PassiveGoes, LoopTicks, LoopEnds,
            ListenerDies, Interrupt, BestEffort, Accepted
<1>1. Typed'
  BY DEF Typed
<1>2. Bound'
  BY DEF Bound, NoRequest, Early, Out
<1>3. Alone'
  BY DEF Alone, Activated, Waiting, AfterStopped
<1>4. Retiring'
  BY DEF Retiring
<1>5. Counted'
  BY DEF Counted
<1> QED
  BY <1>1, <1>2, <1>3, <1>4, <1>5

\* A request loads its handler after it was counted.
LEMMA RequestKeeps ==
  ASSUME IInv, NEW r \in Request, Arrive(r) \/ ServeHTTP(r)
  PROVE  IInv'
<1> USE DEF IInv, server, activation, epochs, Arrive, ServeHTTP
<1>1. Typed'
  BY DEF Typed
<1>2. Bound'
  BY DEF Bound, NoRequest, Typed
<1>3. Alone'
  BY DEF Alone
<1>4. Retiring'
  BY DEF Retiring, Typed
<1>5. Counted'
  BY DEF Counted
<1> QED
  BY <1>1, <1>2, <1>3, <1>4, <1>5

LEMMA Inductive == IInv /\ [Next]_vars => IInv'
<1> SUFFICES ASSUME IInv, [Next]_vars PROVE IInv'
  OBVIOUS
<1>1. CASE Next
  BY <1>1, SayKeeps, MainKeeps, AdvanceKeeps, BoundsKeep, UnwindKeeps, CrashKeeps,
     DrainKeeps, OthersKeep, RequestKeeps
     DEF Next, Main
<1>2. CASE UNCHANGED vars
  BY <1>2 DEF vars, server, activation, epochs, IInv, Typed, Bound, Alone, Retiring, Counted, NoRequest
<1> QED
  BY <1>1, <1>2

\* After a drain that succeeded no request runs on the retired handler.
THEOREM RetiredHandlerIsAlwaysQuiet == Spec => []RetiredHandlerIsQuiet
<1>1. IInv => RetiredHandlerIsQuiet
  BY DEF IInv, Retiring, RetiredHandlerIsQuiet
<1> QED
  BY <1>1, InductiveStart, Inductive, PTL DEF Spec

\* The fabric is closed only after the last request, or when shutdown gave up.
THEOREM SiteAlwaysOutlivesRequests == Spec => []SiteOutlivesRequests
<1>1. IInv => SiteOutlivesRequests
  BY DEF IInv, Bound, Out, NoRequest, SiteOutlivesRequests
<1> QED
  BY <1>1, InductiveStart, Inductive, PTL DEF Spec

\* Nothing is stated between a process's stop and the next process.
THEOREM EndIsAlwaysStatedLast == Spec => EndIsStatedLast
<1> DEFINE Framed == last = "process_stopped" =>
                       last' \in {"process_stopped", "process_started", "epoch_advance_failed"}
<1>1. ASSUME IInv, [Next]_vars PROVE Framed
  <2>1. CASE Say
    BY <1>1, <2>1, SayGoes DEF IInv, Alone, AfterStopped, Say, Then, Accepted
  <2>2. CASE Decline \/ PassiveGoes \/ \E l \in {"renewal", "failback"} : LoopTicks(l)
    BY <1>1, <2>2 DEF IInv, Alone, AfterStopped, Activated, Waiting, Decline, PassiveGoes, LoopTicks
  <2>3. CASE UNCHANGED last
    BY <2>3
  <2> QED
    BY <1>1, <2>1, <2>2, <2>3 DEF Next, Main, vars, Advance, Start, Listen, Turn, StartPassive,
       JoinPassive, StartLoops, Swap, Serve, Retire, Drain, Join, EndTurn, Shutdown, ShutdownEnds,
       Unwind, Launch, Promote, StopWaiting, LoopEnds, Arrive, ServeHTTP, ListenerDies, Interrupt,
       Crash
<1>2. IInv /\ [Next]_vars => [Framed]_vars
  BY <1>1
<1> QED
  BY <1>2, InductiveStart, Inductive, PTL DEF Spec, EndIsStatedLast

\* Every incarnation acts under an epoch above all those before it.
THEOREM IncarnationsAlwaysDiffer == Spec => IncarnationsDiffer
<1> DEFINE Rises == pc # pc' /\ pc' \in {"process_started", "activation_epoch"} => epoch' > epoch
<1>1. ASSUME IInv, [Next]_vars PROVE Rises
  <2>1. CASE Advance
    BY <1>1, <2>1, AdvanceKeeps
  <2>2. CASE Say
    BY <2>2, SayGoes
  <2>3. CASE ~Advance /\ ~Say
    BY <1>1, <2>3 DEF Next, Main, vars, Start, Listen, Turn, StartPassive, Goto, Decline,
       PassiveGoes, LoopTicks,
       JoinPassive, StartLoops, Swap, Serve, Retire, Drain, Join, EndTurn, Shutdown, ShutdownBegins,
       ShutdownEnds, Unwind, Gone, Launch, Promote, StopWaiting, LoopEnds, Arrive, ServeHTTP,
       ListenerDies, Interrupt, Crash
  <2> QED
    BY <2>1, <2>2, <2>3
<1>2. IInv /\ [Next]_vars => [Rises]_vars
  BY <1>1
<1> QED
  BY <1>2, InductiveStart, Inductive, PTL DEF Spec, IncarnationsDiffer
=============================================================================
