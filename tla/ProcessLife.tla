----------------------------- MODULE ProcessLife -----------------------------
(***************************************************************************)
(* The life of one instance's process: Run (app/app.go) opens what the     *)
(* process needs, runProcess (app/runtime.go) binds the API and takes      *)
(* turns, runActive serves, and everything is closed in reverse.  Beside   *)
(* the main goroutine run the requests (app/server.go), the Passive        *)
(* composition and the loops of an activation.  Every fact is one step     *)
(* here: EventStorage has what publishing it takes.  Who owns the lease is *)
(* left open: Ownership has that.                                          *)
(***************************************************************************)
EXTENDS Naturals

CONSTANTS
  Request,    \* the requests that may be under way at once
  MaxEpoch    \* bound: incarnations begun by launches and activations

VARIABLES
  leased,     \* the machine deploys a Standby, so ownership is taken in turns
  pc,         \* where main is; named for the fact when it is stating one
  stop,       \* the process's context is cancelled
  up,         \* what Run has opened and must close
  listener,   \* the instance's listener
  returned,   \* Serve's outcome waits in instanceServer.stopped
  handler,    \* instanceServer.handler
  request,    \* how far each request is
  drained,    \* the last step-down's drain returned without an error
  overdue,    \* shutdown gave up on requests
  passive,    \* the goroutine of the Passive composition
  loops,      \* the activation's renewal and failback loops
  cancelled,  \* one of them stepped the activation down
  failed,     \* the activation's composition, or its release, returned an error
  disk, mem,  \* the epoch in the state file and in the Store
  epoch,      \* the epoch of the incarnation that is, or was last, acted on
  last        \* the fact the instance's record ends with

server     == <<listener, returned, handler>>
activation == <<loops, cancelled, failed>>
epochs     == <<disk, mem, epoch>>
vars == <<leased, pc, stop, up, server, request, drained, overdue, passive, activation, epochs, last>>

\* In the order they are opened; closed in reverse.
Opened == <<"publisher", "broker", "fabric", "health">>

\* Where main goes once the fact it states is accepted, and where if it is refused.
Then ==
  [epoch_advance_failed        |-> <<"leave", "leave">>,
   process_started             |-> <<"epoch_advanced", "leave">>,
   epoch_advanced              |-> <<"broker", "leave">>,
   event_fabric_start_failed   |-> <<"leave", "leave">>,
   event_fabric_started        |-> <<"health", "leave">>,
   service_health_start_failed |-> <<"leave", "leave">>,
   lease_open_failed           |-> <<"process_stopped", "process_stopped">>,
   api_listen_failed           |-> <<"process_stopped", "process_stopped">>,
   api_listening               |-> <<"manage", "shutdown">>,
   lease_opened                |-> <<"first_turn", "shutdown">>,
   ownership_waiting           |-> <<"start_passive", "shutdown">>,
   ownership_acquired          |-> <<"activation_started", "shutdown">>,
   activation_started          |-> <<"start_loops", "shutdown">>,
   activation_epoch_failed     |-> <<"fail", "fail">>,
   activation_epoch            |-> <<"swap", "fail">>,
   api_active                  |-> <<"serving", "retire_failed">>,
   api_stopped                 |-> <<"join", "fail">>,
   activation_ended            |-> <<"ended", "shutdown">>,
   process_stopped             |-> <<"leave", "leave">>]

\* Facts of the machine are refused once the process's context is cancelled.
MachineFacts == {"ownership_acquired", "activation_started", "activation_ended", "stepped_down"}

Where == DOMAIN Then \cup
  {"off", "advance", "broker", "client", "health", "lease", "listen", "manage", "first_turn",
   "turn", "start_passive", "passive", "won", "stop_waiting", "start_loops", "activate", "swap",
   "serving", "retire", "retire_failed", "drain", "join", "fail", "ended", "shutdown", "closing",
   "leave"}

Init ==
  /\ leased \in BOOLEAN
  /\ pc = "off" /\ stop = FALSE /\ up = {}
  /\ listener = "none" /\ returned = FALSE /\ handler = "passive"
  /\ request = [r \in Request |-> "none"] /\ drained = FALSE /\ overdue = FALSE
  /\ passive = "none" /\ loops = {} /\ cancelled = FALSE /\ failed = FALSE
  /\ disk = 0 /\ mem = 0 /\ epoch = 0 /\ last = "nothing"

Goto(from, to) == pc = from /\ pc' = to
\* A fact is in the record once it is accepted.
Accepted(fact) == ~(stop /\ fact \in MachineFacts) /\ last' = fact
BestEffort(fact) == Accepted(fact) \/ UNCHANGED last

Say ==
  /\ pc \in DOMAIN Then
  /\ \/ Accepted(pc) /\ pc' = Then[pc][1]
     \/ UNCHANGED last /\ pc' = Then[pc][2]
  /\ UNCHANGED <<leased, stop, up, server, request, drained, overdue, passive, activation, epochs>>

-----------------------------------------------------------------------------
(* The epoch. *)

\* Variant: an advance that could not be written is used all the same.
AdvanceUnwritten(fails) ==
  /\ mem' = mem + 1 /\ epoch' = mem + 1
  /\ disk' = IF fails THEN disk ELSE mem + 1

\* The file is replaced, then the record in memory.  A write that is reported as
\* failed may have replaced the file.
AdvanceEpoch(fails) ==
  IF fails
  THEN disk' \in {disk, mem + 1} /\ UNCHANGED <<mem, epoch>>
  ELSE disk' = mem + 1 /\ mem' = mem + 1 /\ epoch' = mem + 1

Advance == \E fails \in BOOLEAN :
  /\ \/ Goto("advance", IF fails THEN "epoch_advance_failed" ELSE "process_started")
     \/ Goto("activate", IF fails THEN "activation_epoch_failed" ELSE "activation_epoch")
  /\ AdvanceEpoch(fails)
  /\ UNCHANGED <<leased, stop, up, server, request, drained, overdue, passive, activation, last>>

-----------------------------------------------------------------------------
(* Start-up. *)

\* The record and the machine's file are opened, and the state file read.
Launch ==
  /\ Goto("off", "advance") /\ disk + 2 <= MaxEpoch
  /\ up' = {"publisher"} /\ mem' = disk
  /\ UNCHANGED <<leased, stop, server, request, drained, overdue, passive, activation, disk, epoch, last>>

Start ==
  /\ \/ Goto("broker", "client") /\ up' = up \cup {"broker"}
     \/ Goto("client", "event_fabric_started") /\ up' = up \cup {"fabric"}
     \/ pc \in {"broker", "client"} /\ pc' = "event_fabric_start_failed" /\ UNCHANGED up
     \/ Goto("health", "lease") /\ up' = up \cup {"health"}
     \/ Goto("health", "service_health_start_failed") /\ UNCHANGED up
     \/ Goto("lease", "listen") /\ UNCHANGED up
     \/ Goto("lease", "lease_open_failed") /\ UNCHANGED up
     \/ Goto("listen", "api_listen_failed") /\ UNCHANGED up
     \/ Goto("manage", IF leased THEN "lease_opened" ELSE "activation_started") /\ UNCHANGED up
  /\ UNCHANGED <<leased, stop, server, request, drained, overdue, passive, activation, epochs, last>>

Listen ==
  /\ Goto("listen", "api_listening")
  /\ listener' = "open" /\ UNCHANGED <<returned, handler>>
  /\ UNCHANGED <<leased, stop, up, request, drained, overdue, passive, activation, epochs, last>>

-----------------------------------------------------------------------------
(* Turns. *)

Free == mem < MaxEpoch   \* bound: no activation beyond it

Turn ==
  /\ \/ pc \in {"first_turn", "turn"} /\ pc' = IF stop THEN "shutdown" ELSE "ownership_waiting"
     \/ Goto("first_turn", "ownership_acquired") /\ ~stop /\ Free
     \/ Goto("first_turn", "shutdown")           \* the lease could not be read
  /\ UNCHANGED <<leased, stop, up, server, request, drained, overdue, passive, activation, epochs, last>>

StartPassive ==
  /\ Goto("start_passive", "passive") /\ passive' = "stating"
  /\ UNCHANGED <<leased, stop, up, server, request, drained, overdue, activation, epochs, last>>

\* runPassive states that it waits, and waits for its context to end.
PassiveGoes ==
  /\ \/ passive = "stating" /\ Accepted("standby_waiting") /\ passive' = "waiting"
     \/ passive = "stating" /\ passive' = "failed" /\ UNCHANGED last
     \/ /\ passive = "waiting" /\ (stop \/ pc \in {"won", "stop_waiting"})
        /\ passive' = "ended" /\ UNCHANGED last
  /\ UNCHANGED <<leased, pc, stop, up, server, request, drained, overdue, activation, epochs>>

Decline ==
  /\ pc = "passive" /\ BestEffort("promotion_declined")
  /\ UNCHANGED <<leased, pc, stop, up, server, request, drained, overdue, passive, activation, epochs>>

Promote ==
  /\ Goto("passive", "won") /\ Free
  /\ UNCHANGED <<leased, stop, up, server, request, drained, overdue, passive, activation, epochs, last>>

StopWaiting ==
  /\ stop /\ Goto("passive", "stop_waiting")
  /\ UNCHANGED <<leased, stop, up, server, request, drained, overdue, passive, activation, epochs, last>>

JoinPassive ==
  /\ passive \in {"failed", "ended"} /\ passive' = "none"
  /\ \/ pc \in {"passive", "stop_waiting"} /\ pc' = "shutdown"
     \/ pc = "won" /\ pc' = IF passive = "failed" THEN "shutdown" ELSE "ownership_acquired"
  /\ UNCHANGED <<leased, stop, up, server, request, drained, overdue, activation, epochs, last>>

-----------------------------------------------------------------------------
(* An activation. *)

StartLoops ==
  /\ Goto("start_loops", "activate")
  /\ loops' \in IF leased THEN {{"renewal"}, {"renewal", "failback"}} ELSE {{}}
  /\ cancelled' = FALSE /\ failed' = FALSE
  /\ UNCHANGED <<leased, stop, up, server, request, drained, overdue, passive, epochs, last>>

\* A loop states what it met, and may step the activation down.
LoopTicks(l) ==
  /\ l \in loops
  /\ \/ l = "renewal" /\ BestEffort("renewal_failed") /\ UNCHANGED <<loops, cancelled>>
     \/ BestEffort("stepped_down") /\ cancelled' = TRUE /\ loops' = loops \ {l}
  /\ UNCHANGED <<leased, pc, stop, up, server, request, drained, overdue, passive, failed, epochs>>

LoopEnds(l) ==
  /\ l \in loops /\ (stop \/ cancelled \/ pc \in {"join", "fail"})
  /\ loops' = loops \ {l}
  /\ UNCHANGED <<leased, pc, stop, up, server, request, drained, overdue, passive, cancelled, failed, epochs, last>>

\* serveWith, towards Active.
Swap ==
  /\ Goto("swap", "api_active") /\ handler' = "active" /\ drained' = FALSE
  /\ UNCHANGED <<leased, stop, up, listener, returned, request, overdue, passive, activation, epochs, last>>

\* Variant: the outcome of a listener that died is not put back.
HandBackNothing == returned' = FALSE

HandBack == UNCHANGED returned

\* Active serves until its listener dies or its context ends.
Serve ==
  /\ \/ Goto("serving", "retire_failed") /\ returned /\ HandBack
     \/ Goto("serving", "retire") /\ (stop \/ cancelled) /\ UNCHANGED returned
  /\ UNCHANGED <<leased, stop, up, listener, handler, request, drained, overdue, passive, activation, epochs, last>>

\* Variant: the Active handler keeps the listener while its requests drain.
RetiredLate == UNCHANGED handler

\* serveWith, back to Passive.
Retired == handler' = "passive"

Retire ==
  /\ \/ Goto("retire", "drain") /\ UNCHANGED failed
     \/ Goto("retire_failed", "drain") /\ failed' = TRUE
  /\ Retired
  /\ UNCHANGED <<leased, stop, up, listener, returned, request, drained, overdue, passive, loops, cancelled, epochs, last>>

InFlight == {r \in Request : request[r] \in {"counted", "passive", "active"}}

\* drain: a moment without a request in flight, or its time is up.
Drain ==
  /\ Goto("drain", "api_stopped")
  /\ IF InFlight = {} THEN drained' = TRUE /\ UNCHANGED failed
     ELSE failed' = TRUE /\ UNCHANGED drained
  /\ UNCHANGED <<leased, stop, up, server, request, overdue, passive, loops, cancelled, epochs, last>>

\* Variant: the loops are told to end and not waited for.
LoopsToldToEnd == TRUE

LoopsJoined == loops = {}

\* Active has returned: the loops are cancelled and joined, the lease released.
Join ==
  /\ pc \in {"join", "fail"} /\ pc' = "activation_ended"
  /\ LoopsJoined
  /\ \E released \in BOOLEAN : failed' = (failed \/ pc = "fail" \/ (leased /\ ~released))
  /\ UNCHANGED <<leased, stop, up, server, request, drained, overdue, passive, loops, cancelled, epochs, last>>

EndTurn ==
  /\ Goto("ended", IF leased /\ ~failed THEN "turn" ELSE "shutdown")
  /\ UNCHANGED <<leased, stop, up, server, request, drained, overdue, passive, activation, epochs, last>>

-----------------------------------------------------------------------------
(* The way out. *)

\* Variant: what is deferred by runProcess does not shut the server down.
ShutdownSkipped == Goto("shutdown", "process_stopped") /\ UNCHANGED server

\* shutdown closes the listener, which ends Serve.
ShutdownBegins ==
  /\ Goto("shutdown", "closing")
  /\ listener' = "closed" /\ returned' = (returned \/ listener = "open")
  /\ UNCHANGED handler

Shutdown ==
  /\ ShutdownBegins
  /\ UNCHANGED <<leased, stop, up, request, drained, overdue, passive, activation, epochs, last>>

\* It waits for the requests, or its time is up; then for Serve's outcome.
ShutdownEnds ==
  /\ Goto("closing", "process_stopped") /\ returned
  /\ returned' = FALSE
  /\ overdue' = \E r \in Request : request[r] # "none"
  /\ UNCHANGED <<leased, stop, up, listener, handler, request, drained, passive, activation, epochs, last>>

Gone ==
  /\ pc' = "off" /\ stop' = FALSE /\ up' = {}
  /\ listener' = "none" /\ returned' = FALSE /\ handler' = "passive"
  /\ request' = [r \in Request |-> "none"] /\ drained' = FALSE /\ overdue' = FALSE
  /\ passive' = "none" /\ loops' = {} /\ cancelled' = FALSE /\ failed' = FALSE

\* Run's deferred closes.
Unwind ==
  /\ pc = "leave"
  /\ IF up = {"publisher"}
     THEN Gone
     ELSE /\ \E n \in 2..4 :
               /\ Opened[n] \in up /\ \A k \in (n + 1)..4 : Opened[k] \notin up
               /\ up' = up \ {Opened[n]}
          /\ UNCHANGED <<pc, stop, server, request, drained, overdue, passive, activation>>
  /\ UNCHANGED <<leased, epochs, last>>

-----------------------------------------------------------------------------
(* Requests, the listener, and what happens to the process. *)

\* A connection is accepted; one that was kept alive outlives its listener.
Arrive(r) ==
  /\ listener \in {"open", "died"} /\ request[r] = "none"
  /\ request' = [request EXCEPT ![r] = "accepted"]
  /\ UNCHANGED <<leased, pc, stop, up, server, drained, overdue, passive, activation, epochs, last>>

\* ServeHTTP: counted, then handled by the handler of that moment, then uncounted.
ServeHTTP(r) ==
  /\ request[r] # "none"
  /\ request' = [request EXCEPT ![r] =
       IF @ = "accepted" THEN "counted" ELSE IF @ = "counted" THEN handler ELSE "none"]
  /\ UNCHANGED <<leased, pc, stop, up, server, drained, overdue, passive, activation, epochs, last>>

ListenerDies ==
  /\ listener = "open" /\ listener' = "died" /\ returned' = TRUE /\ UNCHANGED handler
  /\ UNCHANGED <<leased, pc, stop, up, request, drained, overdue, passive, activation, epochs, last>>

Interrupt ==
  /\ pc \notin {"off", "advance", "epoch_advance_failed"} /\ ~stop /\ stop' = TRUE
  /\ UNCHANGED <<leased, pc, up, server, request, drained, overdue, passive, activation, epochs, last>>

Crash ==
  /\ pc # "off" /\ Gone
  /\ disk' \in IF pc \in {"advance", "activate"} THEN {disk, mem + 1} ELSE {disk}
  /\ UNCHANGED <<leased, mem, epoch, last>>

Main ==
  \/ Say \/ Advance \/ Start \/ Listen
  \/ Turn \/ StartPassive \/ JoinPassive
  \/ StartLoops \/ Swap \/ Serve \/ Retire \/ Drain \/ Join \/ EndTurn
  \/ Shutdown \/ ShutdownEnds \/ Unwind

Next ==
  \/ Main \/ Launch \/ Decline \/ Promote \/ StopWaiting \/ PassiveGoes
  \/ \E l \in {"renewal", "failback"} : LoopTicks(l) \/ LoopEnds(l)
  \/ \E r \in Request : Arrive(r) \/ ServeHTTP(r)
  \/ ListenerDies \/ Interrupt \/ Crash

Spec == Init /\ [][Next]_vars

\* The goroutines go on, and none of the waits prefers a tick to the end of its
\* context.  A request may take as long as it likes.
Fairness ==
  /\ WF_vars(Main) /\ WF_vars(StopWaiting) /\ WF_vars(PassiveGoes)
  /\ \A l \in {"renewal", "failback"} : WF_vars(LoopEnds(l))

FairSpec == Spec /\ Fairness

-----------------------------------------------------------------------------
\* Once a step-down's drain succeeded, no request runs on the Active handler until
\* the next activation: not one that was accepted before the swap, counted during
\* the drain, or sent to the instance since.
RetiredHandlerIsQuiet == drained => \A r \in Request : request[r] # "active"

\* The fabric a handler asks about is closed only when no request can reach it,
\* whichever error ends the process, unless shutdown's time was up.
SiteOutlivesRequests ==
  (pc = "leave" /\ "fabric" \notin up /\ ~overdue) => \A r \in Request : request[r] = "none"

\* What a record says last of a process that left is that it stopped: the loops of
\* an activation, which state facts of their own, have ended before.
EndIsStatedLast ==
  [][last = "process_stopped" =>
       last' \in {"process_stopped", "process_started", "epoch_advance_failed"}]_vars

\* An incarnation acts under a higher epoch than every one before it, whatever
\* writes of the state file failed or were cut short in between.
IncarnationsDiffer ==
  [][pc # pc' /\ pc' \in {"process_started", "activation_epoch"} => epoch' > epoch]_vars

\* A process that is asked to stop does, whatever it is doing, whatever it could
\* not state, and however its listener ended.
StopEndsTheProcess == stop ~> pc = "off"
=============================================================================
