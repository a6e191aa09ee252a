---------------------------- MODULE EventStorage ----------------------------
(***************************************************************************)
(* A machine's two instances state facts through their own publishers      *)
(* (events/storage): each into its own event log (instance/eventlog), the  *)
(* machine-scoped ones also into the file both instances append to         *)
(* (machine/eventstore).  A write may be cut short, a process may crash in *)
(* the middle of one, and Close may be called while publications run.      *)
(***************************************************************************)
EXTENDS Naturals, FiniteSets

CONSTANTS
  Instance,   \* the machine's instances; an instance also names its event log
  Machine,    \* the machine's shared event file
  Thread,     \* the goroutines of a process that publish
  MaxFacts,   \* bound: publications begun by each thread of each instance
  MaxFaults   \* bound: writes cut short, failed syncs, refused stamps and crashes

ASSUME StorageAssumption == 
  Machine \notin Instance /\ MaxFacts \in [Instance -> [Thread -> Nat]] /\ MaxFaults \in Nat

VARIABLES
  up,        \* the instance has a process
  ended,     \* its context is cancelled
  closed,    \* Publisher.closed
  inFlight,  \* the publications Publisher.inFlight counts
  open,      \* the backends whose file handle is open
  call,      \* what each thread's Publish is doing
  said,      \* publications begun by each thread
  lines,     \* per file: the facts on a line of their own
  glued,     \* per file: the facts whose line was appended to a torn one
  torn,      \* the files whose last line has no end
  tears,     \* per file: how often that happened
  accepted,  \* the facts Publish returned nil for
  faults

threads == <<call, said>>
files   == <<lines, glued, torn, tears>>
vars    == <<up, ended, closed, inFlight, open, threads, files, accepted, faults>>

Files == Instance \cup {Machine}
Scope == {"instance", "machine"}
Fact == [by : Instance, thread : Thread, number : Nat, scope : Scope]

Backends == {"log", "machine"}
Idle == [at |-> "idle"]
Calls == {Idle} \cup [at : {"wrap", "log", "machine", "return"}, fact : Fact, failed : BOOLEAN]

TypeOK ==
  /\ up \in [Instance -> BOOLEAN] /\ ended \in [Instance -> BOOLEAN]
  /\ closed \in [Instance -> BOOLEAN]
  /\ inFlight \in [Instance -> SUBSET Thread]
  /\ open \in [Instance -> SUBSET Backends]
  /\ call \in [Instance -> [Thread -> Calls]]
  /\ said \in [Instance -> [Thread -> Nat]]
  /\ lines \in [Files -> SUBSET Fact] /\ glued \in [Files -> SUBSET Fact]
  /\ torn \in SUBSET Files /\ tears \in [Files -> Nat]
  /\ accepted \in SUBSET Fact
  /\ faults \in 0..MaxFaults

Init ==
  /\ up = [i \in Instance |-> TRUE] /\ ended = [i \in Instance |-> FALSE]
  /\ closed = [i \in Instance |-> FALSE]
  /\ inFlight = [i \in Instance |-> {}]
  /\ open = [i \in Instance |-> Backends]
  /\ call = [i \in Instance |-> [t \in Thread |-> Idle]]
  /\ said = [i \in Instance |-> [t \in Thread |-> 0]]
  /\ lines = [f \in Files |-> {}] /\ glued = [f \in Files |-> {}]
  /\ torn = {} /\ tears = [f \in Files |-> 0]
  /\ accepted = {} /\ faults = 0

Spend == faults < MaxFaults /\ faults' = faults + 1
At(i, t, step) == up[i] /\ call[i][t].at = step
SetCall(i, t, c) == call' = [call EXCEPT ![i][t] = c]
Goes(i, t, step, failed) ==
  SetCall(i, t, [call[i][t] EXCEPT !.at = step, !.failed = @ \/ failed])

\* Variant: a publication is not counted.
AdmitUncounted(i, t) == UNCHANGED inFlight

Admit(i, t) == inFlight' = [inFlight EXCEPT ![i] = @ \cup {t}]

\* Publish: the closed flag is read and the publication counted under one lock.
Publish(i, t) ==
  /\ At(i, t, "idle") /\ said[i][t] < MaxFacts[i][t]
  /\ said' = [said EXCEPT ![i][t] = @ + 1]
  /\ IF closed[i]
     THEN UNCHANGED <<call, inFlight>>
     ELSE /\ Admit(i, t)
          /\ \E scope \in Scope :
               SetCall(i, t, [at |-> "wrap", failed |-> FALSE,
                 fact |-> [by |-> i, thread |-> t, number |-> said[i][t] + 1, scope |-> scope]])
  /\ UNCHANGED <<up, ended, closed, open, files, accepted, faults>>

\* Variant: a publication that could not be stamped is never taken off the count.
LeaveOnlyStored(i, t) ==
  IF call[i][t].at = "wrap" THEN UNCHANGED inFlight
  ELSE inFlight' = [inFlight EXCEPT ![i] = @ \ {t}]

\* The deferred Done, on every way out of Publish.
Leave(i, t) == inFlight' = [inFlight EXCEPT ![i] = @ \ {t}]

\* The factory stamps the fact, or refuses it.
Wrap(i, t) ==
  /\ At(i, t, "wrap")
  /\ \/ Goes(i, t, "log", FALSE) /\ UNCHANGED <<inFlight, faults>>
     \/ Spend /\ Leave(i, t) /\ SetCall(i, t, Idle)
  /\ UNCHANGED <<up, ended, closed, open, said, files, accepted>>

\* One append to f: the whole line and the sync; the line without the sync; or
\* the beginning of the line, when the write was cut short. What follows a torn
\* line is on it.
Tear(f) == torn' = torn \cup {f} /\ tears' = [tears EXCEPT ![f] = @ + 1]
Land(f, fact) ==
  /\ IF f \in torn
     THEN glued' = [glued EXCEPT ![f] = @ \cup {fact}] /\ UNCHANGED lines
     ELSE lines' = [lines EXCEPT ![f] = @ \cup {fact}] /\ UNCHANGED glued
  /\ torn' = torn \ {f} /\ UNCHANGED tears

AppendLine(i, t, f, next) ==
  LET fact == call[i][t].fact
  IN \/ Land(f, fact) /\ Goes(i, t, next, FALSE) /\ UNCHANGED faults
     \/ Spend /\ Goes(i, t, next, TRUE)
        /\ (Land(f, fact) \/ (Tear(f) /\ UNCHANGED <<lines, glued>>))

\* The event log takes every fact, whatever the context says.
StoreLog(i, t) ==
  /\ At(i, t, "log")
  /\ IF "log" \in open[i]
     THEN AppendLine(i, t, i, "machine")
     ELSE Goes(i, t, "machine", TRUE) /\ UNCHANGED <<files, faults>>
  /\ UNCHANGED <<up, ended, closed, inFlight, open, said, accepted>>

\* Variant: the outcome is that of the backend called last.
OutcomeOfLast(i, t) == [call[i][t] EXCEPT !.failed = FALSE]

\* The errors of both backends are joined.
Outcome(i, t) == call[i][t]

\* The machine's store ignores a fact of any other scope, and refuses one whose
\* context has ended.
StoreMachine(i, t) ==
  /\ At(i, t, "machine")
  /\ IF Outcome(i, t).fact.scope # "machine"
     THEN SetCall(i, t, [Outcome(i, t) EXCEPT !.at = "return"]) /\ UNCHANGED <<files, faults>>
     ELSE IF ended[i] \/ "machine" \notin open[i]
     THEN Goes(i, t, "return", TRUE) /\ UNCHANGED <<files, faults>>
     ELSE AppendLine(i, t, Machine, "return")
  /\ UNCHANGED <<up, ended, closed, inFlight, open, said, accepted>>

Return(i, t) ==
  /\ At(i, t, "return")
  /\ accepted' = IF call[i][t].failed THEN accepted ELSE accepted \cup {call[i][t].fact}
  /\ Leave(i, t) /\ SetCall(i, t, Idle)
  /\ UNCHANGED <<up, ended, closed, open, said, files, faults>>

\* The process is asked to stop.
End(i) ==
  /\ up[i] /\ ~ended[i]
  /\ ended' = [ended EXCEPT ![i] = TRUE]
  /\ UNCHANGED <<up, closed, inFlight, open, threads, files, accepted, faults>>

\* Close: refuse from now on, wait for what was admitted, then close the backends
\* in reverse order.
Close(i) ==
  /\ up[i] /\ ended[i] /\ ~closed[i]
  /\ closed' = [closed EXCEPT ![i] = TRUE]
  /\ UNCHANGED <<up, ended, inFlight, open, threads, files, accepted, faults>>

CloseBackend(i) ==
  /\ up[i] /\ closed[i] /\ inFlight[i] = {}
  /\ \/ open[i] = Backends /\ open' = [open EXCEPT ![i] = {"log"}]
     \/ open[i] = {"log"} /\ open' = [open EXCEPT ![i] = {}]
  /\ UNCHANGED <<up, ended, closed, inFlight, threads, files, accepted, faults>>

\* The process is killed: a thread at a write may have begun its line.
Crash(i) ==
  /\ up[i] /\ Spend
  /\ \/ UNCHANGED files
     \/ \E t \in Thread :
          /\ \/ At(i, t, "log") /\ "log" \in open[i] /\ Tear(i)
             \/ /\ At(i, t, "machine") /\ "machine" \in open[i] /\ ~ended[i]
                /\ call[i][t].fact.scope = "machine" /\ Tear(Machine)
          /\ UNCHANGED <<lines, glued>>
  /\ up' = [up EXCEPT ![i] = FALSE] /\ ended' = [ended EXCEPT ![i] = TRUE]
  /\ closed' = [closed EXCEPT ![i] = TRUE]
  /\ inFlight' = [inFlight EXCEPT ![i] = {}] /\ open' = [open EXCEPT ![i] = {}]
  /\ call' = [call EXCEPT ![i] = [t \in Thread |-> Idle]]
  /\ UNCHANGED <<said, accepted>>

\* A new process opens both files for append. It does not look at what is there.
Restart(i) ==
  /\ open[i] = {}
  /\ up' = [up EXCEPT ![i] = TRUE] /\ ended' = [ended EXCEPT ![i] = FALSE]
  /\ closed' = [closed EXCEPT ![i] = FALSE]
  /\ inFlight' = [inFlight EXCEPT ![i] = {}]
  /\ open' = [open EXCEPT ![i] = Backends]
  /\ call' = [call EXCEPT ![i] = [t \in Thread |-> Idle]]
  /\ UNCHANGED <<said, files, accepted, faults>>

Work(i, t) == Wrap(i, t) \/ StoreLog(i, t) \/ StoreMachine(i, t) \/ Return(i, t)

Next == \E i \in Instance :
  \/ \E t \in Thread : Publish(i, t) \/ Work(i, t)
  \/ End(i) \/ Close(i) \/ CloseBackend(i) \/ Crash(i) \/ Restart(i)

Spec == Init /\ [][Next]_vars

\* A thread that was admitted goes on, and the main goroutine closes.
Fairness == \A i \in Instance :
  /\ \A t \in Thread : WF_vars(Work(i, t))
  /\ WF_vars(CloseBackend(i))

FairSpec == Spec /\ Fairness

-----------------------------------------------------------------------------
\* Close never cuts off a publication it admitted: whatever the interleaving of
\* Publish and Close, a publication that is being stored has both backends open.
BackendsOutlivePublications ==
  \A i \in Instance, t \in Thread :
    call[i][t].at \in {"log", "machine"} => open[i] = Backends

\* A fact Publish accepted is in the stating instance's log and, if the machine
\* owns it, in the machine's file, on a line of its own - or on the one line
\* each torn write spoils, which for the machine's file may be a line the other
\* instance tore.
AcceptedIsRecorded ==
  /\ \A fact \in accepted :
       /\ fact \in lines[fact.by] \cup glued[fact.by]
       /\ fact.scope = "machine" => fact \in lines[Machine] \cup glued[Machine]
  /\ \A f \in Files : Cardinality(glued[f]) <= tears[f]

\* Close comes to an end: every publication it waits for does, also those that
\* were refused after they were admitted.
CloseCompletes ==
  \A i \in Instance : closed[i] ~> open[i] = {}

=============================================================================
