------------------------- MODULE EventStorageProofs -------------------------
(***************************************************************************)
(* For any number of instances, threads, publications and faults: Close    *)
(* cuts nothing off, and what was accepted is in the files.                *)
(***************************************************************************)
EXTENDS EventStorage, FiniteSetTheorems, TLAPS

\* A publication that was admitted is counted until it leaves.
Counted == \A i \in Instance, t \in Thread : call[i][t] # Idle => t \in inFlight[i]

\* A backend is closed only once nothing is admitted any more and nothing is
\* left of what was.
ClosedIsQuiet == \A i \in Instance : open[i] = Backends \/ (closed[i] /\ inFlight[i] = {})

In(f, fact) == fact \in lines[f] \cup glued[f]

\* What a publication has stored without an error is in the file it stored it in.
StoredIsThere ==
  \A i \in Instance, t \in Thread :
    /\ call[i][t].at \in {"wrap", "log", "machine", "return"} => call[i][t].fact.by = i
    /\ call[i][t].at \in {"machine", "return"} /\ ~call[i][t].failed
         => In(i, call[i][t].fact)
    /\ call[i][t].at = "return" /\ ~call[i][t].failed /\ call[i][t].fact.scope = "machine"
         => In(Machine, call[i][t].fact)

AcceptedIsThere ==
  \A fact \in accepted :
    In(fact.by, fact) /\ (fact.scope = "machine" => In(Machine, fact))

\* A torn line has not been used up yet.
TearsAccountFor ==
  \A f \in Files :
    /\ IsFiniteSet(glued[f])
    /\ Cardinality(glued[f]) + (IF f \in torn THEN 1 ELSE 0) <= tears[f]

IInv == TypeOK /\ Counted /\ ClosedIsQuiet /\ StoredIsThere /\ AcceptedIsThere /\ TearsAccountFor

-----------------------------------------------------------------------------
\* A thread that is doing something is publishing a fact.
LEMMA CallTyped ==
  ASSUME TypeOK, NEW i \in Instance, NEW t \in Thread, NEW step, step # "idle", At(i, t, step)
  PROVE  /\ call[i][t].fact \in Fact /\ call[i][t].failed \in BOOLEAN
         /\ call[i][t] \in [at : {"wrap", "log", "machine", "return"}, fact : Fact, failed : BOOLEAN]
         /\ call[i][t] # Idle /\ call[i][t].at = step
<1>1. call[i][t] \in Calls
  BY DEF TypeOK
<1>2. call[i][t] # Idle
  BY DEF At, Idle
<1> QED
  BY <1>1, <1>2 DEF Calls, At

\* Landing a line adds it to its file and keeps everything else there.
LEMMA LandAdds ==
  ASSUME TypeOK, NEW f \in Files, NEW fact \in Fact, Land(f, fact)
  PROVE  /\ In(f, fact)'
         /\ \A g \in Files, other \in Fact : In(g, other) => In(g, other)'
         /\ lines' \in [Files -> SUBSET Fact] /\ glued' \in [Files -> SUBSET Fact]
         /\ torn' \in SUBSET Files /\ tears' \in [Files -> Nat]
<1>1. CASE f \in torn
  <2>1. lines' = lines /\ glued' = [glued EXCEPT ![f] = @ \cup {fact}]
    BY <1>1 DEF Land
  <2>2. torn' \in SUBSET Files /\ tears' \in [Files -> Nat]
    BY DEF Land, TypeOK
  <2> QED
    BY <2>1, <2>2 DEF In, TypeOK
<1>2. CASE f \notin torn
  <2>1. glued' = glued /\ lines' = [lines EXCEPT ![f] = @ \cup {fact}]
    BY <1>2 DEF Land
  <2>2. torn' \in SUBSET Files /\ tears' \in [Files -> Nat]
    BY DEF Land, TypeOK
  <2> QED
    BY <2>1, <2>2 DEF In, TypeOK
<1> QED
  BY <1>1, <1>2

LEMMA LandAccounts ==
  ASSUME TypeOK, TearsAccountFor, NEW f \in Files, NEW fact \in Fact, Land(f, fact)
  PROVE  TearsAccountFor'
<1> SUFFICES ASSUME NEW g \in Files
             PROVE  /\ IsFiniteSet(glued'[g])
                    /\ Cardinality(glued'[g]) + (IF g \in torn' THEN 1 ELSE 0) <= tears'[g]
  BY DEF TearsAccountFor
<1>1. IsFiniteSet(glued[g]) /\ Cardinality(glued[g]) \in Nat /\ tears[g] \in Nat
  BY FS_CardinalityType DEF TearsAccountFor, TypeOK
<1>2. CASE g = f /\ f \in torn
  <2>1. glued'[g] = glued[g] \cup {fact} /\ torn' = torn \ {f} /\ tears' = tears
    BY <1>2 DEF Land, TypeOK
  <2> DEFINE more == glued[g] \cup {fact}
  <2>4. /\ IsFiniteSet(more)
        /\ \/ Cardinality(more) = Cardinality(glued[g])
           \/ Cardinality(more) = Cardinality(glued[g]) + 1
    BY <1>1, FS_AddElement
  <2>2. IsFiniteSet(glued'[g]) /\ Cardinality(glued'[g]) <= Cardinality(glued[g]) + 1
    BY <1>1, <2>1, <2>4
  <2>3. Cardinality(glued'[g]) \in Nat
    BY <2>2, FS_CardinalityType
  <2> QED
    BY <1>1, <1>2, <2>1, <2>2, <2>3 DEF TearsAccountFor
<1>3. CASE ~(g = f /\ f \in torn)
  <2>1. glued'[g] = glued[g] /\ tears' = tears /\ (g \in torn' => g \in torn)
    BY <1>3 DEF Land, TypeOK
  <2> QED
    BY <1>1, <2>1 DEF TearsAccountFor
<1> QED
  BY <1>2, <1>3

\* A torn write adds no line and takes none away.
LEMMA TearKeeps ==
  ASSUME TypeOK, TearsAccountFor, NEW f \in Files, Tear(f), UNCHANGED <<lines, glued>>
  PROVE  /\ \A g \in Files, other \in Fact : In(g, other) => In(g, other)'
         /\ torn' \in SUBSET Files /\ tears' \in [Files -> Nat]
         /\ TearsAccountFor'
<1>1. torn' \in SUBSET Files /\ tears' \in [Files -> Nat]
  BY DEF Tear, TypeOK
<1>2. TearsAccountFor'
  <2> SUFFICES ASSUME NEW g \in Files
               PROVE  /\ IsFiniteSet(glued[g])
                      /\ Cardinality(glued[g]) + (IF g \in torn' THEN 1 ELSE 0) <= tears'[g]
    BY DEF TearsAccountFor
  <2>1. IsFiniteSet(glued[g]) /\ Cardinality(glued[g]) \in Nat /\ tears[g] \in Nat
    BY FS_CardinalityType DEF TearsAccountFor, TypeOK
  <2> QED
    BY <2>1 DEF Tear, TypeOK, TearsAccountFor
<1> QED
  BY <1>1, <1>2 DEF In

\* What one append leaves behind, however it went.
LEMMA AppendResult ==
  ASSUME TypeOK, TearsAccountFor, NEW i \in Instance, NEW t \in Thread, NEW f \in Files,
         NEW step \in {"log", "machine"}, NEW next \in {"machine", "return"},
         At(i, t, step), AppendLine(i, t, f, next)
  PROVE  /\ \E failed \in BOOLEAN :
              Goes(i, t, next, failed)
                /\ (~failed => call[i][t].fact \in lines'[f] \cup glued'[f])
         /\ \A g \in Files, other \in Fact : In(g, other) => In(g, other)'
         /\ lines' \in [Files -> SUBSET Fact] /\ glued' \in [Files -> SUBSET Fact]
         /\ torn' \in SUBSET Files /\ tears' \in [Files -> Nat]
         /\ TearsAccountFor'
         /\ faults' \in 0..MaxFaults
<1>1. PICK fact \in Fact : fact = call[i][t].fact
  BY CallTyped
<1>2. UNCHANGED faults \/ Spend
  BY DEF AppendLine
<1>3. faults' \in 0..MaxFaults
  BY <1>2, StorageAssumption DEF Spend, TypeOK
<1>4. CASE Land(f, fact)
  <2>1. \E failed \in BOOLEAN : Goes(i, t, next, failed)
    BY DEF AppendLine
  <2> QED
    BY <1>1, <1>3, <1>4, <2>1, LandAdds, LandAccounts DEF In
<1>5. CASE Tear(f) /\ UNCHANGED <<lines, glued>> /\ Goes(i, t, next, TRUE)
  <2>1. lines' \in [Files -> SUBSET Fact] /\ glued' \in [Files -> SUBSET Fact]
    BY <1>5 DEF TypeOK
  <2> QED
    BY <1>3, <1>5, <2>1, TearKeeps
<1> QED
  BY <1>1, <1>4, <1>5 DEF AppendLine

\* A call's update touches no other thread's.
LEMMA SetCallChanges ==
  ASSUME TypeOK, NEW i \in Instance, NEW t \in Thread, NEW c \in Calls, SetCall(i, t, c)
  PROVE  /\ call' \in [Instance -> [Thread -> Calls]]
         /\ call'[i][t] = c
         /\ \A j \in Instance, u \in Thread : j # i \/ u # t => call'[j][u] = call[j][u]
BY DEF SetCall, TypeOK

LEMMA GoesChanges ==
  ASSUME TypeOK, NEW i \in Instance, NEW t \in Thread,
         NEW step \in {"wrap", "log", "machine"}, At(i, t, step),
         NEW next \in {"log", "machine", "return"}, NEW failed \in BOOLEAN,
         Goes(i, t, next, failed)
  PROVE  /\ call' \in [Instance -> [Thread -> Calls]]
         /\ call'[i][t].at = next /\ call'[i][t].fact = call[i][t].fact
         /\ call'[i][t].failed = (call[i][t].failed \/ failed)
         /\ call'[i][t] # Idle
         /\ \A j \in Instance, u \in Thread : j # i \/ u # t => call'[j][u] = call[j][u]
<1> DEFINE c == [call[i][t] EXCEPT !.at = next, !.failed = @ \/ failed]
<1>1. call[i][t] \in [at : {"wrap", "log", "machine", "return"}, fact : Fact, failed : BOOLEAN]
  BY CallTyped
<1>2. c \in [at : {"wrap", "log", "machine", "return"}, fact : Fact, failed : BOOLEAN]
  BY <1>1
<1>3. c.at = next /\ c.fact = call[i][t].fact /\ c.failed = (call[i][t].failed \/ failed)
  BY <1>1
<1>4. c \in Calls /\ c # Idle
  BY <1>2, <1>3 DEF Calls, Idle
<1>5. SetCall(i, t, c)
  BY DEF Goes
<1> HIDE DEF c
<1> QED
  BY <1>3, <1>4, <1>5, SetCallChanges

\* A step that keeps every line keeps what rests on them.
LEMMA LinesKept ==
  ASSUME IInv, \A g \in Files, other \in Fact : In(g, other) => In(g, other)'
  PROVE  /\ \A fact \in accepted :
              In(fact.by, fact)' /\ (fact.scope = "machine" => In(Machine, fact)')
         /\ \A i \in Instance, t \in Thread : call[i][t] # Idle =>
              /\ call[i][t].at \in {"machine", "return"} /\ ~call[i][t].failed
                   => call[i][t].fact \in lines'[i] \cup glued'[i]
              /\ call[i][t].at = "return" /\ ~call[i][t].failed /\ call[i][t].fact.scope = "machine"
                   => call[i][t].fact \in lines'[Machine] \cup glued'[Machine]
<1>1. \A fact \in accepted : fact \in Fact /\ fact.by \in Instance
  BY DEF IInv, TypeOK, Fact
<1>2. \A fact \in accepted : fact.by \in Files
  BY <1>1 DEF Files
<1>3. \A i \in Instance, t \in Thread : call[i][t] # Idle => call[i][t].fact \in Fact
  BY DEF IInv, TypeOK, Calls
<1>4. Machine \in Files /\ \A i \in Instance : i \in Files
  BY DEF Files
<1>5. \A fact \in accepted : In(fact.by, fact)' /\ (fact.scope = "machine" => In(Machine, fact)')
  BY <1>1, <1>2, <1>4 DEF IInv, AcceptedIsThere
<1>6. ASSUME NEW i \in Instance, NEW t \in Thread, call[i][t] # Idle
      PROVE  /\ call[i][t].at \in {"machine", "return"} /\ ~call[i][t].failed
                  => call[i][t].fact \in lines'[i] \cup glued'[i]
             /\ call[i][t].at = "return" /\ ~call[i][t].failed /\ call[i][t].fact.scope = "machine"
                  => call[i][t].fact \in lines'[Machine] \cup glued'[Machine]
  <2>1. call[i][t].fact \in Fact
    BY <1>3, <1>6
  <2>2. call[i][t].at \in {"machine", "return"} /\ ~call[i][t].failed => In(i, call[i][t].fact)
    BY DEF IInv, StoredIsThere
  <2>3. call[i][t].at = "return" /\ ~call[i][t].failed /\ call[i][t].fact.scope = "machine"
          => In(Machine, call[i][t].fact)
    BY DEF IInv, StoredIsThere
  <2>4. In(i, call[i][t].fact) => call[i][t].fact \in lines'[i] \cup glued'[i]
    BY <1>4, <2>1 DEF In
  <2>5. In(Machine, call[i][t].fact) => call[i][t].fact \in lines'[Machine] \cup glued'[Machine]
    BY <1>4, <2>1 DEF In
  <2>6. call[i][t].at \in {"machine", "return"} /\ ~call[i][t].failed
          => call[i][t].fact \in lines'[i] \cup glued'[i]
    BY <2>2, <2>4
  <2>7. call[i][t].at = "return" /\ ~call[i][t].failed /\ call[i][t].fact.scope = "machine"
          => call[i][t].fact \in lines'[Machine] \cup glued'[Machine]
    BY <2>3, <2>5
  <2> QED
    BY <2>6, <2>7
<1> QED
  BY <1>5, <1>6, Zenon

LEMMA InductiveStart == Init => IInv
<1> SUFFICES ASSUME Init PROVE IInv
  OBVIOUS
<1>1. TypeOK
  BY StorageAssumption DEF Init, TypeOK, Calls, Files, Backends
<1>2. TearsAccountFor
  BY FS_EmptySet DEF Init, TearsAccountFor
<1>3. StoredIsThere
  BY DEF Init, StoredIsThere, Idle
<1> QED
  BY <1>1, <1>2, <1>3 DEF Init, IInv, Counted, ClosedIsQuiet, AcceptedIsThere

\* Steps that leave the files alone.
LEMMA PublishKeeps ==
  ASSUME IInv, NEW i \in Instance, NEW t \in Thread, Publish(i, t)
  PROVE  IInv'
<1> USE DEF IInv, files, threads
<1>1. said' \in [Instance -> [Thread -> Nat]]
  BY DEF Publish, TypeOK
<1>2. CASE closed[i]
  <2>1. TypeOK'
    BY <1>1, <1>2 DEF Publish, TypeOK
  <2> QED
    BY <1>2, <2>1 DEF Publish, Counted, ClosedIsQuiet, StoredIsThere, AcceptedIsThere,
                      TearsAccountFor, In
<1>3. CASE ~closed[i]
  <2>0. PICK scope \in Scope :
          SetCall(i, t, [at |-> "wrap", failed |-> FALSE,
            fact |-> [by |-> i, thread |-> t, number |-> said[i][t] + 1, scope |-> scope]])
    BY <1>3 DEF Publish
  <2> DEFINE fact == [by |-> i, thread |-> t, number |-> said[i][t] + 1, scope |-> scope]
             c == [at |-> "wrap", failed |-> FALSE, fact |-> fact]
  <2>8. fact \in Fact
    BY DEF Fact, TypeOK
  <2>1. /\ c.at = "wrap" /\ c.fact.by = i /\ SetCall(i, t, c)
        /\ c \in [at : {"wrap", "log", "machine", "return"}, fact : Fact, failed : BOOLEAN]
    BY <2>0, <2>8
  <2> HIDE DEF c
  <2>2. c \in Calls
    BY <2>1 DEF Calls
  <2>3. Admit(i, t)
    BY <1>3 DEF Publish
  <2>4. TypeOK'
    BY <1>1, <2>1, <2>2, <2>3, SetCallChanges DEF Publish, Admit, TypeOK
  <2>5. Counted'
    BY <2>1, <2>2, <2>3, SetCallChanges DEF Admit, Counted, TypeOK
  <2>6. ClosedIsQuiet'
    BY <1>3, <2>3 DEF Publish, Admit, ClosedIsQuiet, TypeOK
  <2>7. StoredIsThere'
    BY <2>1, <2>2, SetCallChanges DEF Publish, StoredIsThere, In
  <2> QED
    BY <2>4, <2>5, <2>6, <2>7 DEF Publish, AcceptedIsThere, TearsAccountFor, In
<1> QED
  BY <1>2, <1>3

LEMMA WrapKeeps ==
  ASSUME IInv, NEW i \in Instance, NEW t \in Thread, Wrap(i, t)
  PROVE  IInv'
<1> USE DEF IInv, files, threads
<1>1. CASE Goes(i, t, "log", FALSE) /\ UNCHANGED <<inFlight, faults>>
  <2>1. At(i, t, "wrap") /\ call[i][t] # Idle /\ call[i][t].at = "wrap"
    BY CallTyped DEF Wrap
  <2>2. /\ call' \in [Instance -> [Thread -> Calls]]
        /\ call'[i][t].at = "log" /\ call'[i][t].fact = call[i][t].fact
        /\ \A j \in Instance, u \in Thread : j # i \/ u # t => call'[j][u] = call[j][u]
    BY <1>1, <2>1, GoesChanges
  <2>3. TypeOK'
    BY <1>1, <2>2 DEF Wrap, TypeOK
  <2>4. Counted'
    BY <1>1, <2>1, <2>2 DEF Counted
  <2>5. StoredIsThere'
    BY <2>1, <2>2 DEF Wrap, StoredIsThere, In
  <2> QED
    BY <1>1, <2>3, <2>4, <2>5 DEF Wrap, ClosedIsQuiet, AcceptedIsThere, TearsAccountFor, In
<1>2. CASE Spend /\ Leave(i, t) /\ SetCall(i, t, Idle)
  <2>1. Idle \in Calls
    BY DEF Calls
  <2>2. faults' \in 0..MaxFaults
    BY <1>2, StorageAssumption DEF Spend, TypeOK
  <2>3. TypeOK'
    BY <1>2, <2>1, <2>2, SetCallChanges DEF Wrap, Leave, TypeOK
  <2>4. Counted'
    BY <1>2, <2>1, SetCallChanges DEF Leave, Counted, TypeOK
  <2>5. ClosedIsQuiet'
    BY <1>2 DEF Wrap, Leave, ClosedIsQuiet, TypeOK
  <2>6. StoredIsThere'
    BY <1>2, <2>1, SetCallChanges DEF Wrap, StoredIsThere, In, Idle
  <2> QED
    BY <2>3, <2>4, <2>5, <2>6 DEF Wrap, AcceptedIsThere, TearsAccountFor, In
<1> QED
  BY <1>1, <1>2 DEF Wrap

\* An append by a call at the given step: the part common to both files.
LEMMA AppendKeeps ==
  ASSUME IInv, NEW i \in Instance, NEW t \in Thread, NEW f \in Files,
         NEW step \in {"log", "machine"}, NEW next \in {"machine", "return"},
         At(i, t, step), AppendLine(i, t, f, next),
         UNCHANGED <<up, ended, closed, inFlight, open, said, accepted>>
  PROVE  /\ TypeOK' /\ Counted' /\ ClosedIsQuiet' /\ AcceptedIsThere' /\ TearsAccountFor'
         /\ \A j \in Instance, u \in Thread : j # i \/ u # t => call'[j][u] = call[j][u]
         /\ call[i][t].at = step /\ call[i][t] # Idle
         /\ call'[i][t].at = next /\ call'[i][t].fact = call[i][t].fact
         /\ \A g \in Files, other \in Fact : In(g, other) => In(g, other)'
         /\ ~call'[i][t].failed =>
              ~call[i][t].failed /\ call[i][t].fact \in lines'[f] \cup glued'[f]
<1> USE DEF IInv
<1>1. PICK failed \in BOOLEAN :
        Goes(i, t, next, failed) /\ (~failed => call[i][t].fact \in lines'[f] \cup glued'[f])
  BY AppendResult
<1>2. /\ call' \in [Instance -> [Thread -> Calls]]
      /\ call'[i][t].at = next /\ call'[i][t].fact = call[i][t].fact
      /\ call'[i][t].failed = (call[i][t].failed \/ failed)
      /\ \A j \in Instance, u \in Thread : j # i \/ u # t => call'[j][u] = call[j][u]
  BY <1>1, GoesChanges
<1>3. call[i][t].at = step /\ call[i][t] # Idle /\ call[i][t].failed \in BOOLEAN
  BY CallTyped
<1>4. /\ \A g \in Files, other \in Fact : In(g, other) => In(g, other)'
      /\ lines' \in [Files -> SUBSET Fact] /\ glued' \in [Files -> SUBSET Fact]
      /\ torn' \in SUBSET Files /\ tears' \in [Files -> Nat]
      /\ TearsAccountFor' /\ faults' \in 0..MaxFaults
  BY AppendResult
<1>5. TypeOK'
  BY <1>2, <1>4 DEF TypeOK
<1>6. Counted' /\ ClosedIsQuiet'
  BY <1>2, <1>3 DEF Counted, ClosedIsQuiet
<1>7. AcceptedIsThere'
  BY <1>4, LinesKept DEF AcceptedIsThere
<1>8. ~call'[i][t].failed =>
        ~call[i][t].failed /\ call[i][t].fact \in lines'[f] \cup glued'[f]
  BY <1>1, <1>2, <1>3, Zenon
<1> QED
  BY <1>2, <1>3, <1>4, <1>5, <1>6, <1>7, <1>8

LEMMA StoreLogKeeps ==
  ASSUME IInv, NEW i \in Instance, NEW t \in Thread, StoreLog(i, t)
  PROVE  IInv'
<1> USE DEF IInv, files, threads
<1>1. At(i, t, "log") /\ call[i][t] # Idle /\ call[i][t].at = "log" /\ i \in Files
  BY CallTyped DEF StoreLog, Files
<1>2. CASE "log" \in open[i]
  <2>1. AppendLine(i, t, i, "machine") /\ UNCHANGED <<up, ended, closed, inFlight, open, said, accepted>>
    BY <1>2 DEF StoreLog
  <2>2. /\ TypeOK' /\ Counted' /\ ClosedIsQuiet' /\ AcceptedIsThere' /\ TearsAccountFor'
        /\ \A j \in Instance, u \in Thread : j # i \/ u # t => call'[j][u] = call[j][u]
        /\ call'[i][t].at = "machine" /\ call'[i][t].fact = call[i][t].fact
        /\ \A g \in Files, other \in Fact : In(g, other) => In(g, other)'
        /\ ~call'[i][t].failed => call[i][t].fact \in lines'[i] \cup glued'[i]
    BY <1>1, <2>1, AppendKeeps
  <2>3. StoredIsThere'
    <3> SUFFICES ASSUME NEW j \in Instance, NEW u \in Thread
        PROVE  /\ call'[j][u].at \in {"wrap", "log", "machine", "return"} => call'[j][u].fact.by = j
               /\ call'[j][u].at \in {"machine", "return"} /\ ~call'[j][u].failed
                    => call'[j][u].fact \in lines'[j] \cup glued'[j]
               /\ call'[j][u].at = "return" /\ ~call'[j][u].failed /\ call'[j][u].fact.scope = "machine"
                    => call'[j][u].fact \in lines'[Machine] \cup glued'[Machine]
      BY DEF StoredIsThere, In
    <3>1. CASE j = i /\ u = t
      BY <1>1, <2>2, <3>1 DEF StoredIsThere
    <3>2. CASE (j # i \/ u # t) /\ call[j][u] # Idle
      BY <2>2, <3>2, LinesKept DEF StoredIsThere
    <3>3. CASE (j # i \/ u # t) /\ call[j][u] = Idle
      BY <2>2, <3>3 DEF Idle
    <3> QED
      BY <3>1, <3>2, <3>3
  <2> QED
    BY <2>2, <2>3
<1>3. CASE "log" \notin open[i]
  <2>1. open[i] # Backends /\ t \in inFlight[i]
    BY <1>1, <1>3 DEF Backends, Counted
  <2> QED
    BY <2>1 DEF ClosedIsQuiet
<1> QED
  BY <1>2, <1>3

LEMMA StoreMachineKeeps ==
  ASSUME IInv, NEW i \in Instance, NEW t \in Thread, StoreMachine(i, t)
  PROVE  IInv'
<1> USE DEF IInv, files, threads
<1>1. /\ At(i, t, "machine") /\ call[i][t] # Idle /\ call[i][t].at = "machine"
      /\ call[i][t] \in [at : {"wrap", "log", "machine", "return"}, fact : Fact, failed : BOOLEAN]
      /\ Machine \in Files
  BY CallTyped DEF StoreMachine, Files
<1>2. /\ call[i][t].fact.by = i
      /\ ~call[i][t].failed => call[i][t].fact \in lines[i] \cup glued[i]
  BY <1>1 DEF StoredIsThere, In
<1>3. CASE /\ call[i][t].fact.scope = "machine"
           /\ AppendLine(i, t, Machine, "return")
  <2>1. UNCHANGED <<up, ended, closed, inFlight, open, said, accepted>>
    BY DEF StoreMachine
  <2>2. /\ TypeOK' /\ Counted' /\ ClosedIsQuiet' /\ AcceptedIsThere' /\ TearsAccountFor'
        /\ \A j \in Instance, u \in Thread : j # i \/ u # t => call'[j][u] = call[j][u]
        /\ call'[i][t].at = "return" /\ call'[i][t].fact = call[i][t].fact
        /\ \A g \in Files, other \in Fact : In(g, other) => In(g, other)'
        /\ ~call'[i][t].failed =>
             ~call[i][t].failed /\ call[i][t].fact \in lines'[Machine] \cup glued'[Machine]
    BY <1>1, <1>3, <2>1, AppendKeeps
  <2>3. ~call[i][t].failed => call[i][t].fact \in lines'[i] \cup glued'[i]
    BY <1>1, <2>2, LinesKept
  <2>4. StoredIsThere'
    <3> SUFFICES ASSUME NEW j \in Instance, NEW u \in Thread
        PROVE  /\ call'[j][u].at \in {"wrap", "log", "machine", "return"} => call'[j][u].fact.by = j
               /\ call'[j][u].at \in {"machine", "return"} /\ ~call'[j][u].failed
                    => call'[j][u].fact \in lines'[j] \cup glued'[j]
               /\ call'[j][u].at = "return" /\ ~call'[j][u].failed /\ call'[j][u].fact.scope = "machine"
                    => call'[j][u].fact \in lines'[Machine] \cup glued'[Machine]
      BY DEF StoredIsThere, In
    <3>1. CASE j = i /\ u = t
      BY <1>2, <2>2, <2>3, <3>1
    <3>2. CASE (j # i \/ u # t) /\ call[j][u] # Idle
      BY <2>2, <3>2, LinesKept DEF StoredIsThere
    <3>3. CASE (j # i \/ u # t) /\ call[j][u] = Idle
      BY <2>2, <3>3 DEF Idle
    <3> QED
      BY <3>1, <3>2, <3>3
  <2> QED
    BY <2>2, <2>4
<1>4. CASE /\ UNCHANGED <<files, faults>>
           /\ \E failed \in BOOLEAN : Goes(i, t, "return", failed)
                 /\ (~failed => call[i][t].fact.scope # "machine")
  <2>1. PICK failed \in BOOLEAN : Goes(i, t, "return", failed)
                 /\ (~failed => call[i][t].fact.scope # "machine")
    BY <1>4
  <2>2. /\ call' \in [Instance -> [Thread -> Calls]]
        /\ call'[i][t].at = "return" /\ call'[i][t].fact = call[i][t].fact
        /\ call'[i][t].failed = (call[i][t].failed \/ failed)
        /\ \A j \in Instance, u \in Thread : j # i \/ u # t => call'[j][u] = call[j][u]
    BY <1>1, <2>1, GoesChanges
  <2>3. ~call'[i][t].failed => ~call[i][t].failed /\ call[i][t].fact.scope # "machine"
    BY <1>1, <2>1, <2>2, Zenon
  <2>4. TypeOK'
    BY <1>4, <2>2 DEF StoreMachine, TypeOK
  <2>5. Counted'
    BY <1>1, <2>2 DEF StoreMachine, Counted
  <2>6. StoredIsThere'
    BY <1>1, <1>2, <1>4, <2>2, <2>3 DEF StoreMachine, StoredIsThere, In
  <2> QED
    BY <1>4, <2>4, <2>5, <2>6 DEF StoreMachine, ClosedIsQuiet, AcceptedIsThere, TearsAccountFor, In
<1>5. Outcome(i, t) = call[i][t]
  BY DEF Outcome
<1>6. CASE call[i][t].fact.scope # "machine"
  <2>1. SetCall(i, t, [call[i][t] EXCEPT !.at = "return"]) /\ UNCHANGED <<files, faults>>
    BY <1>5, <1>6 DEF StoreMachine
  <2>2. [call[i][t] EXCEPT !.at = "return"] = [call[i][t] EXCEPT !.at = "return", !.failed = @ \/ FALSE]
    BY <1>1
  <2>3. Goes(i, t, "return", FALSE)
    BY <2>1, <2>2 DEF Goes
  <2> QED
    BY <1>4, <1>6, <2>1, <2>3
<1>7. CASE call[i][t].fact.scope = "machine"
  BY <1>3, <1>4, <1>5, <1>7 DEF StoreMachine
<1> QED
  BY <1>6, <1>7

LEMMA ReturnKeeps ==
  ASSUME IInv, NEW i \in Instance, NEW t \in Thread, Return(i, t)
  PROVE  IInv'
<1> USE DEF IInv, files, threads
<1>1. /\ At(i, t, "return") /\ call[i][t].at = "return" /\ call[i][t].fact \in Fact
      /\ Idle \in Calls /\ SetCall(i, t, Idle) /\ Leave(i, t)
  BY CallTyped DEF Return, Calls
<1>2. call[i][t].fact.by = i
  BY <1>1 DEF StoredIsThere
<1>3. /\ call' \in [Instance -> [Thread -> Calls]] /\ call'[i][t] = Idle
      /\ \A j \in Instance, u \in Thread : j # i \/ u # t => call'[j][u] = call[j][u]
  BY <1>1, SetCallChanges
<1>4. TypeOK'
  <2>1. inFlight' \in [Instance -> SUBSET Thread]
    BY <1>1 DEF Leave, TypeOK
  <2>2. accepted' \in SUBSET Fact
    BY <1>1 DEF Return, TypeOK
  <2> QED
    BY <1>3, <2>1, <2>2 DEF Return, TypeOK
<1>5. Counted'
  BY <1>1, <1>3 DEF Leave, Counted, TypeOK
<1>6. ClosedIsQuiet'
  BY <1>1 DEF Return, Leave, ClosedIsQuiet, TypeOK
<1>7. StoredIsThere'
  BY <1>3 DEF Return, StoredIsThere, In, Idle
<1>8. AcceptedIsThere'
  <2>1. CASE call[i][t].failed
    BY <2>1 DEF Return, AcceptedIsThere, In
  <2>2. CASE ~call[i][t].failed
    <3>1. accepted' = accepted \cup {call[i][t].fact}
      BY <2>2 DEF Return
    <3>2. In(i, call[i][t].fact) /\ (call[i][t].fact.scope = "machine" => In(Machine, call[i][t].fact))
      BY <1>1, <2>2 DEF StoredIsThere
    <3> QED
      BY <1>2, <3>1, <3>2 DEF Return, AcceptedIsThere, In
  <2> QED
    BY <2>1, <2>2
<1> QED
  BY <1>4, <1>5, <1>6, <1>7, <1>8 DEF Return, TearsAccountFor

\* The steps of main and the machine: none of them writes a line.
LEMMA CloseKeeps ==
  ASSUME IInv, NEW i \in Instance, End(i) \/ Close(i) \/ CloseBackend(i)
  PROVE  IInv'
<1> USE DEF IInv, files, threads
<1>1. UNCHANGED <<call, said, lines, glued, torn, tears, accepted, faults, inFlight, up>>
  BY DEF End, Close, CloseBackend
<1>2. TypeOK'
  <2>1. CASE End(i)
    BY <1>1, <2>1 DEF End, TypeOK
  <2>2. CASE Close(i)
    BY <1>1, <2>2 DEF Close, TypeOK
  <2>3. CASE CloseBackend(i)
    <3>1. {} \in SUBSET Backends /\ {"log"} \in SUBSET Backends
      BY DEF Backends
    <3>2. open' \in [Instance -> SUBSET Backends]
      <4>1. PICK left \in SUBSET Backends : open' = [open EXCEPT ![i] = left]
        BY <2>3, <3>1 DEF CloseBackend
      <4> QED
        BY <4>1 DEF TypeOK
    <3> QED
      BY <1>1, <2>3, <3>2 DEF CloseBackend, TypeOK
  <2> QED
    BY <2>1, <2>2, <2>3
<1>3. ClosedIsQuiet'
  BY <1>1 DEF End, Close, CloseBackend, ClosedIsQuiet, TypeOK
<1> QED
  BY <1>1, <1>2, <1>3 DEF Counted, StoredIsThere, AcceptedIsThere, TearsAccountFor, In

LEMMA CrashKeeps ==
  ASSUME IInv, NEW i \in Instance, Crash(i)
  PROVE  IInv'
<1> USE DEF IInv, files, threads
<1>1. /\ call' \in [Instance -> [Thread -> Calls]]
      /\ \A u \in Thread : call'[i][u] = Idle
      /\ \A j \in Instance \ {i}, u \in Thread : call'[j][u] = call[j][u]
  BY DEF Crash, TypeOK, Calls
<1>2. faults' \in 0..MaxFaults
  BY StorageAssumption DEF Crash, Spend, TypeOK
<1>3. i \in Files /\ Machine \in Files
  BY DEF Files
<1>4. /\ UNCHANGED <<lines, glued>>
      /\ torn' \in SUBSET Files /\ tears' \in [Files -> Nat] /\ TearsAccountFor'
  <2>1. CASE UNCHANGED files
    BY <2>1 DEF TypeOK, TearsAccountFor
  <2>2. CASE (Tear(i) \/ Tear(Machine)) /\ UNCHANGED <<lines, glued>>
    BY <1>3, <2>2, TearKeeps
  <2> QED
    BY <2>1, <2>2 DEF Crash
<1>5. TypeOK'
  BY <1>1, <1>2, <1>4 DEF Crash, TypeOK
<1>6. Counted'
  BY <1>1 DEF Crash, Counted, TypeOK
<1>7. ClosedIsQuiet'
  BY DEF Crash, ClosedIsQuiet, TypeOK
<1>8. StoredIsThere'
  BY <1>1, <1>4 DEF StoredIsThere, In, Idle
<1> QED
  BY <1>4, <1>5, <1>6, <1>7, <1>8 DEF Crash, AcceptedIsThere, In

LEMMA RestartKeeps ==
  ASSUME IInv, NEW i \in Instance, Restart(i)
  PROVE  IInv'
<1> USE DEF IInv, files, threads
<1>1. /\ call' \in [Instance -> [Thread -> Calls]]
      /\ \A u \in Thread : call'[i][u] = Idle
      /\ \A j \in Instance \ {i}, u \in Thread : call'[j][u] = call[j][u]
  BY DEF Restart, TypeOK, Calls
<1>2. TypeOK'
  BY <1>1 DEF Restart, TypeOK
<1>3. Counted'
  BY <1>1 DEF Restart, Counted, TypeOK
<1>4. ClosedIsQuiet'
  BY DEF Restart, ClosedIsQuiet, TypeOK
<1>5. StoredIsThere'
  BY <1>1 DEF Restart, StoredIsThere, In, Idle
<1> QED
  BY <1>2, <1>3, <1>4, <1>5 DEF Restart, AcceptedIsThere, TearsAccountFor, In

LEMMA Inductive == IInv /\ [Next]_vars => IInv'
<1> SUFFICES ASSUME IInv, [Next]_vars PROVE IInv'
  OBVIOUS
<1>1. CASE UNCHANGED vars
  BY <1>1 DEF vars, files, threads, IInv, TypeOK, Counted, ClosedIsQuiet, StoredIsThere,
              AcceptedIsThere, TearsAccountFor, In
<1>2. CASE Next
  BY <1>2, PublishKeeps, WrapKeeps, StoreLogKeeps, StoreMachineKeeps, ReturnKeeps,
     CloseKeeps, CrashKeeps, RestartKeeps DEF Next, Work
<1> QED
  BY <1>1, <1>2

LEMMA QuietOutlives == IInv => BackendsOutlivePublications
<1> SUFFICES ASSUME IInv, NEW i \in Instance, NEW t \in Thread,
                    call[i][t].at \in {"log", "machine"}
             PROVE  open[i] = Backends
  BY DEF BackendsOutlivePublications
<1>1. t \in inFlight[i]
  BY DEF IInv, Counted, Idle
<1> QED
  BY <1>1 DEF IInv, ClosedIsQuiet

LEMMA ThereIsRecorded == IInv => AcceptedIsRecorded
<1> SUFFICES ASSUME IInv PROVE AcceptedIsRecorded
  OBVIOUS
<1>1. \A f \in Files : Cardinality(glued[f]) <= tears[f]
  <2> SUFFICES ASSUME NEW f \in Files PROVE Cardinality(glued[f]) <= tears[f]
    OBVIOUS
  <2>1. Cardinality(glued[f]) \in Nat /\ tears[f] \in Nat
    BY FS_CardinalityType DEF IInv, TearsAccountFor, TypeOK
  <2> QED
    BY <2>1 DEF IInv, TearsAccountFor
<1> QED
  BY <1>1 DEF IInv, AcceptedIsThere, AcceptedIsRecorded, In

\* However Publish and Close interleave, and whatever crashes: a publication that
\* is being stored finds every backend open.
THEOREM BackendsAlwaysOutlivePublications == Spec => []BackendsOutlivePublications
BY InductiveStart, Inductive, QuietOutlives, PTL DEF Spec

\* Whatever is cut short or crashes: an accepted fact is in its log and, if the
\* machine owns it, in the machine's file, and each torn write spoils at most one
\* later line.
THEOREM AcceptedIsAlwaysRecorded == Spec => []AcceptedIsRecorded
BY InductiveStart, Inductive, ThereIsRecorded, PTL DEF Spec

=============================================================================
