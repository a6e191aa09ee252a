----------------------------- MODULE SuiteProofs -----------------------------
(***************************************************************************)
(* The suite's budget and build slots, ports and processes, proved for     *)
(* every number of scenarios, whatever they weigh and however often they   *)
(* are run again or cancelled: a semaphore counts exactly what its holders *)
(* hold and lets nobody wait for room that is there, no port is given      *)
(* twice, and no process outlives its scenario's share.                    *)
(*                                                                         *)
(* Sums over the queue and over sets of scenarios are reasoned about with  *)
(* a least counterexample, which takes the place of induction.             *)
(***************************************************************************)
EXTENDS Suite, WellFoundedInduction, FiniteSetTheorems, TLAPS

-----------------------------------------------------------------------------
(* Least elements, which stand in for induction, and sums. *)

LEMMA LeastOf ==
  ASSUME NEW T, T \subseteq Nat, T # {}
  PROVE  \E m \in T : \A n \in T : m <= n
<1> DEFINE R == OpToRel(<, Nat)
<1>1. IsWellFoundedOn(R, Nat)
  BY NatLessThanWellFounded
<1>2. PICK m \in T : \A n \in T : ~(<<n, m>> \in R)
  <2> HIDE DEF R
  <2> QED  BY <1>1, WFMin
<1>3. \A n \in T : ~(n < m)
  BY <1>2 DEF OpToRel
<1> QED  BY <1>3

\* A set of natural numbers below a bound has a largest.
LEMMA MaxOf ==
  ASSUME NEW n \in Nat, NEW K, K \subseteq 0 .. n, K # {}
  PROVE  Max(K) \in K /\ \A j \in K : j <= Max(K)
<1>1. PICK m \in {n - j : j \in K} : \A x \in {n - j : j \in K} : m <= x
  <2>1. \A j \in K : n - j \in Nat
    OBVIOUS
  <2>2. {n - j : j \in K} \subseteq Nat
    BY <2>1
  <2>3. {n - j : j \in K} # {}
    OBVIOUS
  <2> QED  BY <2>2, <2>3, LeastOf
<1>2. PICK k \in K : m = n - k
  BY <1>1
<1>3. \A j \in K : k >= j
  BY <1>1, <1>2
<1> QED  BY <1>3 DEF Max

\* F adds a up to each of its arguments.
SumsUp(F, a, n) ==
  F \in [0 .. n -> Nat] /\ F[0] = 0 /\ \A j \in 1 .. n : F[j] = F[j - 1] + a[j]

LEMMA PrefixSums ==
  ASSUME NEW n \in Nat, NEW a, \A j \in 1 .. n : a[j] \in Nat
  PROVE  \E F : SumsUp(F, a, n)
<1> DEFINE Bad == {k \in 0 .. n : ~\E F : SumsUp(F, a, k)}
<1> SUFFICES ASSUME Bad # {} PROVE FALSE
  OBVIOUS
<1>1. PICK m \in Bad : \A k \in Bad : m <= k
  <2>1. Bad \subseteq Nat
    OBVIOUS
  <2> HIDE DEF Bad
  <2> QED  BY <2>1, LeastOf
<1>2. m # 0
  <2>1. SumsUp([j \in 0 .. 0 |-> 0], a, 0)
    BY DEF SumsUp
  <2> QED  BY <1>1, <2>1
<1>3. PICK F : SumsUp(F, a, m - 1)
  BY <1>1, <1>2
<1> DEFINE G == [j \in 0 .. m |-> IF j = m THEN F[m - 1] + a[m] ELSE F[j]]
<1>4. SumsUp(G, a, m)
  <2>1. /\ m \in Nat /\ m - 1 \in Nat /\ m - 1 \in 0 .. m - 1 /\ m \in 1 .. n
        /\ F \in [0 .. m - 1 -> Nat] /\ F[0] = 0
        /\ \A j \in 1 .. m - 1 : F[j] = F[j - 1] + a[j]
    BY <1>1, <1>2, <1>3 DEF SumsUp
  <2>2. F[m - 1] + a[m] \in Nat
    BY <2>1
  <2>3. G \in [0 .. m -> Nat] /\ G[0] = 0
    BY <2>1, <2>2, <1>2
  <2>4. ASSUME NEW j \in 1 .. m PROVE G[j] = G[j - 1] + a[j]
    <3>1. CASE j = m
      BY <2>1, <3>1
    <3>2. CASE j # m
      <4>1. j \in 1 .. m - 1 /\ j - 1 \in 0 .. m /\ j - 1 # m
        BY <2>1, <3>2
      <4> QED  BY <2>1, <3>2, <4>1
    <3> QED  BY <3>1, <3>2
  <2> HIDE DEF G
  <2> QED  BY <2>3, <2>4 DEF SumsUp
<1> QED  BY <1>1, <1>4

-----------------------------------------------------------------------------
(* The semaphore. *)

Waiter == [who : Scenario, n : Nat]
Amounts(q) == [j \in DOMAIN q.waiters |-> q.waiters[j].n]

\* What the recursion of Wanted computes.
LEMMA WantedAddsUp ==
  ASSUME NEW q, q.waiters \in Seq(Waiter),
         NEW F, SumsUp(F, Amounts(q), Len(q.waiters)),
         NEW k \in 0 .. Len(q.waiters)
  PROVE  Wanted(q, k) = F[k]
<1> DEFINE Sum(f) == f = [j \in 0 .. k |-> IF j = 0 THEN 0 ELSE f[j - 1] + q.waiters[j].n]
           c == CHOOSE f : Sum(f)
           Bad == {j \in 0 .. k : c[j] # F[j]}
<1>1. \A j \in 1 .. k : F[j] = F[j - 1] + q.waiters[j].n
  <2>1. \A j \in 1 .. k : j \in DOMAIN q.waiters /\ j \in 1 .. Len(q.waiters)
    OBVIOUS
  <2> QED  BY <2>1 DEF SumsUp, Amounts
<1>2. Sum([j \in 0 .. k |-> F[j]])
  BY <1>1 DEF SumsUp
<1>3. Sum(c)
  BY <1>2
<1>4. Bad = {}
  <2> SUFFICES ASSUME Bad # {} PROVE FALSE
    OBVIOUS
  <2>1. PICK m \in Bad : \A j \in Bad : m <= j
    <3>1. Bad \subseteq Nat
      OBVIOUS
    <3> HIDE DEF Bad
    <3> QED  BY <3>1, LeastOf
  <2> HIDE DEF c
  <2>2. m # 0 /\ m \in 1 .. k
    BY <1>3, <2>1 DEF SumsUp
  <2>3. c[m - 1] = F[m - 1]
    BY <2>1, <2>2
  <2> QED  BY <1>1, <1>3, <2>1, <2>2, <2>3
<1>5. Wanted(q, k) = c[k]
  BY DEF Wanted
<1> QED  BY <1>4, <1>5

\* M measures sets of scenarios by the weights w.
Measure(M, w) ==
  /\ M \in [SUBSET Scenario -> Nat]
  /\ M[{}] = 0
  /\ \A T \in SUBSET Scenario : \A x \in Scenario \ T : M[T \cup {x}] = M[T] + w[x]

Queued(q) == {q.waiters[j].who : j \in 1 .. Len(q.waiters)}

\* Semaphore q is held by H and waited for by W: it counts what its holders and
\* those it has granted weigh, and it counts no more than it has.
Sound(q, w, M, H, W) ==
  /\ q \in [max : Nat, cur : Nat, waiters : Seq(Waiter), ready : SUBSET Scenario]
  /\ w \in [Scenario -> 0 .. q.max]
  /\ H \in SUBSET Scenario /\ W \in SUBSET Scenario /\ H \cap W = {}
  /\ W = q.ready \cup Queued(q) /\ q.ready \cap Queued(q) = {}
  /\ \A j, k \in 1 .. Len(q.waiters) : q.waiters[j].who = q.waiters[k].who => j = k
  /\ \A j \in 1 .. Len(q.waiters) : q.waiters[j].n = w[q.waiters[j].who]
  /\ q.cur = M[H \cup q.ready]
  /\ q.cur <= q.max

\* The head of the queue does not fit.
Full(q) == q.waiters # <<>> => q.cur + Head(q.waiters).n > q.max

\* Granting waiters from the head, up to the first that does not fit.
LEMMA NotifiedSound ==
  ASSUME NEW w, NEW M, Measure(M, w), NEW q, NEW H, NEW W, Sound(q, w, M, H, W)
  PROVE  Sound(Notified(q), w, M, H, W) /\ Full(Notified(q)) /\ Notified(q).max = q.max
<1> DEFINE n == Len(q.waiters)
           who(j) == q.waiters[j].who
           Upto(j) == {who(i) : i \in 1 .. j}
<1>1. /\ q.waiters \in Seq(Waiter) /\ n \in Nat /\ q.cur \in Nat /\ q.max \in Nat
      /\ \A j \in 1 .. n : who(j) \in Scenario /\ q.waiters[j].n \in Nat
      /\ q.ready \in SUBSET Scenario /\ H \in SUBSET Scenario
      /\ n = Len(q.waiters)
  <2>1. q \in [max : Nat, cur : Nat, waiters : Seq(Waiter), ready : SUBSET Scenario]
    BY DEF Sound
  <2>2. /\ q.waiters \in Seq(Waiter) /\ q.cur \in Nat /\ q.max \in Nat
        /\ q.ready \in SUBSET Scenario
    BY <2>1
  <2>3. \A j \in 1 .. n : q.waiters[j] \in Waiter
    BY <2>2
  <2>4. \A j \in 1 .. n : who(j) \in Scenario /\ q.waiters[j].n \in Nat
    BY <2>3 DEF Waiter
  <2> QED  BY <2>2, <2>4 DEF Sound
<1>2. PICK F : SumsUp(F, Amounts(q), n)
  <2>1. \A j \in 1 .. n : Amounts(q)[j] \in Nat
    BY <1>1 DEF Amounts
  <2> QED  BY <1>1, <2>1, PrefixSums
<1>3. /\ F \in [0 .. n -> Nat] /\ F[0] = 0
      /\ \A j \in 1 .. n : F[j] = F[j - 1] + q.waiters[j].n
  <2>1. \A j \in 1 .. n : Amounts(q)[j] = q.waiters[j].n
    BY <1>1 DEF Amounts
  <2> QED  BY <1>1, <1>2, <2>1 DEF SumsUp
<1>4. \A j \in 0 .. n : Wanted(q, j) = F[j]
  BY <1>1, <1>2, WantedAddsUp
<1> DEFINE K == {0} \cup {j \in 1 .. n : q.cur + Wanted(q, j) <= q.max}
           k == Max(K)
<1>5. k \in K /\ \A j \in K : j <= k
  <2>1. K \subseteq 0 .. n /\ K # {}
    BY <1>1
  <2> HIDE DEF K
  <2> QED  BY <1>1, <2>1, MaxOf
<1>6. k \in 0 .. n /\ q.cur + F[k] <= q.max
  <2>1. CASE k = 0
    <3>1. q.cur <= q.max
      BY DEF Sound
    <3> QED  BY <1>1, <1>3, <2>1, <3>1
  <2>2. CASE k # 0
    <3> HIDE DEF k
    <3>1. k \in 1 .. n /\ q.cur + Wanted(q, k) <= q.max
      BY <1>5, <2>2
    <3> QED  BY <1>1, <1>4, <3>1
  <2> QED  BY <2>1, <2>2
<1>7. k < n => q.cur + F[k + 1] > q.max
  <2> SUFFICES ASSUME k < n, ~(q.cur + F[k + 1] > q.max) PROVE FALSE
    OBVIOUS
  <2> HIDE DEF k
  <2> HIDE DEF K, n
  <2>1. k + 1 \in 1 .. n /\ F[k + 1] \in Nat
    <3>1. k \in Nat /\ n \in Nat /\ k <= n
      BY <1>1, <1>6
    <3>2. k + 1 \in 1 .. n
      BY <3>1
    <3> QED  BY <1>3, <3>2
  <2>2. k + 1 \in K
    <3>1. q.cur + Wanted(q, k + 1) <= q.max
      BY <1>1, <1>4, <2>1
    <3> QED  BY <2>1, <3>1 DEF K
  <2> QED  BY <1>5, <1>6, <2>2
<1> HIDE DEF k, K
<1>8. Notified(q) = [q EXCEPT !.cur = @ + Wanted(q, k),
                             !.ready = @ \cup Upto(k),
                             !.waiters = SubSeq(@, k + 1, Len(@))]
  BY DEF Notified, k, K
<1> DEFINE p == Notified(q)
<1>9. /\ p.max = q.max /\ p.cur = q.cur + F[k] /\ p.ready = q.ready \cup Upto(k)
      /\ p.waiters = SubSeq(q.waiters, k + 1, n)
      /\ p = [max |-> p.max, cur |-> p.cur, waiters |-> p.waiters, ready |-> p.ready]
  BY <1>4, <1>6, <1>8 DEF Sound
<1> HIDE DEF p
<1>10. /\ p.waiters \in Seq(Waiter) /\ Len(p.waiters) = n - k
       /\ \A j \in 1 .. n - k : p.waiters[j] = q.waiters[j + k]
  <2> DEFINE s == q.waiters
  <2>1. s \in Seq(Waiter) /\ n = Len(s) /\ n \in Nat /\ k \in Nat /\ k <= n
    BY <1>1, <1>6
  <2> HIDE DEF n, s
  <2>2. /\ SubSeq(s, k + 1, n) \in Seq(Waiter) /\ Len(SubSeq(s, k + 1, n)) = n - k
    BY <2>1
  <2>3. ASSUME NEW j \in 1 .. n - k PROVE SubSeq(s, k + 1, n)[j] = s[j + k]
    <3>1. j \in 1 .. n - (k + 1) + 1 /\ (k + 1) + j - 1 = j + k
      BY <2>1
    <3> QED  BY <2>1, <3>1
  <2>4. p.waiters = SubSeq(s, k + 1, n)
    BY <1>9 DEF s
  <2> QED  BY <2>2, <2>3, <2>4 DEF s
<1>11. \A j \in 1 .. n : who(j) \in Scenario \ (H \cup q.ready)
  BY <1>1 DEF Sound, Queued
<1>12. \A i, j \in 1 .. n : who(i) = who(j) => i = j
  BY DEF Sound
<1>13. \A j \in 0 .. n : M[H \cup q.ready \cup Upto(j)] = q.cur + F[j]
  <2> DEFINE Bad == {j \in 0 .. n : M[H \cup q.ready \cup Upto(j)] # q.cur + F[j]}
  <2> SUFFICES ASSUME Bad # {} PROVE FALSE
    OBVIOUS
  <2>1. PICK m \in Bad : \A j \in Bad : m <= j
    <3>1. Bad \subseteq Nat
      OBVIOUS
    <3> HIDE DEF Bad
    <3> QED  BY <3>1, LeastOf
  <2>2. m # 0
    <3>1. Upto(0) = {}
      OBVIOUS
    <3>2. M[H \cup q.ready \cup {}] = q.cur + F[0]
      BY <1>1, <1>3 DEF Sound
    <3> QED  BY <2>1, <3>1, <3>2
  <2>3. m \in 1 .. n /\ m - 1 \in 0 .. n /\ m - 1 \notin Bad
    <3>1. m \in 0 .. n
      BY <2>1
    <3> HIDE DEF Bad, n
    <3> QED  BY <1>1, <2>1, <2>2, <3>1
  <2>4. M[H \cup q.ready \cup Upto(m - 1)] = q.cur + F[m - 1]
    BY <2>3
  <2>5. Upto(m) = Upto(m - 1) \cup {who(m)}
    BY <1>1, <2>3
  <2>6. who(m) \notin Upto(m - 1)
    <3>1. ASSUME NEW i \in 1 .. m - 1 PROVE who(i) # who(m)
      <4>1. i \in 1 .. n /\ i # m
        <5> HIDE DEF n
        <5> QED  BY <1>1, <2>3
      <4> QED  BY <1>12, <2>3, <4>1
    <3> QED  BY <3>1
  <2>7. Upto(m - 1) \subseteq Scenario
    BY <1>1, <2>3
  <2>8. who(m) \in Scenario \ (H \cup q.ready \cup Upto(m - 1))
    BY <1>11, <2>3, <2>6
  <2>9. M[(H \cup q.ready \cup Upto(m - 1)) \cup {who(m)}]
          = M[H \cup q.ready \cup Upto(m - 1)] + w[who(m)]
    <3>1. H \cup q.ready \cup Upto(m - 1) \in SUBSET Scenario
      BY <1>1, <2>7
    <3> HIDE DEF Upto, who
    <3> QED  BY <2>8, <3>1 DEF Measure
  <2>10. w[who(m)] = q.waiters[m].n /\ F[m] = F[m - 1] + q.waiters[m].n
    BY <1>3, <2>3 DEF Sound
  <2>11. H \cup q.ready \cup Upto(m) = (H \cup q.ready \cup Upto(m - 1)) \cup {who(m)}
    BY <2>5
  <2>12. /\ q.cur \in Nat /\ F[m - 1] \in Nat /\ F[m] \in Nat /\ q.waiters[m].n \in Nat
    BY <1>1, <1>3, <2>3
  <2>13. M[H \cup q.ready \cup Upto(m)] = q.cur + F[m]
    <3> DEFINE A == M[H \cup q.ready \cup Upto(m - 1)]
    <3>1. M[H \cup q.ready \cup Upto(m)] = A + w[who(m)]
      BY <2>9, <2>11
    <3>2. A = q.cur + F[m - 1]
      BY <2>4
    <3> HIDE DEF A, Upto, who
    <3> QED  BY <2>10, <2>12, <3>1, <3>2
  <2> QED  BY <2>1, <2>13
<1> HIDE DEF n
<1>14. Queued(p) = {who(j) : j \in k + 1 .. n}
  <2>1. Queued(p) \subseteq {who(j) : j \in k + 1 .. n}
    <3>1. ASSUME NEW j \in 1 .. n - k PROVE p.waiters[j].who \in {who(i) : i \in k + 1 .. n}
      <4>1. j + k \in k + 1 .. n
        BY <1>1, <1>6
      <4>2. p.waiters[j].who = who(j + k)
        BY <1>10
      <4> HIDE DEF who
      <4> QED  BY <4>1, <4>2
    <3> HIDE DEF who
    <3> QED  BY <1>10, <3>1 DEF Queued
  <2>2. ASSUME NEW j \in k + 1 .. n PROVE who(j) \in Queued(p)
    <3>1. j - k \in 1 .. n - k /\ (j - k) + k = j
      BY <1>1, <1>6
    <3>2. p.waiters[j - k] = q.waiters[j]
      BY <1>10, <3>1
    <3> QED  BY <1>10, <3>1, <3>2 DEF Queued
  <2> QED  BY <2>1, <2>2
<1>15. Upto(k) \cup Queued(p) = Queued(q) /\ Upto(k) \cap Queued(p) = {}
  <2>1. Queued(q) = {who(j) : j \in 1 .. n}
    BY <1>1 DEF Queued
  <2>2. \A j : j \in 1 .. n <=> j \in 1 .. k \/ j \in k + 1 .. n
    BY <1>1, <1>6
  <2>3. \A i \in 1 .. k, j \in k + 1 .. n : i # j
    BY <1>1, <1>6
  <2> HIDE DEF who
  <2> QED  BY <1>12, <1>14, <2>1, <2>2, <2>3
<1>16. p \in [max : Nat, cur : Nat, waiters : Seq(Waiter), ready : SUBSET Scenario]
  <2>1. p.cur \in Nat
    BY <1>1, <1>3, <1>6, <1>9
  <2>2. p.ready \in SUBSET Scenario
    BY <1>1, <1>6, <1>9
  <2> QED  BY <1>1, <1>9, <1>10, <2>1, <2>2
<1>17. p.cur = M[H \cup p.ready] /\ p.cur <= p.max
  <2>1. H \cup p.ready = H \cup q.ready \cup Upto(k)
    BY <1>9
  <2> HIDE DEF Upto
  <2> QED  BY <1>6, <1>9, <1>13, <2>1
<1>18. /\ \A i, j \in 1 .. Len(p.waiters) : p.waiters[i].who = p.waiters[j].who => i = j
       /\ \A j \in 1 .. Len(p.waiters) : p.waiters[j].n = w[p.waiters[j].who]
  <2>1. \A j \in 1 .. n - k : j + k \in 1 .. n /\ p.waiters[j] = q.waiters[j + k]
    BY <1>1, <1>6, <1>10
  <2>2. \A j \in 1 .. n : q.waiters[j].n = w[q.waiters[j].who]
    BY <1>1 DEF Sound
  <2>3. ASSUME NEW i \in 1 .. n - k, NEW j \in 1 .. n - k,
               p.waiters[i].who = p.waiters[j].who
        PROVE  i = j
    <3>1. i + k = j + k
      BY <1>12, <2>1, <2>3
    <3> QED  BY <1>1, <1>6, <3>1
  <2>4. \A j \in 1 .. n - k : p.waiters[j].n = w[p.waiters[j].who]
    BY <2>1, <2>2
  <2> QED  BY <1>10, <2>3, <2>4
<1>19. /\ W = p.ready \cup Queued(p) /\ p.ready \cap Queued(p) = {}
  <2>1. W = q.ready \cup Queued(q) /\ q.ready \cap Queued(q) = {}
    BY DEF Sound
  <2> HIDE DEF Upto
  <2> QED  BY <1>9, <1>15, <2>1
<1>20. Sound(p, w, M, H, W)
  BY <1>9, <1>16, <1>17, <1>18, <1>19 DEF Sound
<1>21. Full(p)
  <2> SUFFICES ASSUME p.waiters # <<>> PROVE p.cur + Head(p.waiters).n > p.max
    BY DEF Full
  <2>1. k < n /\ Head(p.waiters) = q.waiters[k + 1]
    <3>1. Len(p.waiters) # 0 /\ Head(p.waiters) = p.waiters[1]
      BY <1>10
    <3>2. n - k # 0 /\ k < n /\ 1 \in 1 .. n - k
      BY <1>1, <1>6, <1>10, <3>1
    <3> QED  BY <1>1, <1>6, <1>10, <3>1, <3>2
  <2>2. F[k + 1] = F[k] + q.waiters[k + 1].n
    BY <1>1, <1>3, <1>6, <2>1
  <2>3. q.waiters[k + 1].n \in Nat /\ F[k] \in Nat
    BY <1>1, <1>3, <1>6, <2>1
  <2>4. q.cur + F[k + 1] > q.max
    BY <1>7, <2>1
  <2>5. p.cur + Head(p.waiters).n = q.cur + F[k + 1]
    <3>1. p.cur = q.cur + F[k] /\ Head(p.waiters).n = q.waiters[k + 1].n
      BY <1>9, <2>1
    <3> DEFINE a == q.waiters[k + 1].n
    <3> HIDE DEF a
    <3>2. a \in Nat /\ F[k + 1] = F[k] + a /\ Head(p.waiters).n = a
      BY <2>2, <2>3, <3>1 DEF a
    <3>3. q.cur \in Nat /\ F[k] \in Nat
      BY <1>1, <2>3
    <3>4. p.cur = q.cur + F[k]
      BY <3>1
    <3> QED  BY <3>2, <3>3, <3>4
  <2> QED  BY <1>9, <2>4, <2>5
<1> QED  BY <1>9, <1>20, <1>21 DEF p

LEMMA SoundType ==
  ASSUME NEW q, NEW w, NEW M, NEW H, NEW W, Sound(q, w, M, H, W)
  PROVE  /\ q.waiters \in Seq(Waiter) /\ Len(q.waiters) \in Nat
         /\ q.cur \in Nat /\ q.max \in Nat /\ q.ready \in SUBSET Scenario
         /\ q = [max |-> q.max, cur |-> q.cur, waiters |-> q.waiters, ready |-> q.ready]
         /\ \A j \in 1 .. Len(q.waiters) :
              /\ q.waiters[j] \in Waiter
              /\ q.waiters[j].who \in Scenario /\ q.waiters[j].n \in Nat
<1>1. q \in [max : Nat, cur : Nat, waiters : Seq(Waiter), ready : SUBSET Scenario]
  BY DEF Sound
<1>2. /\ q.waiters \in Seq(Waiter) /\ q.cur \in Nat /\ q.max \in Nat /\ q.ready \in SUBSET Scenario
      /\ q = [max |-> q.max, cur |-> q.cur, waiters |-> q.waiters, ready |-> q.ready]
  BY <1>1
<1>3. \A j \in 1 .. Len(q.waiters) : q.waiters[j] \in Waiter
  BY <1>2
<1> QED  BY <1>2, <1>3 DEF Waiter

\* Whoever arrives is granted at once, or queues behind all who wait.
LEMMA AcquireSound ==
  ASSUME NEW w, NEW M, Measure(M, w), NEW q, NEW H, NEW W, Sound(q, w, M, H, W), Full(q),
         NEW x \in Scenario \ (H \cup W), NEW n, Clamped(q, n) = w[x]
  PROVE  /\ Sound(Acquire(q, x, n), w, M, H, W \cup {x}) /\ Full(Acquire(q, x, n))
         /\ Acquire(q, x, n).max = q.max
<1> DEFINE p == Acquire(q, x, n)
           N == Len(q.waiters)
<1>1. /\ q.waiters \in Seq(Waiter) /\ N \in Nat /\ q.cur \in Nat /\ q.max \in Nat
      /\ q.ready \in SUBSET Scenario
      /\ q = [max |-> q.max, cur |-> q.cur, waiters |-> q.waiters, ready |-> q.ready]
  BY SoundType
<1>2. w[x] \in Nat /\ x \notin q.ready /\ x \notin Queued(q) /\ x \notin H /\ H \in SUBSET Scenario
  BY DEF Sound
<1>3. CASE GrantedAtOnce(q, w[x])
  <2>1. /\ p.max = q.max /\ p.cur = q.cur + w[x] /\ p.ready = q.ready \cup {x}
        /\ p.waiters = q.waiters /\ q.waiters = <<>>
        /\ p = [max |-> p.max, cur |-> p.cur, waiters |-> p.waiters, ready |-> p.ready]
    BY <1>1, <1>3 DEF Acquire, GrantedAtOnce
  <2> HIDE DEF p
  <2>2. p \in [max : Nat, cur : Nat, waiters : Seq(Waiter), ready : SUBSET Scenario]
    <3>1. p.cur \in Nat /\ p.max \in Nat /\ p.ready \in SUBSET Scenario /\ p.waiters \in Seq(Waiter)
      BY <1>1, <1>2, <2>1
    <3> QED  BY <2>1, <3>1
  <2>3. p.cur = M[H \cup p.ready]
    <3>1. M[(H \cup q.ready) \cup {x}] = M[H \cup q.ready] + w[x]
      BY <1>1, <1>2 DEF Measure
    <3>2. H \cup p.ready = (H \cup q.ready) \cup {x}
      BY <2>1
    <3>3. q.cur = M[H \cup q.ready]
      BY DEF Sound
    <3> QED  BY <2>1, <3>1, <3>2, <3>3
  <2>4. p.cur <= p.max
    BY <1>3, <2>1 DEF GrantedAtOnce
  <2>5. Queued(p) = {} /\ Queued(q) = {} /\ Len(p.waiters) = 0
    BY <2>1 DEF Queued
  <2>6. Sound(p, w, M, H, W \cup {x})
    BY <1>1, <1>2, <2>1, <2>2, <2>3, <2>4, <2>5 DEF Sound
  <2> QED  BY <2>1, <2>6 DEF Full, p
<1>4. CASE ~GrantedAtOnce(q, w[x])
  <2> DEFINE new == [who |-> x, n |-> w[x]]
  <2>1. /\ p.max = q.max /\ p.cur = q.cur /\ p.ready = q.ready
        /\ p.waiters = Append(q.waiters, new)
        /\ p = [max |-> p.max, cur |-> p.cur, waiters |-> p.waiters, ready |-> p.ready]
    BY <1>1, <1>4 DEF Acquire
  <2> HIDE DEF p
  <2>2. new \in Waiter
    BY <1>2 DEF Waiter
  <2>3. /\ p.waiters \in Seq(Waiter) /\ Len(p.waiters) = N + 1
        /\ p.waiters[N + 1] = new /\ \A j \in 1 .. N : p.waiters[j] = q.waiters[j]
    <3> HIDE DEF new
    <3> QED  BY <1>1, <2>1, <2>2
  <2>4. Queued(p) = Queued(q) \cup {x}
    <3>1. \A j \in 1 .. N + 1 : j \in 1 .. N \/ j = N + 1
      BY <1>1
    <3>2. \A j \in 1 .. N : j \in 1 .. N + 1
      BY <1>1
    <3>3. N + 1 \in 1 .. N + 1
      BY <1>1
    <3>4. new.who = x
      OBVIOUS
    <3> HIDE DEF new, N
    <3>5. Queued(p) = {p.waiters[j].who : j \in 1 .. N + 1} /\ Queued(q) = {q.waiters[j].who : j \in 1 .. N}
      BY <2>3 DEF Queued, N
    <3> QED  BY <2>3, <3>1, <3>2, <3>3, <3>4, <3>5
  <2>5. p \in [max : Nat, cur : Nat, waiters : Seq(Waiter), ready : SUBSET Scenario]
    <3>1. p.cur \in Nat /\ p.max \in Nat /\ p.ready \in SUBSET Scenario /\ p.waiters \in Seq(Waiter)
      BY <1>1, <2>1, <2>3
    <3> QED  BY <2>1, <3>1
  <2>6. \A i, j \in 1 .. Len(p.waiters) : p.waiters[i].who = p.waiters[j].who => i = j
    <3> SUFFICES ASSUME NEW i \in 1 .. N + 1, NEW j \in 1 .. N + 1,
                        p.waiters[i].who = p.waiters[j].who
                 PROVE  i = j
      BY <2>3
    <3>1. \A k \in 1 .. N : q.waiters[k].who # x
      BY <1>2 DEF Queued
    <3>2. CASE i \in 1 .. N /\ j \in 1 .. N
      BY <2>3, <3>2 DEF Sound
    <3>3. CASE i = N + 1 /\ j = N + 1
      BY <3>3
    <3>4. CASE i = N + 1 /\ j \in 1 .. N
      BY <2>3, <3>1, <3>4
    <3>5. CASE i \in 1 .. N /\ j = N + 1
      BY <2>3, <3>1, <3>5
    <3>6. (i \in 1 .. N \/ i = N + 1) /\ (j \in 1 .. N \/ j = N + 1)
      BY <1>1
    <3> QED  BY <3>2, <3>3, <3>4, <3>5, <3>6
  <2>7. \A j \in 1 .. Len(p.waiters) : p.waiters[j].n = w[p.waiters[j].who]
    <3> SUFFICES ASSUME NEW j \in 1 .. N + 1 PROVE p.waiters[j].n = w[p.waiters[j].who]
      BY <2>3
    <3>1. CASE j \in 1 .. N
      BY <2>3, <3>1 DEF Sound
    <3>2. CASE j = N + 1
      BY <2>3, <3>2
    <3> QED  BY <1>1, <3>1, <3>2
  <2>8. Sound(p, w, M, H, W \cup {x})
    <3>1. q.cur = M[H \cup q.ready] /\ q.cur <= q.max /\ w \in [Scenario -> 0 .. q.max]
          /\ W \in SUBSET Scenario /\ H \cap W = {}
          /\ W = q.ready \cup Queued(q) /\ q.ready \cap Queued(q) = {}
      BY DEF Sound
    <3>2. /\ W \cup {x} \in SUBSET Scenario /\ H \cap (W \cup {x}) = {}
          /\ W \cup {x} = p.ready \cup Queued(p) /\ p.ready \cap Queued(p) = {}
      BY <1>2, <2>1, <2>4, <3>1
    <3> QED  BY <1>2, <2>1, <2>5, <2>6, <2>7, <3>1, <3>2 DEF Sound
  <2>9. Full(p)
    <3>1. CASE q.waiters = <<>>
      <4>1. q.cur + w[x] > q.max
        BY <1>1, <1>2, <1>4, <3>1 DEF GrantedAtOnce
      <4>2. N = 0 /\ Head(p.waiters) = new
        <5> HIDE DEF new
        <5> QED  BY <1>1, <2>1, <2>2, <3>1
      <4> QED  BY <2>1, <4>1, <4>2 DEF Full
    <3>2. CASE q.waiters # <<>>
      <4>1. N # 0 /\ 1 \in 1 .. N
        BY <1>1, <3>2
      <4>2. Head(p.waiters) = Head(q.waiters)
        BY <1>1, <2>3, <4>1
      <4> QED  BY <2>1, <3>2, <4>2 DEF Full
    <3> QED  BY <3>1, <3>2
  <2> QED  BY <2>1, <2>8, <2>9 DEF p
<1> QED  BY <1>3, <1>4

\* A waiter that was granted goes on as a holder.
LEMMA NoticedSound ==
  ASSUME NEW w, NEW M, NEW q, NEW H, NEW W, Sound(q, w, M, H, W), Full(q),
         NEW x, Granted(q, x)
  PROVE  /\ Sound(Noticed(q, x), w, M, H \cup {x}, W \ {x}) /\ Full(Noticed(q, x))
         /\ Noticed(q, x).max = q.max
<1> DEFINE p == Noticed(q, x)
<1>1. /\ q.waiters \in Seq(Waiter) /\ q.cur \in Nat /\ q.max \in Nat
      /\ q.ready \in SUBSET Scenario
      /\ q = [max |-> q.max, cur |-> q.cur, waiters |-> q.waiters, ready |-> q.ready]
  BY SoundType
<1>2. /\ p.max = q.max /\ p.cur = q.cur /\ p.ready = q.ready \ {x} /\ p.waiters = q.waiters
      /\ p = [max |-> p.max, cur |-> p.cur, waiters |-> p.waiters, ready |-> p.ready]
  <2> DEFINE r == q.ready \ {x}
  <2> HIDE DEF r
  <2>1. p = [q EXCEPT !.ready = r]
    BY DEF Noticed, r
  <2>2. /\ p.max = q.max /\ p.cur = q.cur /\ p.ready = r /\ p.waiters = q.waiters
        /\ p = [max |-> p.max, cur |-> p.cur, waiters |-> p.waiters, ready |-> p.ready]
    <3> HIDE DEF p
    <3> QED  BY <1>1, <2>1
  <2> QED  BY <2>2 DEF r
<1> HIDE DEF p
<1>3. x \in q.ready
  BY DEF Granted
<1>4. p \in [max : Nat, cur : Nat, waiters : Seq(Waiter), ready : SUBSET Scenario]
  BY <1>1, <1>2
<1>5. Queued(p) = Queued(q)
  BY <1>2 DEF Queued
<1>6. p.cur = M[(H \cup {x}) \cup p.ready]
  <2>1. (H \cup {x}) \cup p.ready = H \cup q.ready
    BY <1>2, <1>3
  <2> QED  BY <1>2, <2>1 DEF Sound
<1>7. /\ W = q.ready \cup Queued(q) /\ q.ready \cap Queued(q) = {}
      /\ H \in SUBSET Scenario /\ W \in SUBSET Scenario /\ H \cap W = {}
  BY DEF Sound
<1>8. /\ W \ {x} = p.ready \cup Queued(p) /\ p.ready \cap Queued(p) = {}
      /\ H \cup {x} \in SUBSET Scenario /\ W \ {x} \in SUBSET Scenario
      /\ (H \cup {x}) \cap (W \ {x}) = {}
  BY <1>1, <1>2, <1>3, <1>5, <1>7
<1>9. Sound(p, w, M, H \cup {x}, W \ {x})
  BY <1>2, <1>4, <1>6, <1>8 DEF Sound
<1> QED  BY <1>2, <1>9 DEF Full, p

\* A holder gives back what it holds.
LEMMA ReleaseSound ==
  ASSUME NEW w, NEW M, Measure(M, w), NEW q, NEW H, NEW W, Sound(q, w, M, H, W),
         NEW x \in H, NEW n, Clamped(q, n) = w[x]
  PROVE  /\ Sound(Release(q, n), w, M, H \ {x}, W) /\ Full(Release(q, n))
         /\ Release(q, n).max = q.max
<1> DEFINE p == [q EXCEPT !.cur = IF @ < w[x] THEN 0 ELSE @ - w[x]]
<1>1. /\ q.waiters \in Seq(Waiter) /\ q.cur \in Nat /\ q.max \in Nat
      /\ q.ready \in SUBSET Scenario
      /\ q = [max |-> q.max, cur |-> q.cur, waiters |-> q.waiters, ready |-> q.ready]
  BY SoundType
<1>2. /\ W = q.ready \cup Queued(q) /\ q.ready \cap Queued(q) = {}
      /\ H \in SUBSET Scenario /\ W \in SUBSET Scenario /\ H \cap W = {}
      /\ q.cur = M[H \cup q.ready] /\ q.cur <= q.max /\ w[x] \in Nat
  BY DEF Sound
<1>3. M[H \cup q.ready] = M[(H \ {x}) \cup q.ready] + w[x] /\ M[(H \ {x}) \cup q.ready] \in Nat
  <2>1. /\ (H \ {x}) \cup q.ready \in SUBSET Scenario
        /\ x \in Scenario \ ((H \ {x}) \cup q.ready)
        /\ ((H \ {x}) \cup q.ready) \cup {x} = H \cup q.ready
    BY <1>1, <1>2
  <2> QED  BY <2>1 DEF Measure
<1>4. /\ p.max = q.max /\ p.cur = M[(H \ {x}) \cup q.ready] /\ p.ready = q.ready /\ p.waiters = q.waiters
      /\ p = [max |-> p.max, cur |-> p.cur, waiters |-> p.waiters, ready |-> p.ready]
  <2>1. /\ p.max = q.max /\ p.cur = (IF q.cur < w[x] THEN 0 ELSE q.cur - w[x])
        /\ p.ready = q.ready /\ p.waiters = q.waiters
        /\ p = [max |-> p.max, cur |-> p.cur, waiters |-> p.waiters, ready |-> p.ready]
    BY <1>1
  <2> HIDE DEF p
  <2>2. p.cur = M[(H \ {x}) \cup q.ready]
    BY <1>2, <1>3, <2>1
  <2> QED  BY <2>1, <2>2
<1>5. Release(q, n) = Notified(p)
  BY DEF Release
<1> HIDE DEF p
<1>6. p \in [max : Nat, cur : Nat, waiters : Seq(Waiter), ready : SUBSET Scenario]
  BY <1>1, <1>3, <1>4
<1>7. Queued(p) = Queued(q)
  BY <1>4 DEF Queued
<1>8. p.cur <= p.max
  BY <1>1, <1>2, <1>3, <1>4
<1>9. Sound(p, w, M, H \ {x}, W)
  BY <1>2, <1>4, <1>6, <1>7, <1>8 DEF Sound
<1> QED  BY <1>4, <1>5, <1>9, NotifiedSound

\* A waiter that gives up leaves the queue, and those behind it are looked at.
LEMMA CancelledSound ==
  ASSUME NEW w, NEW M, Measure(M, w), NEW q, NEW H, NEW W, Sound(q, w, M, H, W),
         NEW x \in W, MayLeave(q, x)
  PROVE  /\ Sound(Cancelled(q, x), w, M, H, W \ {x}) /\ Full(Cancelled(q, x))
         /\ Cancelled(q, x).max = q.max
<1> DEFINE N == Len(q.waiters)
           p == Without(q, x)
           i == CHOOSE j \in DOMAIN q.waiters : q.waiters[j].who = x
<1>1. /\ q.waiters \in Seq(Waiter) /\ N \in Nat /\ q.cur \in Nat /\ q.max \in Nat
      /\ q.ready \in SUBSET Scenario
      /\ q = [max |-> q.max, cur |-> q.cur, waiters |-> q.waiters, ready |-> q.ready]
      /\ DOMAIN q.waiters = 1 .. N
  BY SoundType
<1>2. /\ W = q.ready \cup Queued(q) /\ q.ready \cap Queued(q) = {}
      /\ H \in SUBSET Scenario /\ W \in SUBSET Scenario /\ H \cap W = {}
      /\ q.cur = M[H \cup q.ready] /\ q.cur <= q.max
      /\ \A j, k \in 1 .. N : q.waiters[j].who = q.waiters[k].who => j = k
      /\ \A j \in 1 .. N : q.waiters[j].n = w[q.waiters[j].who]
  BY DEF Sound
<1>3. i \in 1 .. N /\ q.waiters[i].who = x
  <2>1. x \in Queued(q)
    BY <1>2 DEF MayLeave, Granted
  <2>2. \E j \in DOMAIN q.waiters : q.waiters[j].who = x
    BY <1>1, <2>1 DEF Queued
  <2> QED  BY <1>1, <2>2
<1>4. /\ p.max = q.max /\ p.cur = q.cur /\ p.ready = q.ready
      /\ p.waiters = SubSeq(q.waiters, 1, i - 1) \o SubSeq(q.waiters, i + 1, N)
      /\ p = [max |-> p.max, cur |-> p.cur, waiters |-> p.waiters, ready |-> p.ready]
  <2>1. p = [q EXCEPT !.waiters = RemoveAt(@, i)]
    <3>1. \E j \in DOMAIN q.waiters : q.waiters[j].who = x
      <4> HIDE DEF i
      <4> QED  BY <1>1, <1>3
    <3> QED  BY <3>1 DEF Without
  <2> HIDE DEF p, i
  <2>2. /\ p.max = q.max /\ p.cur = q.cur /\ p.ready = q.ready
        /\ p.waiters = RemoveAt(q.waiters, i)
        /\ p = [max |-> p.max, cur |-> p.cur, waiters |-> p.waiters, ready |-> p.ready]
    BY <1>1, <2>1
  <2> QED  BY <2>2 DEF RemoveAt
<1> HIDE DEF p, i, N
<1> DEFINE old(j) == IF j < i THEN j ELSE j + 1
<1>5. \A j \in 1 .. N - 1 : old(j) \in 1 .. N \ {i}
  BY <1>1, <1>3
<1>6. /\ p.waiters \in Seq(Waiter) /\ Len(p.waiters) = N - 1
      /\ \A j \in 1 .. N - 1 : p.waiters[j] = q.waiters[old(j)]
  <2> DEFINE a == SubSeq(q.waiters, 1, i - 1)
             b == SubSeq(q.waiters, i + 1, N)
  <2>1. a \in Seq(Waiter) /\ Len(a) = i - 1 /\ \A j \in 1 .. i - 1 : a[j] = q.waiters[j]
    BY <1>1, <1>3 DEF N
  <2>2. b \in Seq(Waiter) /\ Len(b) = N - i /\ \A j \in 1 .. N - i : b[j] = q.waiters[i + j]
    BY <1>1, <1>3 DEF N
  <2> HIDE DEF a, b
  <2>3. p.waiters = a \o b
    BY <1>4 DEF a, b
  <2>4. p.waiters \in Seq(Waiter) /\ Len(p.waiters) = N - 1
    <3>1. a \o b \in Seq(Waiter) /\ Len(a \o b) = Len(a) + Len(b)
      BY <2>1, <2>2
    <3>2. (i - 1) + (N - i) = N - 1
      BY <1>1, <1>3
    <3> QED  BY <2>1, <2>2, <2>3, <3>1, <3>2
  <2>5. ASSUME NEW j \in 1 .. N - 1 PROVE p.waiters[j] = q.waiters[old(j)]
    <3>1. CASE j < i
      BY <1>1, <1>3, <2>1, <2>2, <2>3, <3>1
    <3>2. CASE ~(j < i)
      <4>1. j - (i - 1) \in 1 .. N - i /\ p.waiters[j] = b[j - (i - 1)]
        <5>0. /\ N \in Nat /\ i \in Nat /\ j \in Nat /\ i <= N /\ 1 <= i /\ 1 <= j /\ j <= N - 1 /\ i <= j
              /\ Len(a) = i - 1 /\ Len(b) = N - i
          <6>1. N \in Nat /\ i \in Nat /\ i <= N /\ 1 <= i
            BY <1>1, <1>3
          <6>2. j \in Nat /\ 1 <= j /\ j <= N - 1 /\ i <= j
            BY <6>1, <3>2
          <6> QED  BY <6>1, <6>2, <2>1, <2>2
        <5>1. j - (i - 1) \in 1 .. N - i /\ j > Len(a) /\ j \in 1 .. Len(a) + Len(b)
          BY <5>0
        <5>2. (a \o b)[j] = b[j - Len(a)]
          BY <2>1, <2>2, <5>1
        <5> QED  BY <2>1, <2>3, <5>1, <5>2
      <4>2. i + (j - (i - 1)) = j + 1
        BY <1>1, <1>3
      <4> QED  BY <2>2, <3>2, <4>1, <4>2
    <3> QED  BY <3>1, <3>2
  <2> QED  BY <2>4, <2>5
<1>7. Queued(p) = Queued(q) \ {x}
  <2>1. ASSUME NEW j \in 1 .. N - 1 PROVE p.waiters[j].who \in Queued(q) \ {x}
    <3>1. old(j) \in 1 .. N /\ old(j) # i /\ p.waiters[j].who = q.waiters[old(j)].who
      BY <1>5, <1>6
    <3> HIDE DEF old
    <3>2. q.waiters[old(j)].who # x
      BY <1>2, <1>3, <3>1
    <3> QED  BY <3>1, <3>2 DEF Queued, N
  <2>2. ASSUME NEW k \in 1 .. N, k # i PROVE q.waiters[k].who \in Queued(p)
    <3>1. CASE k < i
      <4>1. k \in 1 .. N - 1 /\ old(k) = k
        BY <1>1, <1>3, <3>1
      <4> QED  BY <1>6, <4>1 DEF Queued
    <3>2. CASE k > i
      <4>1. k - 1 \in 1 .. N - 1 /\ old(k - 1) = k
        BY <1>1, <1>3, <3>2
      <4> QED  BY <1>6, <4>1 DEF Queued
    <3> QED  BY <1>1, <1>3, <2>2, <3>1, <3>2
  <2>3. Queued(p) \subseteq Queued(q) \ {x}
    BY <1>6, <2>1 DEF Queued
  <2>4. Queued(q) \ {x} \subseteq Queued(p)
    <3>1. ASSUME NEW y \in Queued(q), y # x PROVE y \in Queued(p)
      <4>1. PICK k \in 1 .. N : y = q.waiters[k].who
        BY DEF Queued, N
      <4> QED  BY <1>3, <2>2, <3>1, <4>1
    <3> QED  BY <3>1
  <2> QED  BY <2>3, <2>4
<1>8. \A j, k \in 1 .. N - 1 : p.waiters[j].who = p.waiters[k].who => j = k
  <2> SUFFICES ASSUME NEW j \in 1 .. N - 1, NEW k \in 1 .. N - 1,
                      p.waiters[j].who = p.waiters[k].who
               PROVE  j = k
    OBVIOUS
  <2>1. old(j) \in 1 .. N /\ old(k) \in 1 .. N
    BY <1>5
  <2>2. p.waiters[j] = q.waiters[old(j)] /\ p.waiters[k] = q.waiters[old(k)]
    BY <1>6
  <2>3. old(j) = old(k)
    <3> HIDE DEF old
    <3> QED  BY <1>2, <2>1, <2>2
  <2>4. i \in Nat /\ j \in Nat /\ k \in Nat
    BY <1>1, <1>3
  <2> QED  BY <2>3, <2>4
<1>9. \A j \in 1 .. N - 1 : p.waiters[j].n = w[p.waiters[j].who]
  <2> HIDE DEF old
  <2> QED  BY <1>2, <1>5, <1>6
<1>10. p \in [max : Nat, cur : Nat, waiters : Seq(Waiter), ready : SUBSET Scenario]
  BY <1>1, <1>4, <1>6
<1>11. /\ W \ {x} \in SUBSET Scenario /\ H \cap (W \ {x}) = {}
       /\ W \ {x} = p.ready \cup Queued(p) /\ p.ready \cap Queued(p) = {}
  BY <1>2, <1>4, <1>7 DEF MayLeave, Granted
<1>12. Sound(p, w, M, H, W \ {x})
  BY <1>2, <1>4, <1>6, <1>8, <1>9, <1>10, <1>11 DEF Sound
<1>13. Cancelled(q, x) = Notified(p)
  BY DEF Cancelled, p
<1> QED  BY <1>4, <1>12, <1>13, NotifiedSound

-----------------------------------------------------------------------------
(* The measures: what a set of scenarios weighs, and how many it has. *)

\* A set of finite sets that is not empty has a smallest.
LEMMA SmallestOf ==
  ASSUME IsFiniteSet(Scenario), NEW B, B \subseteq SUBSET Scenario, B # {}
  PROVE  \E T \in B : \A U \in B : Cardinality(T) <= Cardinality(U)
<1>1. \A U \in B : Cardinality(U) \in Nat
  BY FS_Subset, FS_CardinalityType
<1>2. PICK m \in {Cardinality(U) : U \in B} : \A k \in {Cardinality(U) : U \in B} : m <= k
  <2>1. {Cardinality(U) : U \in B} \subseteq Nat /\ {Cardinality(U) : U \in B} # {}
    BY <1>1
  <2> QED  BY <2>1, LeastOf
<1> QED  BY <1>2

LEMMA SmallerSet ==
  ASSUME IsFiniteSet(Scenario), NEW T \in SUBSET Scenario, NEW x \in T
  PROVE  /\ T \ {x} \in SUBSET Scenario
         /\ Cardinality(T) \in Nat /\ Cardinality(T \ {x}) \in Nat
         /\ Cardinality(T \ {x}) = Cardinality(T) - 1
<1>1. IsFiniteSet(T) /\ IsFiniteSet(T \ {x})
  BY FS_Subset
<1> QED  BY <1>1, FS_RemoveElement, FS_CardinalityType

Pick(T) == CHOOSE x \in T : TRUE

\* G sums w over the sets of D, one element after the other.
Sums(G, w, D) ==
  /\ G \in [D -> Nat]
  /\ \A T \in D : G[T] = IF T = {} THEN 0 ELSE w[Pick(T)] + G[T \ {Pick(T)}]

Small(n) == {T \in SUBSET Scenario : Cardinality(T) <= n}

LEMMA SumsExist ==
  ASSUME IsFiniteSet(Scenario), NEW w \in [Scenario -> Nat]
  PROVE  \E G : Sums(G, w, SUBSET Scenario)
<1> DEFINE Bad == {n \in Nat : ~\E G : Sums(G, w, Small(n))}
<1>1. Bad = {}
  <2> SUFFICES ASSUME Bad # {} PROVE FALSE
    OBVIOUS
  <2>1. PICK m \in Bad : \A n \in Bad : m <= n
    <3>1. Bad \subseteq Nat
      OBVIOUS
    <3> HIDE DEF Bad
    <3> QED  BY <3>1, LeastOf
  <2>2. m # 0
    <3>1. \A T \in Small(0) : T = {}
      <4>1. ASSUME NEW T \in Small(0), NEW x \in T PROVE FALSE
        <5>1. T \in SUBSET Scenario /\ Cardinality(T) <= 0
          BY DEF Small
        <5>2. /\ Cardinality(T) \in Nat /\ Cardinality(T \ {x}) \in Nat
              /\ Cardinality(T \ {x}) = Cardinality(T) - 1
          BY <5>1, SmallerSet
        <5> QED  BY <5>1, <5>2
      <4> QED  BY <4>1
    <3>2. Sums([T \in Small(0) |-> 0], w, Small(0))
      BY <3>1 DEF Sums
    <3> QED  BY <2>1, <3>2
  <2>3. PICK F : Sums(F, w, Small(m - 1))
    BY <2>1, <2>2
  <2> DEFINE G == [T \in Small(m) |-> IF T = {} THEN 0 ELSE w[Pick(T)] + F[T \ {Pick(T)}]]
  <2>4. ASSUME NEW T \in Small(m), T # {}
        PROVE  /\ Pick(T) \in T /\ T \ {Pick(T)} \in Small(m - 1) /\ T \ {Pick(T)} \in Small(m)
               /\ F[T \ {Pick(T)}] \in Nat /\ w[Pick(T)] \in Nat
    <3>1. Pick(T) \in T
      BY <2>4 DEF Pick
    <3>2. T \ {Pick(T)} \in Small(m - 1) /\ T \ {Pick(T)} \in Small(m)
      BY <2>1, <3>1, SmallerSet DEF Small
    <3> QED  BY <2>3, <3>1, <3>2 DEF Sums, Small
  <2>5. G \in [Small(m) -> Nat]
    BY <2>4
  <2>6. \A T \in Small(m - 1) : T \in Small(m) /\ G[T] = F[T]
    <3> SUFFICES ASSUME NEW T \in Small(m - 1) PROVE T \in Small(m) /\ G[T] = F[T]
      OBVIOUS
    <3>1. T \in Small(m)
      <4>1. IsFiniteSet(T) /\ T \in SUBSET Scenario /\ Cardinality(T) <= m - 1
        BY FS_Subset DEF Small
      <4> QED  BY <2>1, <4>1, FS_CardinalityType DEF Small
    <3> QED  BY <2>3, <3>1 DEF Sums
  <2>7. \A T \in Small(m) : G[T] = IF T = {} THEN 0 ELSE w[Pick(T)] + G[T \ {Pick(T)}]
    BY <2>4, <2>6
  <2>8. Sums(G, w, Small(m))
    <3> HIDE DEF G
    <3> QED  BY <2>5, <2>7 DEF Sums
  <2> QED  BY <2>1, <2>8
<1>2. Cardinality(Scenario) \in Nat /\ SUBSET Scenario = Small(Cardinality(Scenario))
  BY FS_Subset, FS_CardinalityType DEF Small
<1>3. \E G : Sums(G, w, Small(Cardinality(Scenario)))
  BY <1>1, <1>2
<1> QED  BY <1>2, <1>3

\* The order does not matter.
LEMMA SumsMeasure ==
  ASSUME IsFiniteSet(Scenario), NEW w \in [Scenario -> Nat],
         NEW G, Sums(G, w, SUBSET Scenario)
  PROVE  Measure(G, w)
<1> DEFINE Bad == {T \in SUBSET Scenario : \E x \in Scenario \ T : G[T \cup {x}] # G[T] + w[x]}
<1>1. Bad = {}
  <2> SUFFICES ASSUME Bad # {} PROVE FALSE
    OBVIOUS
  <2>1. PICK T \in Bad : \A U \in Bad : Cardinality(T) <= Cardinality(U)
    <3>1. Bad \subseteq SUBSET Scenario
      OBVIOUS
    <3> HIDE DEF Bad
    <3> QED  BY <3>1, SmallestOf
  <2>2. PICK x \in Scenario \ T : G[T \cup {x}] # G[T] + w[x]
    BY <2>1
  <2> DEFINE U == T \cup {x}
             c == Pick(U)
  <2>3. c \in U /\ T \in SUBSET Scenario /\ U \in SUBSET Scenario
    BY <2>1 DEF Pick
  <2>4. G[U] = w[c] + G[U \ {c}]
    BY <2>3 DEF Sums
  <2>5. \A V \in SUBSET Scenario : G[V] \in Nat
    BY DEF Sums
  <2>6. w[c] \in Nat /\ w[x] \in Nat
    BY <2>3
  <2> HIDE DEF c
  <2>7. CASE c = x
    <3>1. U \ {c} = T
      BY <2>7
    <3>2. G[U] = w[x] + G[T] /\ G[T] \in Nat
      BY <2>3, <2>4, <2>5, <2>7, <3>1
    <3> QED  BY <2>2, <2>6, <3>2
  <2>8. CASE c # x
    <3>1. c \in T /\ U \ {c} = (T \ {c}) \cup {x} /\ x \notin T \ {c} /\ T = (T \ {c}) \cup {c}
      BY <2>3, <2>8
    <3>2. /\ T \ {c} \in SUBSET Scenario /\ T \ {c} \notin Bad
      <4>1. /\ T \ {c} \in SUBSET Scenario
            /\ Cardinality(T) \in Nat /\ Cardinality(T \ {c}) = Cardinality(T) - 1
        BY <2>3, <3>1, SmallerSet
      <4> HIDE DEF Bad
      <4> QED  BY <2>1, <4>1
    <3>3. G[(T \ {c}) \cup {x}] = G[T \ {c}] + w[x]
      BY <2>2, <3>1, <3>2
    <3>4. G[(T \ {c}) \cup {c}] = G[T \ {c}] + w[c]
      BY <2>3, <3>1, <3>2
    <3>5. G[U] = w[c] + (G[T \ {c}] + w[x]) /\ G[T] = G[T \ {c}] + w[c] /\ G[T \ {c}] \in Nat
      BY <2>4, <2>5, <3>1, <3>2, <3>3, <3>4
    <3> QED  BY <2>2, <2>6, <3>5
  <2> QED  BY <2>7, <2>8
<1>2. G[{}] = 0
  BY DEF Sums
<1> QED  BY <1>1, <1>2 DEF Measure, Sums

\* What the scenarios of S ask of semaphore q, clamped.
Asked(q, S) == MapThenSumSet(LAMBDA s : Clamped(q, Machines[s]), S)

\* What the fold of the community modules computes.
LEMMA FoldSums ==
  ASSUME IsFiniteSet(Scenario), NEW q, NEW w \in [Scenario -> Nat],
         \A s \in Scenario : w[s] = Clamped(q, Machines[s]),
         NEW G, Sums(G, w, SUBSET Scenario), NEW S \in SUBSET Scenario
  PROVE  Asked(q, S) = G[S]
<1> DEFINE Iter(f) == f = [T \in SUBSET S |->
                             IF T = {} THEN 0
                             ELSE Clamped(q, Machines[CHOOSE x \in T : TRUE])
                                    + f[T \ {CHOOSE x \in T : TRUE}]]
           c == CHOOSE f : Iter(f)
           g == [T \in SUBSET S |-> G[T]]
           Bad == {T \in SUBSET S : c[T] # G[T]}
<1>1. Asked(q, S) = c[S]
  BY DEF Asked, MapThenSumSet, MapThenFoldSet
<1>2. \A T \in SUBSET S : T # {} => Pick(T) \in T /\ w[Pick(T)] = Clamped(q, Machines[Pick(T)])
  BY DEF Pick
<1>3. Iter(g)
  <2>1. \A T \in SUBSET S : G[T] = IF T = {} THEN 0
                                  ELSE Clamped(q, Machines[Pick(T)]) + G[T \ {Pick(T)}]
    BY <1>2 DEF Sums
  <2> QED  BY <2>1 DEF Pick
<1>4. Iter(c)
  <2> HIDE DEF g, Iter
  <2> QED  BY <1>3
<1>5. \A T \in SUBSET S : c[T] = IF T = {} THEN 0
                                 ELSE Clamped(q, Machines[Pick(T)]) + c[T \ {Pick(T)}]
  <2> HIDE DEF c
  <2> QED  BY <1>4 DEF Pick
<1> HIDE DEF c
<1>6. Bad = {}
  <2> SUFFICES ASSUME Bad # {} PROVE FALSE
    OBVIOUS
  <2>1. PICK T \in Bad : \A U \in Bad : Cardinality(T) <= Cardinality(U)
    <3>1. Bad \subseteq SUBSET Scenario
      OBVIOUS
    <3> HIDE DEF Bad
    <3> QED  BY <3>1, SmallestOf
  <2>2. T # {}
    BY <1>5, <2>1 DEF Sums
  <2>3. T \ {Pick(T)} \in SUBSET S /\ T \ {Pick(T)} \notin Bad
    <3>1. Pick(T) \in T /\ T \in SUBSET Scenario
      BY <1>2, <2>1, <2>2
    <3>2. Cardinality(T \ {Pick(T)}) = Cardinality(T) - 1 /\ Cardinality(T) \in Nat
      BY <3>1, SmallerSet
    <3> QED  BY <2>1, <3>2
  <2>4. c[T \ {Pick(T)}] = G[T \ {Pick(T)}]
    BY <2>3
  <2> QED  BY <1>2, <1>5, <2>1, <2>2, <2>4 DEF Sums
<1> QED  BY <1>1, <1>6

-----------------------------------------------------------------------------
(* The inductive invariant *)

Stages == {"new", "wanting", "staging", "staged", "build_wanting", "building",
           "running", "starting", "cleanup"}
Held == {"staging", "staged", "build_wanting", "building", "running", "starting", "cleanup"}
Child == [at : {"idle", "created", "launched", "assigned", "ready", "stuck", "refused"},
          job : BOOLEAN, held : BOOLEAN,
          proc : {"none", "suspended", "live", "dead"}, kin : {"none", "inside", "outside"}]

At(stages) == {s \in Scenario : at[s] \in stages}

TypeOK ==
  /\ at \in [Scenario -> Stages] /\ ended \in SUBSET Scenario
  /\ cursor \in 0 .. Band /\ ports \in [Scenario -> SUBSET (1 .. Band)]
  /\ child \in [Scenario -> Child]

Machine == [s \in Scenario |-> Clamped(New(Capacity), Machines[s])]
MachineSum == CHOOSE G : Sums(G, Machine, SUBSET Scenario)
One == [s \in Scenario |-> 1]
Count == [S \in SUBSET Scenario |-> Cardinality(S)]

BudgetSound ==
  /\ budget.max = New(Capacity).max
  /\ Sound(budget, Machine, MachineSum, At(Held), At({"wanting"})) /\ Full(budget)

BuildsSound ==
  /\ builds.max = New(BuildCapacity).max
  /\ Sound(builds, One, Count, At({"building"}), At({"build_wanting"})) /\ Full(builds)

\* What was given out lies below the cursor.
PortsApart ==
  /\ \A s \in Scenario : ports[s] \subseteq 1 .. cursor
  /\ \A s, r \in Scenario : s # r => ports[s] \cap ports[r] = {}

\* A process runs only after its start, and its start is a step of its scenario.
ChildHeld(c, stage) ==
  /\ c.at = "idle" => c.proc = "none" /\ c.kin = "none"
  /\ c.at \in {"created", "launched", "assigned", "stuck"} =>
       stage = "starting" /\ c.proc # "live" /\ c.kin = "none"
  /\ c.at = "ready" => stage \in {"running", "cleanup"}
  /\ c.at = "refused" => stage = "cleanup" /\ c.proc = "dead" /\ c.kin = "none"

ChildrenHeld == \A s \in Scenario : ChildHeld(child[s], at[s])

Inv == TypeOK /\ BudgetSound /\ BuildsSound /\ PortsApart /\ ChildrenHeld

\* The weights, and what they add up to.
LEMMA Weights ==
  /\ Machine \in [Scenario -> 0 .. New(Capacity).max] /\ Measure(MachineSum, Machine)
  /\ Sums(MachineSum, Machine, SUBSET Scenario)
  /\ One \in [Scenario -> 0 .. New(BuildCapacity).max] /\ Measure(Count, One)
  /\ New(Capacity).max \in Nat /\ New(BuildCapacity).max \in Nat \ {0}
<1>1. New(Capacity).max \in Nat /\ New(BuildCapacity).max \in Nat \ {0}
  BY SuiteAssumption DEF New
<1>2. Machine \in [Scenario -> 0 .. New(Capacity).max]
  <2> DEFINE m == New(Capacity).max
  <2>1. \A s \in Scenario : Clamped(New(Capacity), Machines[s]) \in 0 .. m
    <3> SUFFICES ASSUME NEW s \in Scenario PROVE Clamped(New(Capacity), Machines[s]) \in 0 .. m
      OBVIOUS
    <3>1. Machines[s] \in Nat
      BY SuiteAssumption
    <3>2. Clamped(New(Capacity), Machines[s]) = IF Machines[s] < m THEN Machines[s] ELSE m
      BY DEF Clamped
    <3> HIDE DEF m
    <3>3. m \in Nat
      BY <1>1 DEF m
    <3> QED  BY <3>1, <3>2, <3>3
  <2> QED  BY <2>1 DEF Machine
<1>3. Machine \in [Scenario -> Nat]
  BY <1>1, <1>2
<1>4. \E G : Sums(G, Machine, SUBSET Scenario)
  BY <1>3, SuiteAssumption, SumsExist
<1>5. Sums(MachineSum, Machine, SUBSET Scenario)
  BY <1>4 DEF MachineSum
<1>6. Measure(MachineSum, Machine)
  BY <1>3, <1>5, SuiteAssumption, SumsMeasure
<1>7. One \in [Scenario -> 0 .. New(BuildCapacity).max]
  BY <1>1 DEF One
<1>8. Measure(Count, One)
  <2>1. \A S \in SUBSET Scenario : IsFiniteSet(S) /\ Cardinality(S) \in Nat
    BY SuiteAssumption, FS_Subset, FS_CardinalityType
  <2>2. Count \in [SUBSET Scenario -> Nat] /\ Count[{}] = 0
    BY <2>1, FS_EmptySet DEF Count
  <2>3. ASSUME NEW T \in SUBSET Scenario, NEW x \in Scenario \ T
        PROVE  Count[T \cup {x}] = Count[T] + One[x]
    <3>1. Cardinality(T \cup {x}) = Cardinality(T) + 1
      BY <2>1, FS_AddElement
    <3> QED  BY <3>1 DEF Count, One
  <2> QED  BY <2>2, <2>3 DEF Measure
<1> QED  BY <1>1, <1>2, <1>5, <1>6, <1>7, <1>8

\* A semaphore that nobody holds or waits for.
LEMMA NewSound ==
  ASSUME NEW capacity \in Nat, NEW w \in [Scenario -> 0 .. New(capacity).max], NEW M, Measure(M, w)
  PROVE  Sound(New(capacity), w, M, {}, {}) /\ Full(New(capacity))
<1> DEFINE q == New(capacity)
<1>1. q.max \in Nat /\ q.cur = 0 /\ q.waiters = <<>> /\ q.ready = {}
  BY DEF New
<1>2. q = [max |-> q.max, cur |-> q.cur, waiters |-> q.waiters, ready |-> q.ready]
  BY DEF New
<1> HIDE DEF q
<1>3. q \in [max : Nat, cur : Nat, waiters : Seq(Waiter), ready : SUBSET Scenario]
  <2>1. <<>> \in Seq(Waiter) /\ {} \in SUBSET Scenario
    OBVIOUS
  <2>2. q.max \in Nat /\ q.cur \in Nat /\ q.waiters \in Seq(Waiter) /\ q.ready \in SUBSET Scenario
    BY <1>1, <2>1
  <2> QED  BY <1>2, <2>2
<1>4. Len(q.waiters) = 0 /\ Queued(q) = {}
  BY <1>1 DEF Queued
<1>5. M[{} \cup q.ready] = 0
  BY <1>1 DEF Measure
<1>6. w \in [Scenario -> 0 .. q.max]
  BY DEF q
<1> QED  BY <1>1, <1>3, <1>4, <1>5, <1>6 DEF Sound, Full, q

LEMMA InitInv == Init => Inv
<1> SUFFICES ASSUME Init PROVE Inv
  OBVIOUS
<1>1. TypeOK
  <2>1. NoChild \in Child
    BY DEF NoChild, Child
  <2> QED  BY <2>1, SuiteAssumption DEF Init, TypeOK, Stages
<1>2. At(Held) = {} /\ At({"wanting"}) = {} /\ At({"building"}) = {} /\ At({"build_wanting"}) = {}
  BY DEF Init, At, Held
<1>3. BudgetSound
  <2>1. Sound(New(Capacity), Machine, MachineSum, {}, {}) /\ Full(New(Capacity))
    BY Weights, NewSound, SuiteAssumption
  <2> QED  BY <1>2, <2>1 DEF Init, BudgetSound
<1>4. BuildsSound
  <2>1. Sound(New(BuildCapacity), One, Count, {}, {}) /\ Full(New(BuildCapacity))
    BY Weights, NewSound, SuiteAssumption
  <2> QED  BY <1>2, <2>1 DEF Init, BuildsSound
<1>5. PortsApart /\ ChildrenHeld
  BY DEF Init, PortsApart, ChildrenHeld, ChildHeld, NoChild
<1> QED  BY <1>1, <1>3, <1>4, <1>5 DEF Inv

-----------------------------------------------------------------------------
(* The semaphores *)

\* Where a scenario that moves is counted.
LEMMA Moved ==
  ASSUME TypeOK, NEW s \in Scenario, NEW from, NEW to, Go(s, from, to), NEW stages
  PROVE  /\ s \in At(stages) <=> from \in stages
         /\ (from \in stages <=> to \in stages) => At(stages)' = At(stages)
         /\ from \notin stages /\ to \in stages => At(stages)' = At(stages) \cup {s}
         /\ from \in stages /\ to \notin stages => At(stages)' = At(stages) \ {s}
BY DEF TypeOK, Go, At

\* The steps that leave the budget alone keep who holds it and who waits for it.
LEMMA BudgetNext == Inv /\ Next => BudgetSound'
<1> SUFFICES ASSUME Inv, NEW s \in Scenario,
                    \/ AskBudget(s) \/ Step(s) \/ Cancel(s)
                    \/ ChildActs(s) \/ WatchKills(s) \/ (at[s] = "running" /\ Kill(s)) \/ KillReturns(s)
             PROVE  BudgetSound'
  BY DEF Next
<1> USE DEF Inv
<1>1. Measure(MachineSum, Machine)
  BY Weights
<1>2. Clamped(budget, Machines[s]) = Machine[s]
  BY DEF BudgetSound, Clamped, Machine
<1>3. CASE AskBudget(s)
  <2>1. /\ Go(s, "new", "wanting") /\ budget' = Acquire(budget, s, Machines[s])
    BY <1>3 DEF AskBudget
  <2>2. /\ s \in Scenario \ (At(Held) \cup At({"wanting"}))
        /\ At(Held)' = At(Held) /\ At({"wanting"})' = At({"wanting"}) \cup {s}
    BY <2>1, Moved DEF Held
  <2> QED  BY <1>1, <1>2, <2>1, <2>2, AcquireSound DEF BudgetSound
<1>4. CASE TakeBudget(s)
  <2>1. Granted(budget, s) /\ Go(s, "wanting", "staging") /\ budget' = Noticed(budget, s)
    BY <1>4 DEF TakeBudget
  <2>2. At(Held)' = At(Held) \cup {s} /\ At({"wanting"})' = At({"wanting"}) \ {s}
    BY <2>1, Moved DEF Held
  <2> QED  BY <2>1, <2>2, NoticedSound DEF BudgetSound
<1>5. CASE LeaveQueue(s)
  <2>1. MayLeave(budget, s) /\ Go(s, "wanting", "new") /\ budget' = Cancelled(budget, s)
    BY <1>5 DEF LeaveQueue
  <2>2. s \in At({"wanting"}) /\ At(Held)' = At(Held) /\ At({"wanting"})' = At({"wanting"}) \ {s}
    BY <2>1, Moved DEF Held
  <2> QED  BY <1>1, <2>1, <2>2, CancelledSound DEF BudgetSound
<1>6. CASE CleanUp(s)
  <2>1. Go(s, "cleanup", "new") /\ budget' = Release(budget, Machines[s])
    BY <1>6 DEF CleanUp
  <2>2. s \in At(Held) /\ At(Held)' = At(Held) \ {s} /\ At({"wanting"})' = At({"wanting"})
    BY <2>1, Moved DEF Held
  <2> QED  BY <1>1, <1>2, <2>1, <2>2, ReleaseSound DEF BudgetSound
<1>7. CASE ~(AskBudget(s) \/ TakeBudget(s) \/ LeaveQueue(s) \/ CleanUp(s))
  <2>1. /\ budget' = budget
        /\ \/ at' = at
           \/ \E from, to \in Held : Go(s, from, to)
    <3>1. CASE \/ Stage(s) \/ StageFails(s) \/ AskBuild(s) \/ TakeBuild(s) \/ LeaveBuildQueue(s)
               \/ EndBuild(s) \/ EndRun(s)
      BY <3>1 DEF Stage, StageFails, AskBuild, TakeBuild, LeaveBuildQueue, EndBuild, EndRun, shares, Held
    <3>2. CASE StartChild(s) \/ StartFails(s)
      BY <3>2 DEF StartChild, StartFails, shares, Held
    <3>3. CASE Cancel(s) \/ ChildActs(s) \/ WatchKills(s) \/ Kill(s) \/ KillReturns(s)
      BY <3>3 DEF Cancel, ChildActs, WatchKills, Kill, KillReturns, shares
    <3> QED  BY <1>7, <3>1, <3>2, <3>3 DEF Step
  <2>2. At(Held)' = At(Held) /\ At({"wanting"})' = At({"wanting"})
    <3>1. CASE at' = at
      BY <3>1 DEF At
    <3>2. CASE \E from, to \in Held : Go(s, from, to)
      <4>1. PICK from \in Held, to \in Held : Go(s, from, to)
        BY <3>2
      <4>2. from # "wanting" /\ to # "wanting"
        BY DEF Held
      <4> QED  BY <4>1, <4>2, Moved
    <3> QED  BY <2>1, <3>1, <3>2
  <2> QED  BY <2>1, <2>2 DEF BudgetSound
<1> QED  BY <1>3, <1>4, <1>5, <1>6, <1>7

LEMMA BuildsNext == Inv /\ Next => BuildsSound'
<1> SUFFICES ASSUME Inv, NEW s \in Scenario,
                    \/ AskBudget(s) \/ Step(s) \/ Cancel(s)
                    \/ ChildActs(s) \/ WatchKills(s) \/ (at[s] = "running" /\ Kill(s)) \/ KillReturns(s)
             PROVE  BuildsSound'
  BY DEF Next
<1> USE DEF Inv
<1>1. Measure(Count, One)
  BY Weights
<1>2. Clamped(builds, 1) = One[s]
  BY Weights DEF BuildsSound, Clamped, One
<1>3. CASE AskBuild(s)
  <2>1. Go(s, "staged", "build_wanting") /\ builds' = Acquire(builds, s, 1)
    BY <1>3 DEF AskBuild
  <2>2. /\ s \in Scenario \ (At({"building"}) \cup At({"build_wanting"}))
        /\ At({"building"})' = At({"building"})
        /\ At({"build_wanting"})' = At({"build_wanting"}) \cup {s}
    BY <2>1, Moved
  <2> QED  BY <1>1, <1>2, <2>1, <2>2, AcquireSound DEF BuildsSound
<1>4. CASE TakeBuild(s)
  <2>1. Granted(builds, s) /\ Go(s, "build_wanting", "building") /\ builds' = Noticed(builds, s)
    BY <1>4 DEF TakeBuild
  <2>2. /\ At({"building"})' = At({"building"}) \cup {s}
        /\ At({"build_wanting"})' = At({"build_wanting"}) \ {s}
    BY <2>1, Moved
  <2> QED  BY <2>1, <2>2, NoticedSound DEF BuildsSound
<1>5. CASE LeaveBuildQueue(s)
  <2>1. MayLeave(builds, s) /\ Go(s, "build_wanting", "cleanup") /\ builds' = Cancelled(builds, s)
    BY <1>5 DEF LeaveBuildQueue
  <2>2. /\ s \in At({"build_wanting"}) /\ At({"building"})' = At({"building"})
        /\ At({"build_wanting"})' = At({"build_wanting"}) \ {s}
    BY <2>1, Moved
  <2> QED  BY <1>1, <2>1, <2>2, CancelledSound DEF BuildsSound
<1>6. CASE EndBuild(s)
  <2>1. PICK to \in {"running", "cleanup"} : Go(s, "building", to)
    BY <1>6 DEF EndBuild
  <2>2. builds' = Release(builds, 1)
    BY <1>6 DEF EndBuild
  <2>3. /\ s \in At({"building"}) /\ At({"building"})' = At({"building"}) \ {s}
        /\ At({"build_wanting"})' = At({"build_wanting"})
    BY <2>1, Moved
  <2> QED  BY <1>1, <1>2, <2>2, <2>3, ReleaseSound DEF BuildsSound
<1>7. CASE ~(AskBuild(s) \/ TakeBuild(s) \/ LeaveBuildQueue(s) \/ EndBuild(s))
  <2> DEFINE Other == Stages \ {"building", "build_wanting"}
  <2>1. /\ builds' = builds
        /\ \/ at' = at
           \/ \E from, to \in Other : Go(s, from, to)
    <3>1. CASE AskBudget(s) \/ TakeBudget(s) \/ LeaveQueue(s) \/ Stage(s) \/ StageFails(s) \/ EndRun(s)
      BY <3>1 DEF AskBudget, TakeBudget, LeaveQueue, Stage, StageFails, EndRun, shares, Stages
    <3>2. CASE StartChild(s) \/ StartFails(s) \/ CleanUp(s)
      BY <3>2 DEF StartChild, StartFails, CleanUp, shares, Stages
    <3>3. CASE Cancel(s) \/ ChildActs(s) \/ WatchKills(s) \/ Kill(s) \/ KillReturns(s)
      BY <3>3 DEF Cancel, ChildActs, WatchKills, Kill, KillReturns, shares
    <3> QED  BY <1>7, <3>1, <3>2, <3>3 DEF Step
  <2>2. At({"building"})' = At({"building"}) /\ At({"build_wanting"})' = At({"build_wanting"})
    <3>1. CASE at' = at
      BY <3>1 DEF At
    <3>2. CASE \E from, to \in Other : Go(s, from, to)
      BY <3>2, Moved
    <3> QED  BY <2>1, <3>1, <3>2
  <2> QED  BY <2>1, <2>2 DEF BuildsSound
<1> QED  BY <1>3, <1>4, <1>5, <1>6, <1>7

-----------------------------------------------------------------------------
(* The ports and the processes *)

\* What was taken was never given out, and the cursor passes it.
LEMMA StageMoves ==
  ASSUME TypeOK, NEW s \in Scenario, Stage(s)
  PROVE  /\ cursor' \in cursor .. Band
         /\ \/ ports' = ports
            \/ \E taken \in SUBSET (cursor + 1 .. cursor') : ports' = [ports EXCEPT ![s] = taken]
<1>1. cursor \in Nat /\ Band \in Nat /\ cursor <= Band
  BY SuiteAssumption DEF TypeOK
<1>2. CASE \E taken \in SUBSET Candidates :
             ports' = [ports EXCEPT ![s] = taken] /\ cursor' = Max({cursor} \cup taken)
  <2>1. PICK taken \in SUBSET Candidates :
               ports' = [ports EXCEPT ![s] = taken] /\ cursor' = Max({cursor} \cup taken)
    BY <1>2
  <2> DEFINE K == {cursor} \cup taken
  <2>2. K \subseteq 0 .. Band /\ K # {} /\ cursor \in K
    BY <1>1 DEF Candidates
  <2>3. cursor' \in K /\ \A j \in K : j <= cursor'
    <3> HIDE DEF K
    <3>1. cursor' = Max(K)
      BY <2>1 DEF K
    <3> QED  BY <1>1, <2>2, <3>1, MaxOf
  <2>4. cursor' \in cursor .. Band
    BY <1>1, <2>2, <2>3
  <2>5. taken \subseteq cursor + 1 .. cursor'
    BY <1>1, <2>3, <2>4 DEF Candidates
  <2> QED  BY <2>1, <2>4, <2>5
<1>3. CASE cursor' = Band /\ ports' = ports
  BY <1>1, <1>3
<1> QED  BY <1>2, <1>3 DEF Stage

\* The steps that stage nothing leave the cursor alone and give nothing out.
LEMMA PortsMove ==
  ASSUME TypeOK, NEW s \in Scenario,
         \/ AskBudget(s) \/ Step(s) \/ Cancel(s)
         \/ ChildActs(s) \/ WatchKills(s) \/ (at[s] = "running" /\ Kill(s)) \/ KillReturns(s)
  PROVE  /\ cursor' \in cursor .. Band
         /\ \/ ports' = ports
            \/ \E taken \in SUBSET (cursor + 1 .. cursor') : ports' = [ports EXCEPT ![s] = taken]
<1>1. cursor \in cursor .. Band
  BY SuiteAssumption DEF TypeOK
<1>2. CASE Stage(s)
  BY <1>2, StageMoves
<1>3. CASE CleanUp(s)
  <2>1. {} \in SUBSET (cursor + 1 .. cursor') /\ cursor' = cursor /\ ports' = [ports EXCEPT ![s] = {}]
    BY <1>3 DEF CleanUp
  <2> QED  BY <1>1, <2>1
<1>4. CASE \/ AskBudget(s) \/ TakeBudget(s) \/ LeaveQueue(s) \/ StageFails(s)
           \/ AskBuild(s) \/ TakeBuild(s) \/ LeaveBuildQueue(s) \/ EndBuild(s)
  BY <1>1, <1>4 DEF AskBudget, TakeBudget, LeaveQueue, StageFails, AskBuild, TakeBuild,
                    LeaveBuildQueue, EndBuild
<1>5. CASE \/ StartChild(s) \/ StartFails(s) \/ EndRun(s) \/ Kill(s)
           \/ Cancel(s) \/ ChildActs(s) \/ WatchKills(s) \/ KillReturns(s)
  BY <1>1, <1>5 DEF StartChild, StartFails, EndRun, Kill, Cancel, ChildActs, WatchKills, KillReturns
<1> QED  BY <1>2, <1>3, <1>4, <1>5 DEF Step

LEMMA PortsNext == TypeOK /\ PortsApart /\ Next =>
  PortsApart' /\ cursor' \in 0 .. Band /\ ports' \in [Scenario -> SUBSET (1 .. Band)]
<1> SUFFICES ASSUME TypeOK, PortsApart, NEW s \in Scenario,
                    \/ AskBudget(s) \/ Step(s) \/ Cancel(s)
                    \/ ChildActs(s) \/ WatchKills(s) \/ (at[s] = "running" /\ Kill(s)) \/ KillReturns(s)
             PROVE  /\ PortsApart' /\ cursor' \in 0 .. Band
                    /\ ports' \in [Scenario -> SUBSET (1 .. Band)]
  BY DEF Next
<1>1. cursor \in Nat /\ Band \in Nat /\ ports \in [Scenario -> SUBSET (1 .. Band)]
  BY SuiteAssumption DEF TypeOK
<1>2. cursor' \in Nat /\ cursor <= cursor' /\ cursor' <= Band
  BY <1>1, PortsMove
<1>3. \A t \in Scenario : ports[t] \subseteq 1 .. cursor
  BY DEF PortsApart
<1>4. CASE ports' = ports
  BY <1>1, <1>2, <1>4 DEF PortsApart
<1>5. CASE \E taken \in SUBSET (cursor + 1 .. cursor') : ports' = [ports EXCEPT ![s] = taken]
  <2>1. PICK taken \in SUBSET (cursor + 1 .. cursor') : ports' = [ports EXCEPT ![s] = taken]
    BY <1>5
  <2>2. taken \subseteq 1 .. cursor' /\ taken \cap (1 .. cursor) = {} /\ 1 .. cursor \subseteq 1 .. cursor'
        /\ 1 .. cursor' \subseteq 1 .. Band
    BY <1>1, <1>2
  <2>3. ports'[s] = taken /\ \A t \in Scenario \ {s} : ports'[t] = ports[t]
    BY <1>1, <2>1
  <2>4. ports' \in [Scenario -> SUBSET (1 .. Band)]
    BY <1>1, <2>1, <2>2
  <2>5. \A t \in Scenario : ports'[t] \subseteq 1 .. cursor'
    BY <1>3, <2>2, <2>3
  <2>6. ASSUME NEW t \in Scenario, NEW r \in Scenario, t # r
        PROVE  ports'[t] \cap ports'[r] = {}
    <3>1. CASE t # s /\ r # s
      BY <2>3, <2>6, <3>1 DEF PortsApart
    <3>2. CASE t = s
      BY <1>3, <2>2, <2>3, <2>6, <3>2
    <3>3. CASE r = s
      BY <1>3, <2>2, <2>3, <2>6, <3>3
    <3> QED  BY <3>1, <3>2, <3>3
  <2> QED  BY <1>2, <2>4, <2>5, <2>6 DEF PortsApart
<1> QED  BY <1>4, <1>5, PortsMove

\* What the steps of a start, of the process and of a kill make of it.
LEMMA ChildSteps ==
  ASSUME NEW c \in Child
  PROVE  /\ NoChild \in Child /\ NoChild.at = "idle" /\ NoChild.proc = "none" /\ NoChild.kin = "none"
         /\ Created(c) \in Child /\ Created(c).at = "created"
         /\ Created(c).proc = c.proc /\ Created(c).kin = c.kin
         /\ Launched(c) \in Child /\ Launched(c).at = "launched"
         /\ Launched(c).proc = "suspended" /\ Launched(c).kin = c.kin
         /\ Assigned(c) \in Child /\ Assigned(c).at = "assigned"
         /\ Assigned(c).proc = c.proc /\ Assigned(c).kin = c.kin
         /\ Resumed(c) \in Child /\ Resumed(c).at = "ready"
         /\ ResumeFailed(c) \in Child /\ ResumeFailed(c).at = "stuck"
         /\ ResumeFailed(c).proc = c.proc /\ ResumeFailed(c).kin = c.kin
         /\ Spawned(c) \in Child /\ Spawned(c).at = c.at
         /\ Exited(c) \in Child /\ Exited(c).at = c.at
<1> QED  BY DEF Child, NoChild, Created, Launched, Assigned, Resumed, ResumeFailed, Spawned, Exited

LEMMA ChildKills ==
  ASSUME NEW c \in Child
  PROVE  /\ Closed(c) \in Child /\ Closed(c).at = c.at
         /\ Killed(c) \in Child /\ Killed(c).at = c.at
         /\ c.kin = "none" =>
              /\ AssignFailed(c) \in Child /\ AssignFailed(c).at = "refused"
              /\ AssignFailed(c).proc = "dead" /\ AssignFailed(c).kin = "none"
<1> QED  BY DEF Child, Closed, Killed, AssignFailed

\* A step of a scenario keeps the types and leaves its process to its stage.
LEMMA ChildNext ==
  ASSUME TypeOK, ChildrenHeld, NEW s \in Scenario,
         \/ AskBudget(s) \/ Step(s) \/ Cancel(s)
         \/ ChildActs(s) \/ WatchKills(s) \/ (at[s] = "running" /\ Kill(s)) \/ KillReturns(s)
  PROVE  /\ at' \in [Scenario -> Stages] /\ ended' \in SUBSET Scenario
         /\ child' \in [Scenario -> Child] /\ ChildrenHeld'
<1> DEFINE c == child[s]
<1>1. /\ at \in [Scenario -> Stages] /\ child \in [Scenario -> Child] /\ ended \in SUBSET Scenario
      /\ c \in Child /\ ChildHeld(c, at[s]) /\ at[s] \in Stages
  BY DEF TypeOK, ChildrenHeld
<1>2. SUFFICES /\ ended' \in SUBSET Scenario
               /\ \E to \in Stages, d \in Child :
                    /\ at' = [at EXCEPT ![s] = to] /\ child' = [child EXCEPT ![s] = d]
                    /\ ChildHeld(d, to)
  <2> SUFFICES ASSUME NEW to \in Stages, NEW d \in Child,
                      at' = [at EXCEPT ![s] = to], child' = [child EXCEPT ![s] = d],
                      ChildHeld(d, to)
               PROVE  /\ at' \in [Scenario -> Stages] /\ child' \in [Scenario -> Child]
                      /\ ChildrenHeld'
    OBVIOUS
  <2>1. at' \in [Scenario -> Stages] /\ child' \in [Scenario -> Child]
    BY <1>1
  <2>2. ASSUME NEW t \in Scenario PROVE ChildHeld(child'[t], at'[t])
    <3>1. CASE t = s
      BY <1>1, <3>1
    <3>2. CASE t # s
      <4>1. child'[t] = child[t] /\ at'[t] = at[t]
        BY <1>1, <3>2
      <4> QED  BY <4>1 DEF ChildrenHeld
    <3> QED  BY <3>1, <3>2
  <2>3. ChildrenHeld'
    BY <2>2 DEF ChildrenHeld
  <2> QED  BY <2>1, <2>3
<1>3. at = [at EXCEPT ![s] = at[s]] /\ child = [child EXCEPT ![s] = c]
  BY <1>1
<1>4. CASE \/ AskBudget(s) \/ TakeBudget(s) \/ LeaveQueue(s) \/ Stage(s) \/ StageFails(s)
           \/ AskBuild(s) \/ TakeBuild(s) \/ LeaveBuildQueue(s) \/ EndBuild(s) \/ EndRun(s)
  <2>1. child' = child /\ ended' \in SUBSET Scenario
    BY <1>1, <1>4 DEF AskBudget, TakeBudget, LeaveQueue, Stage, StageFails, AskBuild, TakeBuild,
                      LeaveBuildQueue, EndBuild, EndRun
  <2>2. PICK from \in Stages \ {"starting", "cleanup"}, to \in Stages :
          Go(s, from, to) /\ (from = "running" => to = "cleanup")
    <3>1. \/ Go(s, "new", "wanting") \/ Go(s, "wanting", "staging") \/ Go(s, "wanting", "new")
          \/ Go(s, "staging", "staged") \/ Go(s, "staging", "cleanup") \/ Go(s, "staged", "cleanup")
          \/ Go(s, "staged", "build_wanting") \/ Go(s, "build_wanting", "building")
          \/ Go(s, "build_wanting", "cleanup") \/ Go(s, "building", "running")
          \/ Go(s, "building", "cleanup") \/ Go(s, "running", "cleanup")
      BY <1>4 DEF AskBudget, TakeBudget, LeaveQueue, Stage, StageFails, AskBuild, TakeBuild,
                  LeaveBuildQueue, EndBuild, EndRun
    <3> QED  BY <3>1 DEF Stages
  <2>3. at' = [at EXCEPT ![s] = to] /\ at[s] = from
    BY <2>2 DEF Go
  <2>4. ChildHeld(c, to)
    BY <1>1, <2>2, <2>3 DEF ChildHeld
  <2> HIDE DEF c
  <2> QED  BY <1>1, <1>3, <2>1, <2>3, <2>4
<1>5. CASE StartChild(s)
  <2>1. ended' = ended
    BY <1>5 DEF StartChild
  <2>2. CASE Go(s, "running", "starting") /\ c.at = "idle" /\ child' = [child EXCEPT ![s] = Created(@)]
    <3>1. at' = [at EXCEPT ![s] = "starting"] /\ child' = [child EXCEPT ![s] = Created(c)]
      BY <2>2 DEF Go
    <3>2. Created(c) \in Child /\ ChildHeld(Created(c), "starting") /\ "starting" \in Stages
      BY <1>1, <2>2, ChildSteps DEF ChildHeld, Stages
    <3> QED  BY <1>1, <2>1, <3>1, <3>2
  <2>3. CASE at[s] = "starting" /\ c.at = "created" /\ child' = [child EXCEPT ![s] = Launched(@)] /\ UNCHANGED at
    <3>1. Launched(c) \in Child /\ ChildHeld(Launched(c), at[s])
      BY <1>1, <2>3, ChildSteps DEF ChildHeld
    <3> QED  BY <1>1, <1>3, <2>1, <2>3, <3>1
  <2>4. CASE at[s] = "starting" /\ c.at = "launched" /\ child' = [child EXCEPT ![s] = Assigned(@)] /\ UNCHANGED at
    <3>1. Assigned(c) \in Child /\ ChildHeld(Assigned(c), at[s])
      BY <1>1, <2>4, ChildSteps DEF ChildHeld
    <3> QED  BY <1>1, <1>3, <2>1, <2>4, <3>1
  <2>5. CASE Go(s, "starting", "running") /\ child' = [child EXCEPT ![s] = Resumed(@)]
    <3>1. at' = [at EXCEPT ![s] = "running"] /\ child' = [child EXCEPT ![s] = Resumed(c)]
      BY <2>5 DEF Go
    <3>2. Resumed(c) \in Child /\ ChildHeld(Resumed(c), "running") /\ "running" \in Stages
      BY <1>1, ChildSteps DEF ChildHeld, Stages
    <3> QED  BY <1>1, <2>1, <3>1, <3>2
  <2> QED  BY <1>5, <2>2, <2>3, <2>4, <2>5 DEF StartChild
<1>6. CASE StartFails(s)
  <2>1. ended' = ended
    BY <1>6 DEF StartFails
  <2>2. CASE Go(s, "starting", "cleanup") /\ child' = [child EXCEPT ![s] = NoChild]
    <3>1. at' = [at EXCEPT ![s] = "cleanup"]
      BY <2>2 DEF Go
    <3>2. NoChild \in Child /\ ChildHeld(NoChild, "cleanup") /\ "cleanup" \in Stages
      BY <1>1, ChildSteps DEF ChildHeld, Stages
    <3> QED  BY <1>1, <2>1, <2>2, <3>1, <3>2
  <2>3. CASE /\ Go(s, "starting", "cleanup") /\ c.at = "launched"
             /\ child' = [child EXCEPT ![s] = AssignFailed(@)]
    <3>1. at' = [at EXCEPT ![s] = "cleanup"] /\ child' = [child EXCEPT ![s] = AssignFailed(c)]
      BY <2>3 DEF Go
    <3>2. AssignFailed(c) \in Child /\ ChildHeld(AssignFailed(c), "cleanup") /\ "cleanup" \in Stages
      BY <1>1, <2>3, ChildKills DEF ChildHeld, Stages
    <3> QED  BY <1>1, <2>1, <3>1, <3>2
  <2>4. CASE at[s] = "starting" /\ c.at = "assigned" /\ child' = [child EXCEPT ![s] = ResumeFailed(@)] /\ UNCHANGED at
    <3>1. ResumeFailed(c) \in Child /\ ChildHeld(ResumeFailed(c), at[s])
      BY <1>1, <2>4, ChildSteps DEF ChildHeld
    <3> QED  BY <1>1, <1>3, <2>1, <2>4, <3>1
  <2> QED  BY <1>6, <2>2, <2>3, <2>4 DEF StartFails
<1>7. CASE ChildActs(s) \/ WatchKills(s) \/ Kill(s)
  <2>1. ended' = ended /\ at' = at
    BY <1>7 DEF ChildActs, WatchKills, Kill
  <2>2. c.at = "ready"
    <3>1. CASE ChildActs(s)
      BY <1>1, <3>1 DEF ChildActs, ChildHeld, Child
    <3>2. CASE WatchKills(s) \/ Kill(s)
      BY <3>2 DEF WatchKills, Kill, MayKill
    <3> QED  BY <1>7, <3>1, <3>2
  <2>3. PICK d : d \in {Spawned(c), Exited(c), Closed(c), Killed(c)} /\ child' = [child EXCEPT ![s] = d]
    BY <1>7 DEF ChildActs, WatchKills, Kill
  <2>4. d \in Child /\ d.at = "ready"
    BY <1>1, <2>2, <2>3, ChildSteps, ChildKills
  <2>5. ChildHeld(d, at[s])
    BY <1>1, <2>2, <2>4 DEF ChildHeld
  <2> QED  BY <1>1, <1>3, <2>1, <2>3, <2>4, <2>5
<1>8. CASE KillReturns(s)
  <2>1. ended' = ended /\ at' = at /\ child' = [child EXCEPT ![s] = NoChild]
    BY <1>8 DEF KillReturns
  <2>2. NoChild \in Child /\ ChildHeld(NoChild, at[s])
    BY <1>1, ChildSteps DEF ChildHeld
  <2> QED  BY <1>1, <1>3, <2>1, <2>2
<1>9. CASE CleanUp(s)
  <2>1. at' = [at EXCEPT ![s] = "new"] /\ ended' \in SUBSET Scenario
    BY <1>1, <1>9 DEF CleanUp, Go
  <2>2. ~Lives(c)
    <3>1. c.at \in {"idle", "refused"} \/ Done(c)
      BY <1>9 DEF CleanUp, Cleaned
    <3> QED  BY <1>1, <3>1 DEF ChildHeld, Done, Lives
  <2>3. child' = [child EXCEPT ![s] = NoChild]
    BY <1>9, <2>2 DEF CleanUp
  <2>4. NoChild \in Child /\ ChildHeld(NoChild, "new") /\ "new" \in Stages
    BY <1>1, ChildSteps DEF ChildHeld, Stages
  <2> QED  BY <1>1, <2>1, <2>3, <2>4
<1>10. CASE Cancel(s)
  <2>1. ended' \in SUBSET Scenario /\ at' = at /\ child' = child
    BY <1>1, <1>10 DEF Cancel
  <2> HIDE DEF c
  <2> QED  BY <1>1, <1>3, <2>1
<1> QED  BY <1>4, <1>5, <1>6, <1>7, <1>8, <1>9, <1>10 DEF Step

LEMMA StepInv == Inv /\ [Next]_vars => Inv'
<1> SUFFICES ASSUME Inv, [Next]_vars PROVE Inv'
  OBVIOUS
<1>1. CASE UNCHANGED vars
  BY <1>1 DEF Inv, TypeOK, BudgetSound, BuildsSound, PortsApart, ChildrenHeld, At, vars, shares
<1>2. CASE Next
  <2>1. BudgetSound' /\ BuildsSound'
    BY <1>2, BudgetNext, BuildsNext
  <2>2. PortsApart' /\ cursor' \in 0 .. Band /\ ports' \in [Scenario -> SUBSET (1 .. Band)]
    BY <1>2, PortsNext DEF Inv
  <2>3. /\ at' \in [Scenario -> Stages] /\ ended' \in SUBSET Scenario
        /\ child' \in [Scenario -> Child] /\ ChildrenHeld'
    BY <1>2, ChildNext DEF Next, Inv
  <2> QED  BY <2>1, <2>2, <2>3 DEF Inv, TypeOK
<1> QED  BY <1>1, <1>2

\* The inductive invariant holds in every reachable state.
THEOREM InvHolds == Spec => []Inv
BY InitInv, StepInv, PTL DEF Spec

-----------------------------------------------------------------------------
(* What follows *)

\* However scenarios come, are granted, give up and leave, each semaphore counts
\* what its holders hold and never more than it has (Acquire, Release, notify).
THEOREM CapacityAlwaysAccounted == Spec => []CapacityIsAccounted
<1>1. ASSUME Inv PROVE CapacityIsAccounted
  <2> USE <1>1 DEF Inv
  <2>1. {s \in Scenario : Holds(s)} = At(Held) \cup budget.ready
    BY DEF BudgetSound, Sound, TypeOK, At, Held, Holds, Granted
  <2>2. {s \in Scenario : Builds(s)} = At({"building"}) \cup builds.ready
    BY DEF BuildsSound, Sound, TypeOK, At, Builds, Granted
  <2>3. budget.cur = MapThenSumSet(LAMBDA s : Clamped(budget, Machines[s]), {s \in Scenario : Holds(s)})
    <3>1. \A s \in Scenario : Machine[s] = Clamped(budget, Machines[s])
      BY DEF Machine, BudgetSound, Clamped
    <3>2. Machine \in [Scenario -> Nat]
      BY Weights
    <3>3. ASSUME NEW S \in SUBSET Scenario PROVE Asked(budget, S) = MachineSum[S]
      <4>1. Sums(MachineSum, Machine, SUBSET Scenario) /\ IsFiniteSet(Scenario)
        BY Weights, SuiteAssumption
      <4> QED  BY <3>1, <3>2, <4>1, FoldSums
    <3>4. budget.cur = Asked(budget, {s \in Scenario : Holds(s)})
      BY <2>1, <3>3 DEF BudgetSound, Sound
    <3> QED  BY <3>4 DEF Asked
  <2>4. builds.cur = Cardinality({s \in Scenario : Builds(s)})
    <3>1. At({"building"}) \cup builds.ready \in SUBSET Scenario
      BY <2>2
    <3> QED  BY <2>2, <3>1 DEF BuildsSound, Sound, Count
  <2>5. budget.cur <= budget.max /\ builds.cur <= builds.max
    BY DEF BudgetSound, BuildsSound, Sound
  <2> QED  BY <2>3, <2>4, <2>5 DEF CapacityIsAccounted
<1> QED  BY <1>1, InvHolds, PTL

\* Nobody waits for room that is there, also after one in front of it gave up
\* (notify, from Release and from a cancelled Acquire).
THEOREM NobodyEverWaitsInVain == Spec => []NobodyWaitsInVain
<1>1. Inv => NobodyWaitsInVain
  BY DEF Inv, BudgetSound, BuildsSound, Full, NobodyWaitsInVain
<1> QED  BY <1>1, InvHolds, PTL

\* No process outlives the share its scenario holds, and no port is given twice
\* (DeploySite's cleanups, Take).
THEOREM ScenariosStayApart == Spec => []ScenariosAreApart
<1>1. ASSUME Inv PROVE ScenariosAreApart
  <2> SUFFICES ASSUME NEW s \in Scenario
               PROVE  /\ Lives(child[s]) => Holds(s)
                      /\ \A r \in Scenario \ {s} : ports[s] \cap ports[r] = {}
    BY DEF ScenariosAreApart
  <2>1. ChildHeld(child[s], at[s]) /\ child[s] \in Child
    BY <1>1 DEF Inv, TypeOK, ChildrenHeld
  <2>2. Lives(child[s]) => at[s] \in {"starting", "running", "cleanup"}
    BY <2>1 DEF ChildHeld, Child, Lives
  <2> QED  BY <1>1, <2>2 DEF Holds, Inv, PortsApart
<1> QED  BY <1>1, InvHolds, PTL

=============================================================================
