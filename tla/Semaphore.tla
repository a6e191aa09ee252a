------------------------------ MODULE Semaphore ------------------------------
(***************************************************************************)
(* The weighted semaphore (scenarios/internal/semaphore) as operators on   *)
(* its state.  Each is what happens under its lock; closing a waiter's     *)
(* channel is membership in "ready" until the waiter has noticed.          *)
(***************************************************************************)
EXTENDS Naturals, Sequences, SequencesExt

New(capacity) ==
  [max |-> IF capacity = 0 THEN 1 ELSE capacity, cur |-> 0, waiters |-> <<>>, ready |-> {}]

Clamped(s, n) == IF n < s.max THEN n ELSE s.max

\* What the first k waiters want together.
Wanted(s, k) ==
  LET sum[j \in 0..k] == IF j = 0 THEN 0 ELSE sum[j - 1] + s.waiters[j].n IN sum[k]

\* notify: waiters are granted from the head, up to the first that does not fit.
Notified(s) ==
  LET k == Max({0} \cup {j \in 1..Len(s.waiters) : s.cur + Wanted(s, j) <= s.max})
  IN [s EXCEPT !.cur = @ + Wanted(s, k),
               !.ready = @ \cup {s.waiters[j].who : j \in 1..k},
               !.waiters = SubSeq(@, k + 1, Len(@))]

\* Variant: who arrives is served before who waits, if there is room.
GrantedByRoom(s, n) == s.cur + n <= s.max

\* Room, and nobody to overtake.
GrantedAtOnce(s, n) == s.waiters = <<>> /\ s.cur + n <= s.max

\* The first half of Acquire.
Acquire(s, who, n) ==
  LET w == Clamped(s, n)
  IN IF GrantedAtOnce(s, w)
     THEN [s EXCEPT !.cur = @ + w, !.ready = @ \cup {who}]
     ELSE [s EXCEPT !.waiters = Append(@, [who |-> who, n |-> w])]

Granted(s, who) == who \in s.ready
Noticed(s, who) == [s EXCEPT !.ready = @ \ {who}]

\* Variant: a waiter whose context ended does not look at its channel again.
MayLeaveGranted(s, who) == TRUE

\* A waiter that was granted as its context ended keeps the grant.
MayLeave(s, who) == ~Granted(s, who)

\* The queue without one waiter; where it is not in the queue nothing is removed.
Without(s, who) ==
  LET i == CHOOSE j \in DOMAIN s.waiters : s.waiters[j].who = who
  IN  IF \E j \in DOMAIN s.waiters : s.waiters[j].who = who
      THEN [s EXCEPT !.waiters = RemoveAt(@, i)]
      ELSE s

\* Variant: those behind the one that leaves are not looked at.
CancelledSilently(s, who) == Without(s, who)

\* A waiter that was not granted leaves; those behind it may fit now.
Cancelled(s, who) == Notified(Without(s, who))

Release(s, n) ==
  Notified([s EXCEPT !.cur = IF @ < Clamped(s, n) THEN 0 ELSE @ - Clamped(s, n)])
=============================================================================
