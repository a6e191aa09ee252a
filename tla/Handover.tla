------------------------------ MODULE Handover ------------------------------
(***************************************************************************)
(* What a machine's two instances promise each other, without files,       *)
(* clocks, probes or failures: an instance composes its Active resources   *)
(* on its turn and closes them before it offers the lease to its peer, and *)
(* it does not open them again while that offer stands.                    *)
(*                                                                         *)
(* The promise is deliberately weaker than mutual exclusion, which the     *)
(* lease does not give (see Ownership).                                    *)
(***************************************************************************)
CONSTANT Instances

VARIABLES
  turn,   \* "out" of the machine, "idle" or "active"
  offer   \* the instance whose offer of the lease stands, or "none"

vars == <<turn, offer>>

Init ==
  /\ turn = [i \in Instances |-> "out"]
  /\ offer = "none"

Enter(i) ==
  /\ turn[i] = "out"
  /\ turn' = [turn EXCEPT ![i] = "idle"]
  /\ UNCHANGED offer

\* An instance leaves, or dies, at any time; an offer it made stands.
Exit(i) ==
  /\ turn[i] # "out"
  /\ turn' = [turn EXCEPT ![i] = "out"]
  /\ UNCHANGED offer

Open(i) ==
  /\ turn[i] = "idle"
  /\ offer # i
  /\ turn' = [turn EXCEPT ![i] = "active"]
  /\ UNCHANGED offer

Close(i) ==
  /\ turn[i] = "active"
  /\ turn' = [turn EXCEPT ![i] = "idle"]
  /\ UNCHANGED offer

Offer(i) ==
  /\ turn[i] = "idle"
  /\ offer' = i
  /\ UNCHANGED turn

\* An instance claims the lease, or an owner that never read the offer renews
\* over it.
Claim(i) ==
  /\ turn[i] # "out"
  /\ offer' = "none"
  /\ UNCHANGED turn

Next ==
  \E i \in Instances :
    Enter(i) \/ Exit(i) \/ Open(i) \/ Close(i) \/ Offer(i) \/ Claim(i)

Spec == Init /\ [][Next]_vars
=============================================================================
