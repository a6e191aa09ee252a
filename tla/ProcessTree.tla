----------------------------- MODULE ProcessTree -----------------------------
(***************************************************************************)
(* A child process and what it starts in turn, inside a job object that    *)
(* kills what is in it when its handle is closed (scenarios/internal:      *)
(* processtree.Owner, procrun.Process), as operators on its state:         *)
(*                                                                         *)
(*   at    how far processtree.Start is; "stuck" when it waits for itself  *)
(*   job   the job's handle is open                                        *)
(*   held  the process is in the job                                       *)
(*   proc  the process: none, suspended, live or dead                      *)
(*   kin   what it started, which is in the job if it was                  *)
(*                                                                         *)
(* One process is started at a time for each owner.                        *)
(***************************************************************************)
EXTENDS Naturals

NoChild == [at |-> "idle", job |-> FALSE, held |-> FALSE, proc |-> "none", kin |-> "none"]

\* Whatever of it still runs.
Lives(c) == c.proc \in {"suspended", "live"} \/ c.kin # "none"

\* newOwner.
Created(c) == [c EXCEPT !.at = "created", !.job = TRUE]

\* The handle is closed, and what is in the job is killed; a second Close does
\* nothing.
Closed(c) ==
  [c EXCEPT !.job = FALSE,
            !.proc = IF c.job /\ c.held /\ c.proc # "none" THEN "dead" ELSE @,
            !.kin = IF c.job /\ @ = "inside" THEN "none" ELSE @]

\* Variant: the process runs before it is in the job.
LaunchedRunning(c) == [c EXCEPT !.at = "launched", !.proc = "live"]

\* command.Start: the process exists and does not run yet.
Launched(c) == [c EXCEPT !.at = "launched", !.proc = "suspended"]

Assigned(c) == [c EXCEPT !.at = "assigned", !.held = TRUE]

\* It could not be assigned: it is killed and waited for, and the job closed.
AssignFailed(c) == [Closed([c EXCEPT !.proc = "dead"]) EXCEPT !.at = "refused"]

\* Start returns, and closes "ready" as it does.
Resumed(c) == [c EXCEPT !.at = "ready", !.proc = "live"]

\* Start calls Kill, which waits for the "ready" that only its return closes.
ResumeFailed(c) == [c EXCEPT !.at = "stuck"]

\* The process starts another, which inherits its job.
Spawned(c) == [c EXCEPT !.kin = IF c.held THEN "inside" ELSE "outside"]
Exited(c) == [c EXCEPT !.proc = "dead"]

\* Owner.Kill may go on: Start has returned.
MayKill(c) == c.at = "ready"

\* Process.Kill: the tree, then the process itself.
Killed(c) == [Closed(c) EXCEPT !.proc = "dead"]

\* cmd.Wait has returned: the process is gone, and nobody holds its output.
Done(c) == c.at = "ready" /\ c.proc = "dead" /\ c.kin = "none"
=============================================================================
