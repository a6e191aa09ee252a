--------------------------- MODULE EventStorageMC ---------------------------
(* Two threads publish in one process and one in the other. *)
EXTENDS EventStorage, TLC

CONSTANTS primary, standby, main, loop

Facts == primary :> (main :> 1 @@ loop :> 1) @@ standby :> (main :> 1 @@ loop :> 0)
=============================================================================
