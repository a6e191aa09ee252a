------------------------------- MODULE PackMC -------------------------------
(***************************************************************************)
(* Three machines, two of which have names that differ only by case and so *)
(* share a directory where the file system does not tell them apart.       *)
(***************************************************************************)
EXTENDS Pack, TLC

MCMachines == {"press", "Press", "oven"}
MCOrder == <<"Press", "oven", "press">>
MCDirectory == ("Press" :> "press") @@ ("press" :> "press") @@ ("oven" :> "oven")
=============================================================================
