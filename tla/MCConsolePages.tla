---------------------------- MODULE MCConsolePages ----------------------------
(* Two clusters, one of which has a namespace the other lacks.             *)
EXTENDS ConsolePages, TLC

CONSTANTS k1, k2

Spaces == k1 :> {"default"} @@ k2 :> {"default", "prod"}
=============================================================================
