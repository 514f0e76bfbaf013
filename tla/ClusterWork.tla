----------------------------- MODULE ClusterWork -----------------------------
(***************************************************************************)
(* What the server does in a cluster: requests that change its objects,    *)
(* and a terminal.  They share nothing, so a behaviour is of one of them,  *)
(* chosen at its start.                                                    *)
(***************************************************************************)
EXTENDS ClusterObjects, PodTerminal

CONSTANT Work   (* bound: "objects", "terminal", one a behaviour             *)

VARIABLE work

vars == <<work, objectVars, terminalVars>>

Init == work \in Work /\ ObjectsInit /\ TerminalInit

Next ==
  /\ UNCHANGED work
  /\ \/ work = "objects" /\ ObjectsNext /\ UNCHANGED terminalVars
     \/ work = "terminal" /\ TerminalNext /\ UNCHANGED objectVars

Spec == Init /\ [][Next]_vars /\ (work = "terminal" => TerminalFairness)

TypeOK == work \in Work /\ ObjectsTypeOK /\ TerminalTypeOK
=============================================================================
