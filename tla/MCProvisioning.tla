--------------------------- MODULE MCProvisioning ---------------------------
(* Two jobs that may ask for the same name, one other handler, room for    *)
(* one more registered cluster, one crash.                                 *)
EXTENDS Provisioning, TLC

Symmetry == Permutations(Jobs) \cup Permutations(Names)
=============================================================================
