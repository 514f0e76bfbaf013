-------------------------- MODULE MCClusterControl --------------------------
(* Two handlers at a time; how many rows and requests, the .cfg files say. *)
EXTENDS ClusterControl, TLC

Symmetry == Permutations(Handlers) \cup Permutations(Configs) \cup Permutations(Workers)
=============================================================================
