------------------------------ MODULE MCAccess ------------------------------
(* Two requests at a time on few users and roles, with one restart.        *)
EXTENDS Access, TLC

Symmetry == Permutations(Handlers)
=============================================================================
