------------------------------ MODULE MCConsole ------------------------------
(* An administrator logs in first; the next login is of a user who may     *)
(* read either registries or users, as the server has it at the moment.    *)
(* The list read again is the one that no end of a session but a 401, and  *)
(* no hydration, clears: the next user may find the administrator's.       *)
EXTENDS ConsoleStreams, TLC

Admin == {"dashboard:read", "clusters:read", "clusters:write", "resources:read",
          "registries:read", "users:read"}
TwoUsers == <<{Admin}, {{"registries:read"}, {"users:read"}}>>

Symmetry == Permutations(Containers)
=============================================================================
