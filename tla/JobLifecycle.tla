---------------------------- MODULE JobLifecycle ----------------------------
(***************************************************************************)
(* What a provision job promises to whoever polls it: it is accepted, it   *)
(* may be seen running, and it settles once, for good.  A job that         *)
(* succeeded names the cluster it made; one that failed may name a cluster *)
(* it left behind; two jobs never name the same cluster.                   *)
(***************************************************************************)
CONSTANTS Jobs,         (* the provision jobs                      *)
          ClusterIds,   (* the ids a cluster record can have       *)
          NoCluster     (* an absent resultClusterId, no ClusterIds *)

VARIABLES status,   (* what a poll of the job reports                     *)
          result    (* resultClusterId, as the poll reports it            *)

vars == <<status, result>>

Active   == {"pending", "running"}
Terminal == {"succeeded", "failed"}

Fresh(j, c) == \A k \in Jobs \ {j} : result[k] # c

Init == /\ status = [j \in Jobs |-> "none"]
        /\ result = [j \in Jobs |-> NoCluster]

Accept(j) == /\ status[j] = "none"
             /\ status' = [status EXCEPT ![j] = "pending"]
             /\ UNCHANGED result

Progress(j) == /\ status[j] \in Active
               /\ status' = [status EXCEPT ![j] = "running"]
               /\ UNCHANGED result

Succeed(j, c) == /\ status[j] \in Active
                 /\ Fresh(j, c)
                 /\ status' = [status EXCEPT ![j] = "succeeded"]
                 /\ result' = [result EXCEPT ![j] = c]

Fail(j, c) == /\ status[j] \in Active
              /\ c # NoCluster => Fresh(j, c)
              /\ status' = [status EXCEPT ![j] = "failed"]
              /\ result' = [result EXCEPT ![j] = c]

(* A restart of the server fails every job it finds unfinished at once.    *)
AbandonActive ==
  /\ status' = [j \in Jobs |-> IF status[j] \in Active THEN "failed" ELSE status[j]]
  /\ UNCHANGED result

Next == \/ \E j \in Jobs : Accept(j) \/ Progress(j)
        \/ \E j \in Jobs, c \in ClusterIds : Succeed(j, c)
        \/ \E j \in Jobs, c \in ClusterIds \cup {NoCluster} : Fail(j, c)
        \/ AbandonActive

Spec == Init /\ [][Next]_vars
=============================================================================
