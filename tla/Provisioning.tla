---------------------------- MODULE Provisioning ----------------------------
(***************************************************************************)
(* Creating clusters with Kubespray: the API call that accepts a job, the  *)
(* goroutine that carries it out, the Kubespray container it starts, the   *)
(* import of the finished cluster into the platform's table, the restart   *)
(* of the server, and the administrators' calls on the same table.         *)
(*                                                                         *)
(* A goroutine's progress (pc) is lost in a crash; job rows, cluster rows, *)
(* key files and running containers are not.                               *)
(***************************************************************************)
EXTENDS GormTable

CONSTANTS Jobs,         (* provision jobs; each stands for one POST         *)
          Admins,       (* handlers of other cluster calls, one call each   *)
          Names,        (* names a cluster may be given                     *)
          Platform,     (* origin of a row no job imported                  *)
          Nothing,      (* an empty handler, an absent request              *)
          MaxClusters,  (* bound: cluster rows inserted in a behaviour      *)
          MaxCrashes    (* bound: crashes of the server in a behaviour      *)

ASSUME PlatformAssumption == Platform \notin Jobs
ASSUME BoundsAssumption   == MaxClusters \in Nat /\ MaxCrashes \in Nat

VARIABLES up,        (* the server process is running                       *)
          crashes,   (* how often it has crashed                            *)
          status,    (* cluster_provision_jobs.status; "none": no row       *)
          result,    (* cluster_provision_jobs.result_cluster_id; 0: NULL   *)
          request,   (* the request the handler and the goroutine hold      *)
          pc,        (* where the handler and then the goroutine stand      *)
          cluster,   (* cluster.ID in the goroutine; 0 before the INSERT    *)
          playbook,  (* the job's Kubespray container                       *)
          keyFile,   (* jobs/<id>/ssh/id_rsa on the server's disk           *)
          unsaved,   (* jobs whose last status write failed unnoticed       *)
          clusters,  (* the clusters table                                  *)
          nextId,    (* the clusters table's AUTOINCREMENT sequence         *)
          held       (* the row each handler of Admins has loaded           *)

vars == <<up, crashes, status, result, request, pc, cluster, playbook,
          keyFile, unsaved, clusters, nextId, held>>

jobVars   == <<status, result, unsaved>>
diskVars  == <<playbook, keyFile>>
tableVars == <<clusters, nextId>>
hostVars  == <<up, crashes>>

Active   == {"pending", "running"}
Terminal == {"succeeded", "failed"}

InRun   == {"image", "ssh", "launch", "wait"}   (* within Runner.Run, key written *)
Working == {"start", "prepare", "runFailed", "announce", "probe", "insert",
            "cordon", "cordonFailed", "save", "finish"} \cup InRun

ClusterIds  == 1..MaxClusters
ClusterRows == [id : ClusterIds, name : Names, origin : Jobs \cup {Platform}]
Requests    == [name : Names, mode : {"ready", "maintenance"}]

TypeOK ==
  /\ up \in BOOLEAN
  /\ crashes \in 0..MaxCrashes
  /\ status   \in [Jobs -> {"none"} \cup Active \cup Terminal]
  /\ result   \in [Jobs -> ClusterIds \cup {0}]
  /\ request  \in [Jobs -> Requests \cup {Nothing}]
  /\ pc       \in [Jobs -> {"none", "checked", "done", "dead"} \cup Working]
  /\ cluster  \in [Jobs -> ClusterIds \cup {0}]
  /\ playbook \in [Jobs -> {"none", "running", "ok", "failed"}]
  /\ keyFile  \in [Jobs -> {"absent", "partial", "whole"}]
  /\ unsaved  \in SUBSET Jobs
  /\ clusters \in SUBSET ClusterRows
  /\ nextId   \in 1..(MaxClusters + 1)
  /\ held     \in [Admins -> ClusterRows \cup {Nothing}]

Init ==
  /\ up = TRUE /\ crashes = 0
  /\ status   = [j \in Jobs |-> "none"]
  /\ result   = [j \in Jobs |-> 0]
  /\ request  = [j \in Jobs |-> Nothing]
  /\ pc       = [j \in Jobs |-> "none"]
  /\ cluster  = [j \in Jobs |-> 0]
  /\ playbook = [j \in Jobs |-> "none"]
  /\ keyFile  = [j \in Jobs |-> "absent"]
  /\ unsaved  = {}
  /\ clusters = {} /\ nextId = 1
  /\ held     = [a \in Admins |-> Nothing]

-----------------------------------------------------------------------------
(* Helpers: a goroutine's move, its status writes, its row.                *)

Move(j, from, to) == /\ up /\ pc[j] = from
                     /\ pc' = [pc EXCEPT ![j] = to]

(* updateJob: one UPDATE of the row, whose error the code drops.           *)
Report(j, st, r) ==
  \/ /\ status' = [status EXCEPT ![j] = st]
     /\ result' = [result EXCEPT ![j] = r]
     /\ UNCHANGED unsaved
  \/ /\ st \in Terminal
     /\ unsaved' = unsaved \cup {j}
     /\ UNCHANGED <<status, result>>
  \/ /\ st \notin Terminal
     /\ UNCHANGED jobVars

(* The last UPDATE, after which the goroutine and its request are gone.    *)
Settle(j, from, st, r) ==
  /\ Move(j, from, "done")
  /\ Report(j, st, r)
  /\ request' = [request EXCEPT ![j] = Nothing]

ImportedRow(j) == [id |-> cluster[j], name |-> request[j].name, origin |-> j]

-----------------------------------------------------------------------------
(* Faulty variants of actions and helpers below: each is a mistake the     *)
(* code could plausibly contain, and breaks one of the properties at the   *)
(* end of this module.                                                     *)

(* The maintenance error path without result_cluster_id. *)
ReportModeFailedNoResult(j) ==
  /\ Settle(j, "cordonFailed", "failed", result[j])
  /\ UNCHANGED <<hostVars, cluster, diskVars, tableVars, held>>

(* A name that is taken adopts the cluster that has it. *)
InsertClusterAdopt(j) ==
  /\ pc[j] = "insert"
  /\ \/ \E r \in clusters : r.name = request[j].name /\ Settle(j, "insert", "succeeded", r.id)
     \/ Settle(j, "insert", "failed", result[j])
  /\ UNCHANGED <<hostVars, diskVars, held, tableVars, cluster>>

(* An id sequence that reuses the ids of deleted rows. *)
RegisterReusingIds(n) ==
  LET free == CHOOSE i \in 1..nextId :
                /\ \A r \in clusters : r.id # i
                /\ \A k \in 1..(i - 1) : \E r \in clusters : r.id = k
      row == [id |-> free, name |-> n, origin |-> Platform]
  IN
  /\ up /\ nextId <= MaxClusters
  /\ ~ Clash(clusters, row)
  /\ clusters' = clusters \cup {row}
  /\ nextId' = IF free = nextId THEN nextId + 1 ELSE nextId
  /\ UNCHANGED <<hostVars, jobVars, request, pc, cluster, diskVars, held>>

(* A failed run that returns before the key is removed. *)
CollectArtifactKeepKey(j) ==
  /\ playbook[j] \in {"ok", "failed"}
  /\ \/ playbook[j] = "ok" /\ Move(j, "wait", "announce")
     \/ Move(j, "wait", "runFailed")
  /\ UNCHANGED <<hostVars, jobVars, request, cluster, diskVars, tableVars, held>>

(* An early return without updateJob. *)
ReportRunFailedSilently(j) ==
  /\ Move(j, "runFailed", "done")
  /\ UNCHANGED <<hostVars, jobVars, request, cluster, diskVars, tableVars, held>>

(* Recovery that looks for running jobs only, or for all of them. *)
RecoverRunningOnly ==
  LET unfinished == {j \in Jobs : status[j] = "running"} IN
  /\ status' = [j \in Jobs |-> IF j \in unfinished THEN "failed" ELSE status[j]]
  /\ UNCHANGED <<result, unsaved>>

RecoverEveryJob ==
  /\ status' = [j \in Jobs |-> IF status[j] = "none" THEN "none" ELSE "failed"]
  /\ UNCHANGED <<result, unsaved>>

-----------------------------------------------------------------------------
(* createClusterProvisionJob: the name must be free in the clusters table  *)
(* (other jobs are not looked at), then the row is inserted and the        *)
(* goroutine started.                                                      *)

CheckName(j) ==
  /\ Move(j, "none", "checked")
  /\ \E req \in Requests :
       /\ ~ \E r \in clusters : r.name = req.name
       /\ request' = [request EXCEPT ![j] = req]
  /\ UNCHANGED <<hostVars, jobVars, cluster, diskVars, tableVars, held>>

InsertJob(j) ==
  /\ \/ /\ Move(j, "checked", "start")
        /\ status' = [status EXCEPT ![j] = "pending"]
        /\ UNCHANGED request
     \/ /\ Move(j, "checked", "none")
        /\ request' = [request EXCEPT ![j] = Nothing]
        /\ UNCHANGED status
  /\ UNCHANGED <<hostVars, result, unsaved, cluster, diskVars, tableVars, held>>

Start(j) ==
  /\ Move(j, "start", "prepare")
  /\ Report(j, "running", result[j])
  /\ UNCHANGED <<hostVars, request, cluster, diskVars, tableVars, held>>

-----------------------------------------------------------------------------
(* Runner.Run.  The removal of the key is deferred only once prepareJob    *)
(* has returned without an error.                                          *)

PrepareJob(j) ==
  /\ \/ /\ Move(j, "prepare", "image")
        /\ keyFile' = [keyFile EXCEPT ![j] = "whole"]
     \/ /\ Move(j, "prepare", "runFailed")
        /\ \E k \in {"absent", "partial"} : keyFile' = [keyFile EXCEPT ![j] = k]
  /\ UNCHANGED <<hostVars, jobVars, request, cluster, playbook, tableVars, held>>

RemoveKey(j) == keyFile' = [keyFile EXCEPT ![j] = "absent"]

FailInRun(j) ==
  /\ \E at \in {"image", "ssh", "launch"} : Move(j, at, "runFailed")
  /\ RemoveKey(j)
  /\ UNCHANGED <<hostVars, jobVars, request, cluster, playbook, tableVars, held>>

EnsureImage(j) ==
  /\ Move(j, "image", "ssh")
  /\ UNCHANGED <<hostVars, jobVars, request, cluster, diskVars, tableVars, held>>

VerifySSHConnectivity(j) ==
  /\ Move(j, "ssh", "launch")
  /\ UNCHANGED <<hostVars, jobVars, request, cluster, diskVars, tableVars, held>>

LaunchPlaybook(j) ==
  /\ Move(j, "launch", "wait")
  /\ playbook' = [playbook EXCEPT ![j] = "running"]
  /\ UNCHANGED <<hostVars, jobVars, request, cluster, keyFile, tableVars, held>>

(* The container is dockerd's child: it runs to its end, server or not.    *)
PlaybookEnds(j) ==
  /\ playbook[j] = "running"
  /\ \E e \in {"ok", "failed"} : playbook' = [playbook EXCEPT ![j] = e]
  /\ UNCHANGED <<hostVars, jobVars, request, pc, cluster, keyFile, tableVars, held>>

(* cmd.Run returns; reading, patching or writing admin.conf may still fail. *)
CollectArtifact(j) ==
  /\ playbook[j] \in {"ok", "failed"}
  /\ \/ playbook[j] = "ok" /\ Move(j, "wait", "announce")
     \/ Move(j, "wait", "runFailed")
  /\ RemoveKey(j)
  /\ UNCHANGED <<hostVars, jobVars, request, cluster, playbook, tableVars, held>>

(* docker run also fails when it loses the daemon; the container goes on.   *)
LoseDocker(j) ==
  /\ playbook[j] = "running"
  /\ Move(j, "wait", "runFailed")
  /\ RemoveKey(j)
  /\ UNCHANGED <<hostVars, jobVars, request, cluster, playbook, tableVars, held>>

-----------------------------------------------------------------------------
(* The rest of runClusterProvisionJob.                                     *)

ReportRunFailed(j) ==
  /\ Settle(j, "runFailed", "failed", result[j])
  /\ UNCHANGED <<hostVars, cluster, diskVars, tableVars, held>>

AnnounceImport(j) ==
  /\ Move(j, "announce", "probe")
  /\ Report(j, "running", result[j])
  /\ UNCHANGED <<hostVars, request, cluster, diskVars, tableVars, held>>

ProbeCluster(j) ==
  /\ \/ Move(j, "probe", "insert") /\ UNCHANGED <<jobVars, request>>
     \/ Settle(j, "probe", "failed", result[j])
  /\ UNCHANGED <<hostVars, cluster, diskVars, tableVars, held>>

InsertCluster(j) ==
  LET row == [id |-> nextId, name |-> request[j].name, origin |-> j]
      next == IF request[j].mode = "maintenance" THEN "cordon" ELSE "finish"
  IN
  /\ \/ /\ pc[j] = "insert" /\ nextId <= MaxClusters
        /\ ~ Clash(clusters, row)
        /\ Move(j, "insert", next)
        /\ clusters' = clusters \cup {row}
        /\ nextId' = nextId + 1
        /\ cluster' = [cluster EXCEPT ![j] = nextId]
        /\ UNCHANGED <<jobVars, request>>
     \/ Settle(j, "insert", "failed", result[j]) /\ UNCHANGED <<tableVars, cluster>>
  /\ UNCHANGED <<hostVars, diskVars, held>>

(* applyClusterMode: on an error markClusterError saves the goroutine's    *)
(* copy of the row, ignoring what that returns.                            *)
ApplyClusterMode(j) ==
  /\ \/ Move(j, "cordon", "save") /\ UNCHANGED clusters
     \/ /\ Move(j, "cordon", "cordonFailed")
        /\ \/ ~ Clash(clusters, ImportedRow(j)) /\ clusters' = Upsert(clusters, ImportedRow(j))
           \/ UNCHANGED clusters
  /\ UNCHANGED <<hostVars, jobVars, request, cluster, diskVars, nextId, held>>

ReportModeFailed(j) ==
  /\ Settle(j, "cordonFailed", "failed", cluster[j])
  /\ UNCHANGED <<hostVars, cluster, diskVars, tableVars, held>>

SaveCluster(j) ==
  /\ \/ /\ Move(j, "save", "finish")
        /\ ~ Clash(clusters, ImportedRow(j))
        /\ clusters' = Upsert(clusters, ImportedRow(j))
        /\ UNCHANGED <<jobVars, request>>
     \/ Settle(j, "save", "failed", cluster[j]) /\ UNCHANGED clusters
  /\ UNCHANGED <<hostVars, cluster, diskVars, nextId, held>>

Finish(j) ==
  /\ Settle(j, "finish", "succeeded", cluster[j])
  /\ UNCHANGED <<hostVars, cluster, diskVars, tableVars, held>>

-----------------------------------------------------------------------------
(* The other calls that write the clusters table: createCluster inserts,   *)
(* deleteCluster deletes, and every handler that loads a row may save its  *)
(* copy later (updateCluster, with a new name perhaps; testCluster;        *)
(* markClusterError in all the others).                                    *)

Register(n) ==
  LET row == [id |-> nextId, name |-> n, origin |-> Platform] IN
  /\ up /\ nextId <= MaxClusters
  /\ ~ Clash(clusters, row)
  /\ clusters' = clusters \cup {row}
  /\ nextId' = nextId + 1
  /\ UNCHANGED <<hostVars, jobVars, request, pc, cluster, diskVars, held>>

Load(a) ==
  /\ up /\ held[a] = Nothing
  /\ \E r \in clusters : held' = [held EXCEPT ![a] = r]
  /\ UNCHANGED <<hostVars, jobVars, request, pc, cluster, diskVars, tableVars>>

SaveLoaded(a) ==
  /\ up /\ held[a] # Nothing
  /\ \E n \in Names :
       LET row == [held[a] EXCEPT !.name = n] IN
       \/ ~ Clash(clusters, row) /\ clusters' = Upsert(clusters, row)
       \/ UNCHANGED clusters
  /\ held' = [held EXCEPT ![a] = Nothing]
  /\ UNCHANGED <<hostVars, jobVars, request, pc, cluster, diskVars, nextId>>

DeleteLoaded(a) ==
  /\ up /\ held[a] # Nothing
  /\ clusters' = Without(clusters, held[a].id)
  /\ held' = [held EXCEPT ![a] = Nothing]
  /\ UNCHANGED <<hostVars, jobVars, request, pc, cluster, diskVars, nextId>>

-----------------------------------------------------------------------------
(* The process dies between any two steps; launchd starts it again, and    *)
(* NewServer fails the jobs it finds unfinished before it serves a call.   *)

Crash ==
  /\ up /\ crashes < MaxCrashes
  /\ up' = FALSE /\ crashes' = crashes + 1
  /\ pc' = [j \in Jobs |-> IF pc[j] \in Working \cup {"checked"} THEN "dead" ELSE pc[j]]
  /\ held' = [a \in Admins |-> Nothing]
  /\ request' = [j \in Jobs |-> Nothing]
  /\ UNCHANGED <<jobVars, cluster, diskVars, tableVars>>

RecoverProvisionJobs ==
  LET unfinished == {j \in Jobs : status[j] \in Active} IN
  \/ /\ status' = [j \in Jobs |-> IF j \in unfinished THEN "failed" ELSE status[j]]
     /\ UNCHANGED <<result, unsaved>>
  \/ /\ unsaved' = unsaved \cup unfinished
     /\ UNCHANGED <<status, result>>

Restart ==
  /\ ~ up /\ up' = TRUE
  /\ RecoverProvisionJobs
  /\ UNCHANGED <<crashes, request, pc, cluster, diskVars, tableVars, held>>

-----------------------------------------------------------------------------
RunStep(j) ==
  \/ PrepareJob(j) \/ FailInRun(j) \/ EnsureImage(j) \/ VerifySSHConnectivity(j)
  \/ LaunchPlaybook(j) \/ CollectArtifact(j)

JobStep(j) ==
  \/ InsertJob(j) \/ Start(j) \/ RunStep(j)
  \/ ReportRunFailed(j) \/ AnnounceImport(j) \/ ProbeCluster(j) \/ InsertCluster(j)
  \/ ApplyClusterMode(j) \/ ReportModeFailed(j) \/ SaveCluster(j) \/ Finish(j)

DockerStep(j) == PlaybookEnds(j) \/ LoseDocker(j)

AdminStep(a) == Load(a) \/ SaveLoaded(a) \/ DeleteLoaded(a)

Next ==
  \/ \E j \in Jobs : CheckName(j) \/ JobStep(j) \/ DockerStep(j)
  \/ \E a \in Admins : AdminStep(a)
  \/ \E n \in Names : Register(n)
  \/ Crash
  \/ Restart

Spec == Init /\ [][Next]_vars

(* A goroutine is scheduled, launchd restarts the server (KeepAlive), and  *)
(* a Kubespray run ends.  Nothing is assumed of the administrators.        *)
Fairness == /\ \A j \in Jobs : WF_vars(JobStep(j)) /\ WF_vars(PlaybookEnds(j))
            /\ WF_vars(Restart)

FairSpec == Spec /\ Fairness

-----------------------------------------------------------------------------
(* What polls of a job are promised (JobLifecycle), in this module's terms. *)
Lifecycle == INSTANCE JobLifecycle WITH NoCluster <- 0

(* Everything a client can read off a job row follows the abstract         *)
(* lifecycle: a job settles once, a success names its cluster, and no two  *)
(* jobs name the same one, whatever crashes, lost writes and other calls   *)
(* happen in between (runClusterProvisionJob, recoverProvisionJobs).       *)
ImplementsLifecycle == Lifecycle!Spec

(* A goroutine that came to its end and whose last UPDATE was not lost     *)
(* left a settled row that names the cluster it imported, or none if it    *)
(* imported none: every error path reports what it leaves behind.          *)
ResultTracksImport ==
  \A j \in Jobs : pc[j] = "done" /\ j \notin unsaved =>
    /\ status[j] \in Terminal
    /\ result[j] = cluster[j]

(* A job never points at somebody else's cluster: a row, or a copy of one  *)
(* some handler is about to save, that has the id a job reports was        *)
(* imported by that job, even after deletions, late saves and renames.     *)
Rows == clusters \cup {held[a] : a \in {b \in Admins : held[b] # Nothing}}

ResultNeverForeign ==
  \A j \in Jobs, r \in Rows : r.id = result[j] => r.origin = j

(* While the server is up, a row that says pending or running has a        *)
(* goroutine behind it, unless the write that should have settled it was   *)
(* lost.  (A crash between db.Create and the go statement included.)       *)
NoZombieJob ==
  \A j \in Jobs : up /\ status[j] \in Active =>
    pc[j] \in Working \/ j \in unsaved

(* The private key of the nodes is on disk only while Runner.Run needs it  *)
(* or when the process died in the middle of it.                           *)
KeyScope ==
  \A j \in Jobs : keyFile[j] = "whole" => pc[j] \in InRun \cup {"dead"}

(* A settled row is never touched again: neither a restart's recovery nor  *)
(* a goroutine that is still on its way may change what it says.           *)
TerminalIsFinal ==
  [][\A j \in Jobs : status[j] \in Terminal =>
       status'[j] = status[j] /\ result'[j] = result[j]]_vars

(* Who may still write the row of cluster i back with db.Save.             *)
Holders(i) == {a \in Admins : held[a] # Nothing /\ held[a].id = i}
         \cup {j \in Jobs : pc[j] \in {"cordon", "save"} /\ cluster[j] = i}

(* A deleted cluster stays deleted unless a handler or a job that read it  *)
(* before the deletion is still to save its copy.                          *)
GoneForGood ==
  [][\A i \in 1..(nextId - 1) :
       (\A r \in clusters : r.id # i) /\ Holders(i) = {}
         => (\A r \in clusters' : r.id # i)]_vars

(* Every accepted job is settled in the end, by its goroutine or by the    *)
(* recovery after a crash, unless the write that settles it is lost.       *)
JobSettles ==
  \A j \in Jobs : status[j] \in Active ~> (status[j] \in Terminal \/ j \in unsaved)

-----------------------------------------------------------------------------
(* Why the invariants hold: the parts of an inductive invariant.           *)

Imported == {"cordon", "cordonFailed", "save", "finish"}   (* after the INSERT *)

(* Where a goroutine stands says what its row, request and copy look like. *)
PhasesAgree ==
  \A j \in Jobs :
    /\ pc[j] \in {"none", "checked"} => status[j] = "none" /\ cluster[j] = 0
    /\ pc[j] \in Working => up /\ status[j] \in Active
    /\ pc[j] \in Working \ Imported => cluster[j] = 0
    /\ pc[j] \in Imported => cluster[j] # 0
    /\ pc[j] \in Working \cup {"checked"} => request[j] \in Requests
    /\ pc[j] = "dead" => result[j] = 0
    /\ status[j] \notin Terminal => result[j] = 0

(* An id is below the sequence once used, belongs to the one job that      *)
(* inserted it if a job did, and a job reports no other.                   *)
IdsBelowSequence == /\ \A r \in Rows : r.id < nextId
                    /\ \A j \in Jobs : cluster[j] < nextId
OneImporter      == \A j, k \in Jobs : cluster[j] # 0 /\ cluster[j] = cluster[k] => j = k
ImportsOwned     == \A j \in Jobs, r \in Rows : r.id = cluster[j] => r.origin = j
ResultFromImport == \A j \in Jobs : result[j] \in {0, cluster[j]}

IdsInv == IdsBelowSequence /\ OneImporter /\ ImportsOwned /\ ResultFromImport

IndInv == /\ TypeOK /\ PhasesAgree /\ IdsInv
          /\ ResultTracksImport /\ NoZombieJob /\ KeyScope

(* The recovery writes into the row that the restart interrupted the job   *)
(* and that it should be submitted again: a job that says so is not still  *)
(* changing the nodes.                                                     *)
InterruptedMeansStopped ==
  \A j \in Jobs : pc[j] = "dead" /\ status[j] = "failed" => playbook[j] # "running"
=============================================================================
