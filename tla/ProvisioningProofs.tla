-------------------------- MODULE ProvisioningProofs --------------------------
(***************************************************************************)
(* Proofs about Provisioning for every set of jobs, handlers and names and *)
(* every bound: the inductive invariant IndInv, the safety properties that *)
(* follow from it, and that the job rows implement JobLifecycle.           *)
(***************************************************************************)
EXTENDS Provisioning, TLAPS

LEMMA InitEstablishesIndInv == Init => IndInv
  BY PlatformAssumption, BoundsAssumption
  DEF Init, IndInv, TypeOK, PhasesAgree, IdsInv, IdsBelowSequence, OneImporter,
      ImportsOwned, ResultFromImport, ResultTracksImport, NoZombieJob, KeyScope,
      Rows, Active, Terminal, Working, InRun, Imported, ClusterIds, ClusterRows

-----------------------------------------------------------------------------
(* Type correctness, one step per action. *)

(* The row a goroutine writes is a row of the table. *)
LEMMA GoroutineRows ==
  ASSUME TypeOK, PhasesAgree, NEW j \in Jobs
  PROVE  /\ pc[j] \in Working => request[j].name \in Names
         /\ pc[j] \in Imported => ImportedRow(j) \in ClusterRows
  BY DEF TypeOK, PhasesAgree, ImportedRow, ClusterRows, Requests, Imported, Working

LEMMA TypeStep == TypeOK /\ PhasesAgree /\ [Next]_vars => TypeOK'
  <1> SUFFICES ASSUME TypeOK, PhasesAgree, [Next]_vars PROVE TypeOK'
    OBVIOUS
  <1> USE BoundsAssumption
      DEF TypeOK, hostVars, jobVars, diskVars, tableVars, Move, Report, Settle,
          Active, Terminal, Working, InRun, ClusterIds
  <1>1. ASSUME NEW j \in Jobs, CheckName(j) PROVE TypeOK'
    BY <1>1 DEF CheckName
  <1>2. ASSUME NEW j \in Jobs, InsertJob(j) PROVE TypeOK'
    BY <1>2 DEF InsertJob
  <1>3. ASSUME NEW j \in Jobs, Start(j) PROVE TypeOK'
    BY <1>3 DEF Start
  <1>4. ASSUME NEW j \in Jobs, RunStep(j) PROVE TypeOK'
    BY <1>4 DEF RunStep, PrepareJob, FailInRun, RemoveKey, EnsureImage,
                VerifySSHConnectivity, LaunchPlaybook, CollectArtifact
  <1>5. ASSUME NEW j \in Jobs, DockerStep(j) PROVE TypeOK'
    BY <1>5 DEF DockerStep, PlaybookEnds, LoseDocker, RemoveKey
  <1>6. ASSUME NEW j \in Jobs, ReportRunFailed(j) PROVE TypeOK'
    BY <1>6 DEF ReportRunFailed
  <1>7. ASSUME NEW j \in Jobs, AnnounceImport(j) PROVE TypeOK'
    BY <1>7 DEF AnnounceImport
  <1>8. ASSUME NEW j \in Jobs, ProbeCluster(j) PROVE TypeOK'
    BY <1>8 DEF ProbeCluster
  <1>9. ASSUME NEW j \in Jobs, InsertCluster(j) PROVE TypeOK'
    <2> DEFINE row == [id |-> nextId, name |-> request[j].name, origin |-> j]
    <2>1. CASE Settle(j, "insert", "failed", result[j]) /\ UNCHANGED <<tableVars, cluster>>
      BY <1>9, <2>1 DEF InsertCluster
    <2>2. CASE /\ pc[j] = "insert" /\ nextId <= MaxClusters
               /\ pc' = [pc EXCEPT ![j] = IF request[j].mode = "maintenance"
                                          THEN "cordon" ELSE "finish"]
               /\ clusters' = clusters \cup {row}
               /\ nextId' = nextId + 1
               /\ cluster' = [cluster EXCEPT ![j] = nextId]
               /\ UNCHANGED <<jobVars, request>>
      <3>1. row \in ClusterRows
        BY <2>2, GoroutineRows DEF ClusterRows
      <3>2. nextId' \in 1..(MaxClusters + 1) /\ nextId \in ClusterIds
        BY <2>2
      <3> QED
        BY <1>9, <2>2, <3>1, <3>2 DEF InsertCluster
    <2>3. QED
      BY <1>9, <2>1, <2>2 DEF InsertCluster
  <1>10. ASSUME NEW j \in Jobs, ApplyClusterMode(j) PROVE TypeOK'
    BY <1>10, GoroutineRows DEF ApplyClusterMode, Upsert, Imported
  <1>11. ASSUME NEW j \in Jobs, ReportModeFailed(j) PROVE TypeOK'
    BY <1>11 DEF ReportModeFailed
  <1>12. ASSUME NEW j \in Jobs, SaveCluster(j) PROVE TypeOK'
    BY <1>12, GoroutineRows DEF SaveCluster, Upsert, Imported
  <1>13. ASSUME NEW j \in Jobs, Finish(j) PROVE TypeOK'
    BY <1>13 DEF Finish
  <1>14. ASSUME NEW a \in Admins, AdminStep(a) PROVE TypeOK'
    BY <1>14 DEF AdminStep, Load, SaveLoaded, DeleteLoaded, Upsert, Without, ClusterRows
  <1>15. ASSUME NEW n \in Names, Register(n) PROVE TypeOK'
    BY <1>15 DEF Register, ClusterRows
  <1>16. CASE Crash
    <2>1. crashes' \in 0..MaxCrashes
      <3>1. crashes < MaxCrashes /\ crashes' = crashes + 1
        BY <1>16 DEF Crash
      <3>2. QED
        BY <3>1
    <2>5. up' \in BOOLEAN
      BY <1>16, Zenon DEF Crash
    <2>2. pc' \in [Jobs -> {"none", "checked", "done", "dead"} \cup Working]
      BY <1>16 DEF Crash
    <2>3. /\ request' \in [Jobs -> Requests \cup {Nothing}]
          /\ held' \in [Admins -> ClusterRows \cup {Nothing}]
      BY <1>16 DEF Crash
    <2>4. QED
      BY <1>16, <2>1, <2>2, <2>3, <2>5 DEF Crash
  <1>17. CASE Restart
    BY <1>17 DEF Restart, RecoverProvisionJobs
  <1>18. CASE UNCHANGED vars
    BY <1>18 DEF vars
  <1>19. QED
    BY <1>1, <1>2, <1>3, <1>4, <1>5, <1>6, <1>7, <1>8, <1>9, <1>10, <1>11, <1>12,
       <1>13, <1>14, <1>15, <1>16, <1>17, <1>18 DEF Next, JobStep

-----------------------------------------------------------------------------

(* What a goroutine's position says stays true. *)
LEMMA PhaseStep == TypeOK /\ PhasesAgree /\ [Next]_vars => PhasesAgree'
  <1> SUFFICES ASSUME TypeOK, PhasesAgree, [Next]_vars PROVE PhasesAgree'
    OBVIOUS
  <1> USE DEF TypeOK, PhasesAgree, hostVars, jobVars, diskVars, tableVars, Move, Report, Settle,
          Active, Terminal, Working, InRun, Imported, ClusterIds
  <1>1. ASSUME NEW j \in Jobs, CheckName(j) PROVE PhasesAgree'
    BY <1>1 DEF CheckName
  <1>2. ASSUME NEW j \in Jobs, InsertJob(j) PROVE PhasesAgree'
    BY <1>2 DEF InsertJob
  <1>3. ASSUME NEW j \in Jobs, Start(j) PROVE PhasesAgree'
    BY <1>3 DEF Start
  <1>4. ASSUME NEW j \in Jobs, RunStep(j) PROVE PhasesAgree'
    BY <1>4 DEF RunStep, PrepareJob, FailInRun, RemoveKey, EnsureImage,
                VerifySSHConnectivity, LaunchPlaybook, CollectArtifact
  <1>5. ASSUME NEW j \in Jobs, DockerStep(j) PROVE PhasesAgree'
    BY <1>5 DEF DockerStep, PlaybookEnds, LoseDocker, RemoveKey
  <1>6. ASSUME NEW j \in Jobs, ReportRunFailed(j) PROVE PhasesAgree'
    BY <1>6 DEF ReportRunFailed
  <1>7. ASSUME NEW j \in Jobs, AnnounceImport(j) PROVE PhasesAgree'
    BY <1>7 DEF AnnounceImport
  <1>8. ASSUME NEW j \in Jobs, ProbeCluster(j) PROVE PhasesAgree'
    BY <1>8 DEF ProbeCluster
  <1>9. ASSUME NEW j \in Jobs, InsertCluster(j) PROVE PhasesAgree'
    BY <1>9 DEF InsertCluster
  <1>10. ASSUME NEW j \in Jobs, ApplyClusterMode(j) PROVE PhasesAgree'
    BY <1>10 DEF ApplyClusterMode
  <1>11. ASSUME NEW j \in Jobs, ReportModeFailed(j) PROVE PhasesAgree'
    BY <1>11 DEF ReportModeFailed
  <1>12. ASSUME NEW j \in Jobs, SaveCluster(j) PROVE PhasesAgree'
    BY <1>12 DEF SaveCluster
  <1>13. ASSUME NEW j \in Jobs, Finish(j) PROVE PhasesAgree'
    BY <1>13 DEF Finish
  <1>14. ASSUME NEW a \in Admins, AdminStep(a) PROVE PhasesAgree'
    BY <1>14 DEF AdminStep, Load, SaveLoaded, DeleteLoaded
  <1>15. ASSUME NEW n \in Names, Register(n) PROVE PhasesAgree'
    BY <1>15 DEF Register
  <1>16. CASE Crash
    BY <1>16 DEF Crash
  <1>17. CASE Restart
    BY <1>17 DEF Restart, RecoverProvisionJobs
  <1>18. CASE UNCHANGED vars
    BY <1>18 DEF vars
  <1> QED
    BY <1>1, <1>2, <1>3, <1>4, <1>5, <1>6, <1>7, <1>8, <1>9, <1>10, <1>11, <1>12, <1>13, <1>14, <1>15, <1>16, <1>17, <1>18
       DEF Next, JobStep

(* A settled row names what the goroutine imported. *)
LEMMA TracksStep == TypeOK /\ PhasesAgree /\ ResultTracksImport /\ [Next]_vars => ResultTracksImport'
  <1> SUFFICES ASSUME TypeOK, PhasesAgree, ResultTracksImport, [Next]_vars PROVE ResultTracksImport'
    OBVIOUS
  <1> USE DEF ResultTracksImport, TypeOK, PhasesAgree, hostVars, jobVars, diskVars, tableVars, Move, Report, Settle,
          Active, Terminal, Working, InRun, Imported, ClusterIds
  <1>1. ASSUME NEW j \in Jobs, CheckName(j) PROVE ResultTracksImport'
    BY <1>1 DEF CheckName
  <1>2. ASSUME NEW j \in Jobs, InsertJob(j) PROVE ResultTracksImport'
    BY <1>2 DEF InsertJob
  <1>3. ASSUME NEW j \in Jobs, Start(j) PROVE ResultTracksImport'
    BY <1>3 DEF Start
  <1>4. ASSUME NEW j \in Jobs, RunStep(j) PROVE ResultTracksImport'
    BY <1>4 DEF RunStep, PrepareJob, FailInRun, RemoveKey, EnsureImage,
                VerifySSHConnectivity, LaunchPlaybook, CollectArtifact
  <1>5. ASSUME NEW j \in Jobs, DockerStep(j) PROVE ResultTracksImport'
    BY <1>5 DEF DockerStep, PlaybookEnds, LoseDocker, RemoveKey
  <1>6. ASSUME NEW j \in Jobs, ReportRunFailed(j) PROVE ResultTracksImport'
    BY <1>6 DEF ReportRunFailed
  <1>7. ASSUME NEW j \in Jobs, AnnounceImport(j) PROVE ResultTracksImport'
    BY <1>7 DEF AnnounceImport
  <1>8. ASSUME NEW j \in Jobs, ProbeCluster(j) PROVE ResultTracksImport'
    BY <1>8 DEF ProbeCluster
  <1>9. ASSUME NEW j \in Jobs, InsertCluster(j) PROVE ResultTracksImport'
    BY <1>9 DEF InsertCluster
  <1>10. ASSUME NEW j \in Jobs, ApplyClusterMode(j) PROVE ResultTracksImport'
    BY <1>10 DEF ApplyClusterMode
  <1>11. ASSUME NEW j \in Jobs, ReportModeFailed(j) PROVE ResultTracksImport'
    BY <1>11 DEF ReportModeFailed
  <1>12. ASSUME NEW j \in Jobs, SaveCluster(j) PROVE ResultTracksImport'
    BY <1>12 DEF SaveCluster
  <1>13. ASSUME NEW j \in Jobs, Finish(j) PROVE ResultTracksImport'
    BY <1>13 DEF Finish
  <1>14. ASSUME NEW a \in Admins, AdminStep(a) PROVE ResultTracksImport'
    BY <1>14 DEF AdminStep, Load, SaveLoaded, DeleteLoaded
  <1>15. ASSUME NEW n \in Names, Register(n) PROVE ResultTracksImport'
    BY <1>15 DEF Register
  <1>16. CASE Crash
    BY <1>16 DEF Crash
  <1>17. CASE Restart
    BY <1>17 DEF Restart, RecoverProvisionJobs
  <1>18. CASE UNCHANGED vars
    BY <1>18 DEF vars
  <1> QED
    BY <1>1, <1>2, <1>3, <1>4, <1>5, <1>6, <1>7, <1>8, <1>9, <1>10, <1>11, <1>12, <1>13, <1>14, <1>15, <1>16, <1>17, <1>18
       DEF Next, JobStep

(* An unfinished row has a goroutine, or a lost write, behind it. *)
LEMMA ZombieStep == TypeOK /\ PhasesAgree /\ NoZombieJob /\ [Next]_vars => NoZombieJob'
  <1> SUFFICES ASSUME TypeOK, PhasesAgree, NoZombieJob, [Next]_vars PROVE NoZombieJob'
    OBVIOUS
  <1> USE DEF NoZombieJob, TypeOK, PhasesAgree, hostVars, jobVars, diskVars, tableVars, Move, Report, Settle,
          Active, Terminal, Working, InRun, Imported, ClusterIds
  <1>1. ASSUME NEW j \in Jobs, CheckName(j) PROVE NoZombieJob'
    BY <1>1 DEF CheckName
  <1>2. ASSUME NEW j \in Jobs, InsertJob(j) PROVE NoZombieJob'
    BY <1>2 DEF InsertJob
  <1>3. ASSUME NEW j \in Jobs, Start(j) PROVE NoZombieJob'
    BY <1>3 DEF Start
  <1>4. ASSUME NEW j \in Jobs, RunStep(j) PROVE NoZombieJob'
    <2>1. CASE PrepareJob(j)
      BY <2>1 DEF PrepareJob
    <2>2. CASE FailInRun(j)
      BY <2>2 DEF FailInRun
    <2>3. CASE EnsureImage(j) \/ VerifySSHConnectivity(j)
      BY <2>3 DEF EnsureImage, VerifySSHConnectivity
    <2>4. CASE LaunchPlaybook(j)
      BY <2>4 DEF LaunchPlaybook
    <2>5. CASE CollectArtifact(j)
      BY <2>5 DEF CollectArtifact
    <2>6. QED
      BY <1>4, <2>1, <2>2, <2>3, <2>4, <2>5 DEF RunStep
  <1>5. ASSUME NEW j \in Jobs, DockerStep(j) PROVE NoZombieJob'
    BY <1>5 DEF DockerStep, PlaybookEnds, LoseDocker, RemoveKey
  <1>6. ASSUME NEW j \in Jobs, ReportRunFailed(j) PROVE NoZombieJob'
    BY <1>6 DEF ReportRunFailed
  <1>7. ASSUME NEW j \in Jobs, AnnounceImport(j) PROVE NoZombieJob'
    BY <1>7 DEF AnnounceImport
  <1>8. ASSUME NEW j \in Jobs, ProbeCluster(j) PROVE NoZombieJob'
    BY <1>8 DEF ProbeCluster
  <1>9. ASSUME NEW j \in Jobs, InsertCluster(j) PROVE NoZombieJob'
    BY <1>9 DEF InsertCluster
  <1>10. ASSUME NEW j \in Jobs, ApplyClusterMode(j) PROVE NoZombieJob'
    BY <1>10 DEF ApplyClusterMode
  <1>11. ASSUME NEW j \in Jobs, ReportModeFailed(j) PROVE NoZombieJob'
    BY <1>11 DEF ReportModeFailed
  <1>12. ASSUME NEW j \in Jobs, SaveCluster(j) PROVE NoZombieJob'
    BY <1>12 DEF SaveCluster
  <1>13. ASSUME NEW j \in Jobs, Finish(j) PROVE NoZombieJob'
    BY <1>13 DEF Finish
  <1>14. ASSUME NEW a \in Admins, AdminStep(a) PROVE NoZombieJob'
    BY <1>14 DEF AdminStep, Load, SaveLoaded, DeleteLoaded
  <1>15. ASSUME NEW n \in Names, Register(n) PROVE NoZombieJob'
    BY <1>15 DEF Register
  <1>16. CASE Crash
    BY <1>16 DEF Crash
  <1>17. CASE Restart
    BY <1>17 DEF Restart, RecoverProvisionJobs
  <1>18. CASE UNCHANGED vars
    BY <1>18 DEF vars
  <1> QED
    BY <1>1, <1>2, <1>3, <1>4, <1>5, <1>6, <1>7, <1>8, <1>9, <1>10, <1>11, <1>12, <1>13, <1>14, <1>15, <1>16, <1>17, <1>18
       DEF Next, JobStep

(* The key file does not outlive Runner.Run. *)
LEMMA KeyStep == TypeOK /\ KeyScope /\ [Next]_vars => KeyScope'
  <1> SUFFICES ASSUME TypeOK, KeyScope, [Next]_vars PROVE KeyScope'
    OBVIOUS
  <1> USE DEF KeyScope, TypeOK, hostVars, jobVars, diskVars, tableVars, Move, Report, Settle,
          Active, Terminal, Working, InRun, Imported, ClusterIds
  <1>1. ASSUME NEW j \in Jobs, CheckName(j) PROVE KeyScope'
    BY <1>1 DEF CheckName
  <1>2. ASSUME NEW j \in Jobs, InsertJob(j) PROVE KeyScope'
    BY <1>2 DEF InsertJob
  <1>3. ASSUME NEW j \in Jobs, Start(j) PROVE KeyScope'
    BY <1>3 DEF Start
  <1>4. ASSUME NEW j \in Jobs, RunStep(j) PROVE KeyScope'
    BY <1>4 DEF RunStep, PrepareJob, FailInRun, RemoveKey, EnsureImage,
                VerifySSHConnectivity, LaunchPlaybook, CollectArtifact
  <1>5. ASSUME NEW j \in Jobs, DockerStep(j) PROVE KeyScope'
    BY <1>5 DEF DockerStep, PlaybookEnds, LoseDocker, RemoveKey
  <1>6. ASSUME NEW j \in Jobs, ReportRunFailed(j) PROVE KeyScope'
    BY <1>6 DEF ReportRunFailed
  <1>7. ASSUME NEW j \in Jobs, AnnounceImport(j) PROVE KeyScope'
    BY <1>7 DEF AnnounceImport
  <1>8. ASSUME NEW j \in Jobs, ProbeCluster(j) PROVE KeyScope'
    BY <1>8 DEF ProbeCluster
  <1>9. ASSUME NEW j \in Jobs, InsertCluster(j) PROVE KeyScope'
    BY <1>9 DEF InsertCluster
  <1>10. ASSUME NEW j \in Jobs, ApplyClusterMode(j) PROVE KeyScope'
    BY <1>10 DEF ApplyClusterMode
  <1>11. ASSUME NEW j \in Jobs, ReportModeFailed(j) PROVE KeyScope'
    BY <1>11 DEF ReportModeFailed
  <1>12. ASSUME NEW j \in Jobs, SaveCluster(j) PROVE KeyScope'
    BY <1>12 DEF SaveCluster
  <1>13. ASSUME NEW j \in Jobs, Finish(j) PROVE KeyScope'
    BY <1>13 DEF Finish
  <1>14. ASSUME NEW a \in Admins, AdminStep(a) PROVE KeyScope'
    BY <1>14 DEF AdminStep, Load, SaveLoaded, DeleteLoaded
  <1>15. ASSUME NEW n \in Names, Register(n) PROVE KeyScope'
    BY <1>15 DEF Register
  <1>16. CASE Crash
    BY <1>16 DEF Crash
  <1>17. CASE Restart
    BY <1>17 DEF Restart, RecoverProvisionJobs
  <1>18. CASE UNCHANGED vars
    BY <1>18 DEF vars
  <1> QED
    BY <1>1, <1>2, <1>3, <1>4, <1>5, <1>6, <1>7, <1>8, <1>9, <1>10, <1>11, <1>12, <1>13, <1>14, <1>15, <1>16, <1>17, <1>18
       DEF Next, JobStep

-----------------------------------------------------------------------------
(* What a step does to the rows of the table and to their loaded copies.   *)

(* A row that has the id and the origin of an older row or of a job's own. *)
Inherited(r) == \/ \E s \in Rows : r.id = s.id /\ r.origin = s.origin
                \/ \E j \in Jobs : cluster[j] # 0 /\ r.id = cluster[j] /\ r.origin = j

KeepsIds   == UNCHANGED <<cluster, nextId>> /\ \A r \in Rows' : Inherited(r)
NewId(j)   == /\ nextId' = nextId + 1
              /\ cluster[j] = 0 /\ cluster' = [cluster EXCEPT ![j] = nextId]
              /\ \A r \in Rows' : Inherited(r) \/ (r.id = nextId /\ r.origin = j)
PlatformId == /\ nextId' = nextId + 1 /\ UNCHANGED cluster
              /\ \A r \in Rows' : Inherited(r) \/ r.id = nextId

LEMMA UntouchedRows ==
  ASSUME UNCHANGED <<clusters, held>>
  PROVE  \A r \in Rows' : Inherited(r)
  BY DEF Rows, Inherited

LEMMA TableStep ==
  ASSUME TypeOK, PhasesAgree, [Next]_vars
  PROVE  KeepsIds \/ PlatformId \/ \E j \in Jobs : NewId(j)
  <1> USE DEF hostVars, tableVars
  <1>1. ASSUME NEW j \in Jobs,
               \/ CheckName(j) \/ InsertJob(j) \/ Start(j) \/ RunStep(j) \/ DockerStep(j)
               \/ ReportRunFailed(j) \/ AnnounceImport(j) \/ ProbeCluster(j)
               \/ ReportModeFailed(j) \/ Finish(j)
        PROVE  KeepsIds
    <2>1. UNCHANGED <<clusters, held, cluster, nextId>>
      BY <1>1 DEF CheckName, InsertJob, Start, RunStep, PrepareJob, FailInRun, EnsureImage,
                  VerifySSHConnectivity, LaunchPlaybook, CollectArtifact, DockerStep, PlaybookEnds, LoseDocker,
                  ReportRunFailed, AnnounceImport, ProbeCluster, ReportModeFailed, Finish
    <2>2. QED
      BY <2>1, UntouchedRows DEF KeepsIds
  <1>2. ASSUME NEW j \in Jobs, ApplyClusterMode(j) \/ SaveCluster(j) PROVE KeepsIds
    <2>1. pc[j] \in {"cordon", "save"}
      BY <1>2 DEF ApplyClusterMode, SaveCluster, Settle, Move
    <2>2. UNCHANGED <<held, cluster, nextId>>
      BY <1>2 DEF ApplyClusterMode, SaveCluster
    <2>3. clusters' = clusters \/ clusters' = Upsert(clusters, ImportedRow(j))
      BY <1>2 DEF ApplyClusterMode, SaveCluster
    <2>4. cluster[j] # 0
      BY <2>1 DEF PhasesAgree, Imported
    <2>5. ImportedRow(j).id = cluster[j] /\ ImportedRow(j).origin = j
      BY DEF ImportedRow
    <2>6. \A r \in Rows' : r \in Rows \/ r = ImportedRow(j)
      BY <2>2, <2>3 DEF Rows, Upsert
    <2>7. QED
      BY <2>2, <2>4, <2>5, <2>6 DEF KeepsIds, Inherited
  <1>3. ASSUME NEW j \in Jobs, InsertCluster(j) PROVE KeepsIds \/ NewId(j)
    <2>1. pc[j] = "insert" /\ UNCHANGED held
      BY <1>3 DEF InsertCluster, Settle, Move
    <2>2. cluster[j] = 0
      BY <2>1 DEF PhasesAgree, Working, Imported
    <2>3. CASE UNCHANGED <<tableVars, cluster>>
      BY <2>1, <2>3, UntouchedRows DEF KeepsIds
    <2>4. CASE /\ nextId' = nextId + 1
               /\ cluster' = [cluster EXCEPT ![j] = nextId]
               /\ clusters' = clusters \cup
                    {[id |-> nextId, name |-> request[j].name, origin |-> j]}
      BY <2>1, <2>2, <2>4 DEF NewId, Rows, Inherited
    <2>5. QED
      BY <1>3, <2>3, <2>4 DEF InsertCluster
  <1>4. ASSUME NEW a \in Admins, AdminStep(a) PROVE KeepsIds
    <2>1. UNCHANGED <<cluster, nextId>>
      BY <1>4 DEF AdminStep, Load, SaveLoaded, DeleteLoaded
    <2>2. CASE Load(a)
      BY <2>1, <2>2 DEF Load, KeepsIds, Rows, Inherited, TypeOK
    <2>3. CASE DeleteLoaded(a)
      BY <2>1, <2>3 DEF DeleteLoaded, Without, KeepsIds, Rows, Inherited, TypeOK
    <2>4. CASE SaveLoaded(a)
      <3>1. PICK n \in Names : \/ clusters' = Upsert(clusters, [held[a] EXCEPT !.name = n])
                               \/ UNCHANGED clusters
        BY <2>4 DEF SaveLoaded
      <3>2. held[a] \in Rows /\ held[a] \in ClusterRows
        BY <2>4 DEF SaveLoaded, Rows, TypeOK
      <3>3. /\ [held[a] EXCEPT !.name = n].id = held[a].id
            /\ [held[a] EXCEPT !.name = n].origin = held[a].origin
        BY <3>2 DEF ClusterRows
      <3>4. \A r \in Rows' : r \in Rows \/ r = [held[a] EXCEPT !.name = n]
        BY <3>1, <2>4 DEF SaveLoaded, Rows, Upsert, TypeOK
      <3>5. QED
        BY <2>1, <3>2, <3>3, <3>4 DEF KeepsIds, Inherited
    <2>5. QED
      BY <1>4, <2>2, <2>3, <2>4 DEF AdminStep
  <1>5. ASSUME NEW n \in Names, Register(n) PROVE PlatformId
    BY <1>5 DEF Register, PlatformId, Rows, Inherited
  <1>6. CASE Crash
    BY <1>6 DEF Crash, KeepsIds, Rows, Inherited
  <1>7. CASE Restart \/ UNCHANGED vars
    BY <1>7, UntouchedRows DEF Restart, vars, KeepsIds
  <1>8. QED
    BY <1>1, <1>2, <1>3, <1>4, <1>5, <1>6, <1>7 DEF Next, JobStep

(* Where a row of the table comes from: it was there, it is new, or a      *)
(* holder of an older copy saved it.                                       *)
LEMMA RowSources ==
  ASSUME TypeOK, [Next]_vars, NEW r \in clusters'
  PROVE  \/ r \in clusters \/ r.id = nextId
         \/ \E j \in Jobs : pc[j] \in {"cordon", "save"} /\ r.id = cluster[j]
         \/ \E a \in Admins : held[a] # Nothing /\ r.id = held[a].id
  <1> USE DEF hostVars, tableVars
  <1>1. ASSUME NEW j \in Jobs,
               \/ CheckName(j) \/ InsertJob(j) \/ Start(j) \/ RunStep(j) \/ DockerStep(j)
               \/ ReportRunFailed(j) \/ AnnounceImport(j) \/ ProbeCluster(j)
               \/ ReportModeFailed(j) \/ Finish(j)
        PROVE  UNCHANGED clusters
    BY <1>1 DEF CheckName, InsertJob, Start, RunStep, PrepareJob, FailInRun, EnsureImage,
                VerifySSHConnectivity, LaunchPlaybook, CollectArtifact, DockerStep, PlaybookEnds, LoseDocker,
                ReportRunFailed, AnnounceImport, ProbeCluster, ReportModeFailed, Finish
  <1>2. ASSUME NEW j \in Jobs, ApplyClusterMode(j) \/ SaveCluster(j)
        PROVE  r \in clusters \/ (pc[j] \in {"cordon", "save"} /\ r.id = cluster[j])
    BY <1>2 DEF ApplyClusterMode, SaveCluster, Settle, Move, Upsert, ImportedRow
  <1>3. ASSUME NEW j \in Jobs, InsertCluster(j) PROVE r \in clusters \/ r.id = nextId
    BY <1>3 DEF InsertCluster
  <1>4. ASSUME NEW n \in Names, Register(n) PROVE r \in clusters \/ r.id = nextId
    BY <1>4 DEF Register
  <1>5. ASSUME NEW a \in Admins, AdminStep(a)
        PROVE  r \in clusters \/ (held[a] # Nothing /\ r.id = held[a].id)
    <2>1. CASE Load(a)
      BY <2>1 DEF Load
    <2>2. CASE DeleteLoaded(a)
      BY <2>2 DEF DeleteLoaded, Without
    <2>3. CASE SaveLoaded(a)
      <3>1. held[a] \in ClusterRows
        BY <2>3 DEF SaveLoaded, TypeOK
      <3>2. QED
        BY <2>3, <3>1 DEF SaveLoaded, Upsert, ClusterRows
    <2>4. QED
      BY <1>5, <2>1, <2>2, <2>3 DEF AdminStep
  <1>6. CASE Crash \/ Restart \/ UNCHANGED vars
    BY <1>6 DEF Crash, Restart, vars
  <1>7. QED
    BY <1>1, <1>2, <1>3, <1>4, <1>5, <1>6 DEF Next, JobStep

(* What a step does to the rows of the jobs: nothing, a step of the abstract *)
(* lifecycle, or the settling of one job.                                    *)

Settles(j) ==
  \E st \in Terminal, c \in {0, cluster[j]} :
    /\ status[j] \in Active /\ pc[j] \in Working
    /\ st = "succeeded" => c # 0
    /\ status' = [status EXCEPT ![j] = st]
    /\ result' = [result EXCEPT ![j] = c]

LEMMA ProgressReport ==
  ASSUME TypeOK, PhasesAgree, NEW j \in Jobs, pc[j] \in Working,
         Report(j, "running", result[j])
  PROVE  Lifecycle!Progress(j) \/ UNCHANGED <<status, result>>
  BY DEF Report, Lifecycle!Progress, Lifecycle!Active, TypeOK, PhasesAgree, Active,
         Terminal, jobVars

LEMMA SettleReport ==
  ASSUME TypeOK, PhasesAgree, NEW j \in Jobs, NEW from \in Working,
         NEW st \in Terminal, NEW c \in {0, cluster[j]},
         st = "succeeded" => c # 0,
         Settle(j, from, st, c)
  PROVE  Settles(j) \/ UNCHANGED <<status, result>>
  BY DEF Settle, Move, Report, Settles, PhasesAgree, Active, Terminal, jobVars

LEMMA JobRowStep ==
  ASSUME TypeOK, PhasesAgree, [Next]_vars
  PROVE  \/ UNCHANGED <<status, result>>
         \/ \E j \in Jobs : Lifecycle!Accept(j) \/ Lifecycle!Progress(j) \/ Settles(j)
         \/ Lifecycle!AbandonActive
  <1> DEFINE Goal == \/ UNCHANGED <<status, result>>
                     \/ \E j \in Jobs : \/ Lifecycle!Accept(j) \/ Lifecycle!Progress(j)
                                         \/ Settles(j)
                     \/ Lifecycle!AbandonActive
  <1> SUFFICES Goal
    OBVIOUS
  <1>0. \A j \in Jobs : pc[j] \in Working => result[j] = 0
    BY DEF PhasesAgree, Active, Terminal
  <1>1. ASSUME NEW j \in Jobs, InsertJob(j) PROVE Goal
    BY <1>1 DEF InsertJob, Move, Lifecycle!Accept, PhasesAgree
  <1>2. ASSUME NEW j \in Jobs, Start(j) \/ AnnounceImport(j) PROVE Goal
    <2>1. pc[j] \in Working /\ Report(j, "running", result[j])
      BY <1>2 DEF Start, AnnounceImport, Move, Working
    <2>2. QED
      BY <2>1, ProgressReport
  <1>3. ASSUME NEW j \in Jobs, ReportRunFailed(j) \/ ProbeCluster(j) \/ InsertCluster(j)
        PROVE Goal
    <2>1. \/ UNCHANGED jobVars
          \/ \E at \in {"runFailed", "probe", "insert"} : Settle(j, at, "failed", result[j])
      BY <1>3 DEF ReportRunFailed, ProbeCluster, InsertCluster
    <2>2. ASSUME NEW at \in {"runFailed", "probe", "insert"}, Settle(j, at, "failed", result[j])
          PROVE Settles(j) \/ UNCHANGED <<status, result>>
      <3>1. pc[j] \in Working /\ at \in Working /\ "failed" \in Terminal
        BY <2>2 DEF Settle, Move, Working, Terminal
      <3>2. result[j] \in {0, cluster[j]}
        BY <1>0, <3>1
      <3>3. QED
        BY <2>2, <3>1, <3>2, SettleReport
    <2>3. QED
      BY <2>1, <2>2 DEF jobVars
  <1>4. ASSUME NEW j \in Jobs,
               \/ ReportModeFailed(j) \/ SaveCluster(j) \/ Finish(j) \/ ApplyClusterMode(j)
        PROVE Goal
    <2>1. \/ UNCHANGED jobVars
          \/ \E at \in {"cordonFailed", "save", "finish"}, st \in Terminal :
               Settle(j, at, st, cluster[j])
      BY <1>4 DEF ReportModeFailed, SaveCluster, Finish, ApplyClusterMode, Terminal
    <2>2. ASSUME NEW at \in {"cordonFailed", "save", "finish"}, NEW st \in Terminal,
                 Settle(j, at, st, cluster[j])
          PROVE Settles(j) \/ UNCHANGED <<status, result>>
      <3>1. at \in Working /\ cluster[j] # 0
        BY <2>2 DEF Settle, Move, Working, Imported, PhasesAgree
      <3>2. QED
        BY <2>2, <3>1, SettleReport
    <2>3. QED
      BY <2>1, <2>2 DEF jobVars
  <1>5. ASSUME NEW j \in Jobs, CheckName(j) \/ RunStep(j) \/ DockerStep(j) PROVE Goal
    BY <1>5 DEF CheckName, RunStep, PrepareJob, FailInRun, EnsureImage, jobVars,
                VerifySSHConnectivity, LaunchPlaybook, CollectArtifact, DockerStep, PlaybookEnds, LoseDocker
  <1>6. ASSUME NEW a \in Admins, AdminStep(a) PROVE Goal
    BY <1>6 DEF AdminStep, Load, SaveLoaded, DeleteLoaded, jobVars
  <1>7. ASSUME NEW n \in Names, Register(n) PROVE Goal
    BY <1>7 DEF Register, jobVars
  <1>8. CASE Crash \/ UNCHANGED vars
    BY <1>8 DEF Crash, vars, jobVars
  <1>9. CASE Restart
    BY <1>9 DEF Restart, RecoverProvisionJobs, Lifecycle!AbandonActive,
                Lifecycle!Active, Active
  <1>10. QED
    BY <1>1, <1>2, <1>3, <1>4, <1>5, <1>6, <1>7, <1>8, <1>9 DEF Next, JobStep

LEMMA ResultStep ==
  ASSUME TypeOK, PhasesAgree, [Next]_vars
  PROVE  \A j \in Jobs : result'[j] \in {result[j], cluster[j], 0}
  BY JobRowStep DEF Settles, Lifecycle!Accept, Lifecycle!Progress,
     Lifecycle!AbandonActive, TypeOK

LEMMA IdsStep == TypeOK /\ PhasesAgree /\ IdsInv /\ [Next]_vars => IdsInv'
  <1> SUFFICES ASSUME TypeOK, PhasesAgree, IdsInv, [Next]_vars PROVE IdsInv'
    OBVIOUS
  <1> USE DEF IdsInv, IdsBelowSequence, OneImporter, ImportsOwned, ResultFromImport
  <1>0. /\ nextId \in Nat /\ nextId > 0
        /\ \A j \in Jobs : cluster[j] \in Nat
        /\ cluster \in [Jobs -> ClusterIds \cup {0}]
    BY BoundsAssumption DEF TypeOK, ClusterIds
  <1>r. \A r \in Rows : r.id \in Nat /\ r.id # 0
    BY BoundsAssumption DEF TypeOK, Rows, ClusterRows, ClusterIds
  <1>i. \A r : Inherited(r) =>
          /\ r.id \in Nat /\ r.id # 0 /\ r.id < nextId
          /\ \A j \in Jobs : r.id = cluster[j] => r.origin = j
    BY <1>0, <1>r DEF Inherited
  <1>1. CASE KeepsIds
    BY <1>0, <1>i, <1>1, ResultStep DEF KeepsIds
  <1>2. CASE PlatformId
    BY <1>0, <1>i, <1>2, ResultStep DEF PlatformId
  <1>3. ASSUME NEW j \in Jobs, NewId(j) PROVE IdsInv'
    BY <1>0, <1>i, <1>3, ResultStep DEF NewId
  <1>4. QED
    BY <1>1, <1>2, <1>3, TableStep

-----------------------------------------------------------------------------
(* The invariant of the specification, and what it gives. *)

(* Every reachable state satisfies the inductive invariant. *)
THEOREM Invariance == Spec => []IndInv
  <1>1. IndInv /\ [Next]_vars => IndInv'
    BY TypeStep, PhaseStep, IdsStep, TracksStep, ZombieStep, KeyStep DEF IndInv
  <1>2. QED
    BY InitEstablishesIndInv, <1>1, PTL DEF Spec

(* Every reachable state is well typed. *)
THEOREM TypeCorrect == Spec => []TypeOK
  <1>1. IndInv => TypeOK
    BY DEF IndInv
  <1>2. QED
    BY Invariance, <1>1, PTL

(* A job whose goroutine ended and whose last write was kept names exactly *)
(* the cluster it imported (runClusterProvisionJob).                       *)
THEOREM ResultTracksImportHolds == Spec => []ResultTracksImport
  <1>1. IndInv => ResultTracksImport
    BY DEF IndInv
  <1>2. QED
    BY Invariance, <1>1, PTL

(* No job ever points at a row that somebody else created. *)
THEOREM ResultNeverForeignHolds == Spec => []ResultNeverForeign
  <1>1. IndInv => ResultNeverForeign
    <2> SUFFICES ASSUME IndInv, NEW j \in Jobs, NEW r \in Rows, r.id = result[j]
                 PROVE  r.origin = j
      BY DEF ResultNeverForeign
    <2>1. r.id # 0
      BY BoundsAssumption DEF IndInv, TypeOK, Rows, ClusterRows, ClusterIds
    <2>2. QED
      BY <2>1 DEF IndInv, IdsInv, ResultFromImport, ImportsOwned
  <1>2. QED
    BY Invariance, <1>1, PTL

(* A pending or running row has a goroutine behind it or a lost write. *)
THEOREM NoZombieJobHolds == Spec => []NoZombieJob
  <1>1. IndInv => NoZombieJob
    BY DEF IndInv
  <1>2. QED
    BY Invariance, <1>1, PTL

(* The key file is on disk only while Runner.Run, or a crash in it, needs it. *)
THEOREM KeyScopeHolds == Spec => []KeyScope
  <1>1. IndInv => KeyScope
    BY DEF IndInv
  <1>2. QED
    BY Invariance, <1>1, PTL

-----------------------------------------------------------------------------
(* Action properties and the refinement. *)

(* What a settled job row says is final. *)
THEOREM TerminalIsFinalHolds == Spec => TerminalIsFinal
  <1>1. IndInv /\ [Next]_vars =>
          [\A j \in Jobs : status[j] \in Terminal =>
             status'[j] = status[j] /\ result'[j] = result[j]]_vars
    <2> SUFFICES ASSUME IndInv, [Next]_vars, NEW j \in Jobs, status[j] \in Terminal
                 PROVE  status'[j] = status[j] /\ result'[j] = result[j]
      OBVIOUS
    <2>1. status \in [Jobs -> {"none"} \cup Active \cup Terminal]
      BY DEF IndInv, TypeOK
    <2>2. QED
      BY <2>1, JobRowStep DEF IndInv, TypeOK, Settles, Lifecycle!Accept, Lifecycle!Progress,
         Lifecycle!AbandonActive, Lifecycle!Active, Active, Terminal
  <1>2. QED
    BY Invariance, <1>1, PTL DEF Spec, TerminalIsFinal

(* A deleted cluster comes back only through a copy read before. *)
THEOREM GoneForGoodHolds == Spec => GoneForGood
  <1> DEFINE Stays == \A i \in 1..(nextId - 1) :
                        (\A r \in clusters : r.id # i) /\ Holders(i) = {}
                          => (\A r \in clusters' : r.id # i)
  <1>1. IndInv /\ [Next]_vars => [Stays]_vars
    <2> SUFFICES ASSUME IndInv, [Next]_vars, NEW i \in 1..(nextId - 1),
                        \A r \in clusters : r.id # i, Holders(i) = {},
                        NEW r \in clusters'
                 PROVE  r.id # i
      OBVIOUS
    <2>0. i # nextId
      BY BoundsAssumption DEF IndInv, TypeOK
    <2>1. \/ r \in clusters
          \/ r.id = nextId
          \/ \E j \in Jobs : pc[j] \in {"cordon", "save"} /\ r.id = cluster[j]
          \/ \E a \in Admins : held[a] # Nothing /\ r.id = held[a].id
      BY RowSources DEF IndInv
    <2>2. QED
      BY <2>0, <2>1 DEF Holders
  <1>2. QED
    BY Invariance, <1>1, PTL DEF Spec, GoneForGood

(* The rows of the jobs implement the abstract lifecycle. *)
THEOREM Refinement == Spec => ImplementsLifecycle
  <1>1. Init => Lifecycle!Init
    BY DEF Init, Lifecycle!Init
  <1>2. IndInv /\ [Next]_vars => [Lifecycle!Next]_<<status, result>>
    <2> SUFFICES ASSUME IndInv, [Next]_vars
                 PROVE  [Lifecycle!Next]_<<status, result>>
      OBVIOUS
    <2>1. ASSUME NEW j \in Jobs, Settles(j) PROVE Lifecycle!Next
      <3>1. PICK st \in Terminal, c \in {0, cluster[j]} :
              /\ status[j] \in Active
              /\ st = "succeeded" => c # 0
              /\ status' = [status EXCEPT ![j] = st]
              /\ result' = [result EXCEPT ![j] = c]
        BY <2>1 DEF Settles
      <3>2. c \in ClusterIds \cup {0}
        BY DEF IndInv, TypeOK
      <3>3. c # 0 => Lifecycle!Fresh(j, c)
        BY DEF IndInv, IdsInv, OneImporter, ResultFromImport, Lifecycle!Fresh
      <3>4. CASE st = "succeeded"
        BY <3>1, <3>2, <3>3, <3>4 DEF Lifecycle!Next, Lifecycle!Succeed, Lifecycle!Active, Active
      <3>5. CASE st = "failed"
        BY <3>1, <3>2, <3>3, <3>5 DEF Lifecycle!Next, Lifecycle!Fail, Lifecycle!Active, Active
      <3>6. QED
        BY <3>4, <3>5 DEF Terminal
    <2>2. QED
      BY <2>1, JobRowStep DEF IndInv, Lifecycle!Next
  <1>3. QED
    BY Invariance, <1>1, <1>2, PTL DEF Spec, ImplementsLifecycle, Lifecycle!Spec, Lifecycle!vars
=============================================================================
