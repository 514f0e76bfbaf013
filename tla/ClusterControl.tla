--------------------------- MODULE ClusterControl ---------------------------
(***************************************************************************)
(* The handlers of /api/clusters and the three things they keep in step:   *)
(* the clusters table, the cache of client connections (kube.Factory) and  *)
(* the worker nodes' unschedulable flags.  No lock and no transaction      *)
(* spans a handler: each loads its own copy of a row, waits for API        *)
(* servers, and saves the whole copy later.                                *)
(*                                                                         *)
(* A row's name is left out; that db.Save may fail, because the name is    *)
(* taken for instance, is not.  Every kubeconfig leads to a cluster of its *)
(* own; one cluster may be registered twice.                               *)
(***************************************************************************)
EXTENDS GormTable, FiniteSets

CONSTANTS Handlers,     (* requests served at the same time                 *)
          Configs,      (* kubeconfigs, and the clusters they lead to       *)
          Workers,      (* the worker nodes of each of these clusters       *)
          AskedModes,   (* bound: the modes requests ask for                *)
          ProbedVersions, (* bound: may a probe miss a version (FALSE)?     *)
          Nothing,      (* no handler, no cached runtime, an absent input   *)
          MaxClusters,  (* bound: rows inserted in a behaviour              *)
          MaxCalls,     (* bound: requests served in a behaviour            *)
          MaxCrashes    (* bound: restarts of the server in a behaviour     *)

ASSUME BoundsAssumption == /\ {MaxClusters, MaxCalls, MaxCrashes} \subseteq Nat
                           /\ AskedModes \subseteq {"ready", "maintenance"}
                           /\ ProbedVersions \subseteq BOOLEAN

VARIABLES clusters,   (* the clusters table                                 *)
          nextId,     (* its AUTOINCREMENT sequence                         *)
          cache,      (* Factory.cache: id -> the kubeconfig it was built of *)
          cordoned,   (* cluster -> its workers with spec.unschedulable     *)
          handler,    (* what each handler holds and where it stands        *)
          calls, crashes,
          submitted,  (* history: the kubeconfigs given for each id         *)
          mishaps     (* history: what went wrong on each id                *)

vars == <<clusters, nextId, cache, cordoned, handler, calls, crashes,
          submitted, mishaps>>

Ids   == 1..MaxClusters
Modes == {"ready", "maintenance"}
Rows  == [id : Ids, cfg : Configs, mode : Modes, status : {"connected", "error"},
          versions : BOOLEAN]   (* version and criVersion are both known *)

Ops      == {"view", "create", "update", "delete", "test", "use"}
Changers == {"create", "update", "delete"}
Uses     == {"list", "call", "detect", "health"}   (* what a runtime is fetched for *)

Calls == [op : Ops, row : Rows,
          at : Uses \cup {"invalidate", "fetch", "store", "patch", "save", "delete", "next"},
          why : Uses,                   (* the step that follows Factory.Runtime *)
          rt : Configs \cup {Nothing},  (* the runtime in use                    *)
          want : Modes,                 (* nextMode                              *)
          nodes : SUBSET Workers,       (* still to be patched                   *)
          rest : SUBSET Rows,           (* rows listClusters has yet to look at  *)
          alone : BOOLEAN]              (* history: no other handler on its rows *)

ASSUME NothingAssumption == Nothing \notin Configs /\ Nothing \notin Calls

TypeOK ==
  /\ clusters \in SUBSET Rows /\ nextId \in 1..(MaxClusters + 1)
  /\ cache \in [Ids -> Configs \cup {Nothing}]
  /\ cordoned \in [Configs -> SUBSET Workers]
  /\ handler \in [Handlers -> Calls \cup {Nothing}]
  /\ calls \in 0..MaxCalls /\ crashes \in 0..MaxCrashes
  /\ submitted \in [Ids -> SUBSET Configs]
  /\ mishaps \in [Ids -> SUBSET {"overlap", "unsaved", "halfway"}]

Init ==
  /\ clusters = {} /\ nextId = 1
  /\ cache = [i \in Ids |-> Nothing]
  /\ cordoned = [k \in Configs |-> {}]
  /\ handler = [h \in Handlers |-> Nothing]
  /\ calls = 0 /\ crashes = 0
  /\ submitted = [i \in Ids |-> {}]
  /\ mishaps = [i \in Ids |-> {}]

-----------------------------------------------------------------------------
(* A call's progress. *)

On(c)    == {c.row.id} \cup {r.id : r \in c.rest}
InFlight == {h \in Handlers : handler[h] # Nothing}
Busy(i)  == \E h \in InFlight : i \in On(handler[h])

Newest(rows) == CHOOSE r \in rows : \A s \in rows : s.id <= r.id

Start(op, at, row) ==
  [op |-> op, at |-> at, why |-> "call", row |-> row, rt |-> Nothing,
   want |-> row.mode, nodes |-> {}, rest |-> {}, alone |-> TRUE]

FetchFor(c, why) == [c EXCEPT !.at = "fetch", !.why = why, !.rt = Nothing]
Over(c) == IF c.rest = {} THEN Nothing ELSE [c EXCEPT !.at = "next", !.rt = Nothing]

(* resolveClusterNodeHealth, the last thing most handlers do with a row.   *)
Health(c) == IF c.row.status = "connected" THEN FetchFor(c, "health") ELSE Over(c)

(* Request c arrives in h; every handler already on one of its rows is     *)
(* overlapped, and the row's history says so if either changes it.         *)
Arrive(h, c) ==
  LET met == {g \in InFlight : On(handler[g]) \cap On(c) # {}}
      Met(i) == \E g \in met : /\ i \in On(handler[g]) \cap On(c)
                               /\ {c.op, handler[g].op} \cap Changers # {}
  IN
  /\ handler[h] = Nothing /\ calls < MaxCalls /\ calls' = calls + 1
  /\ handler' = [g \in Handlers |->
       IF g = h THEN [c EXCEPT !.alone = (met = {})]
       ELSE IF g \in met THEN [handler[g] EXCEPT !.alone = FALSE] ELSE handler[g]]
  /\ mishaps' = [i \in Ids |-> IF Met(i) THEN mishaps[i] \cup {"overlap"} ELSE mishaps[i]]

At(h, step) == handler[h] # Nothing /\ handler[h].at = step
Become(h, c) == handler' = [handler EXCEPT ![h] = c] /\ UNCHANGED <<calls, crashes, nextId>>
Remember(i, what) == mishaps' = [mishaps EXCEPT ![i] = @ \cup what]

(* db.Save of the handler's copy.                                          *)
Saved(row, lost) == clusters' = Upsert(clusters, row) /\ Remember(row.id, lost)
NotSaved(row, lost) == UNCHANGED clusters /\ Remember(row.id, lost \cup {"unsaved"})

(* markClusterError and its copies in testCluster: the handler's copy goes *)
(* to the table with everything it has changed in it.  createCluster then  *)
(* takes its row back, if it was the mode that could not be applied.       *)
Fail(h) ==
  LET c == handler[h]
      failed == [c EXCEPT !.row.status = "error"]
      lost == IF c.why = "list" THEN {"halfway"} ELSE {}
  IN
  /\ Saved(failed.row, lost) \/ NotSaved(failed.row, lost)
  /\ Become(h, IF c.op = "create" /\ c.why = "list"
               THEN [failed EXCEPT !.at = "invalidate"] ELSE Over(failed))
  /\ UNCHANGED <<cache, cordoned, submitted>>

-----------------------------------------------------------------------------
(* Faulty variants of the actions below. *)

CreateReusingIds(h) ==
  \E k \in Configs, m \in AskedModes :
    LET id == CHOOSE i \in 1..nextId : /\ \A r \in clusters : r.id # i
                                       /\ \A l \in 1..(i-1) : \E r \in clusters : r.id = l
        row == [id |-> id, cfg |-> k, mode |-> m, status |-> "connected", versions |-> TRUE]
        c == Start("create", "fetch", row)
    IN
    /\ nextId <= MaxClusters /\ nextId' = IF id = nextId THEN nextId + 1 ELSE nextId
    /\ clusters' = clusters \cup {row}
    /\ submitted' = [submitted EXCEPT ![id] = {k}]
    /\ Arrive(h, IF m = "maintenance" THEN FetchFor(c, "list") ELSE FetchFor(c, "health"))
    /\ UNCHANGED <<cache, cordoned, crashes>>

(* Only a change of mode is carried to the nodes, not a new kubeconfig.    *)
SyncModeOnly(c, given) ==
  IF c.want = c.row.mode THEN [c EXCEPT !.at = "save"]
  ELSE IF given # Nothing THEN [c EXCEPT !.at = "invalidate"]
  ELSE FetchFor(c, "list")

(* updateCluster and testCluster without Invalidate.                       *)
InvalidateOnDelete(h) ==
  LET c == handler[h] IN
  /\ At(h, "invalidate")
  /\ cache' = IF c.op = "delete" THEN [cache EXCEPT ![c.row.id] = Nothing] ELSE cache
  /\ Become(h, CASE c.op \in {"create", "delete"} -> [c EXCEPT !.at = "delete"]
                 [] c.op = "update" -> FetchFor(c, "list")
                 [] c.op = "test"   -> FetchFor(c, "call"))
  /\ UNCHANGED <<clusters, cordoned, submitted, mishaps>>

InvalidateButTest(h) ==
  LET c == handler[h] IN
  /\ At(h, "invalidate")
  /\ cache' = IF c.op = "test" THEN cache ELSE [cache EXCEPT ![c.row.id] = Nothing]
  /\ Become(h, CASE c.op \in {"create", "delete"} -> [c EXCEPT !.at = "delete"]
                 [] c.op = "update" -> FetchFor(c, "list")
                 [] c.op = "test"   -> FetchFor(c, "call"))
  /\ UNCHANGED <<clusters, cordoned, submitted, mishaps>>

(* A loop over the workers that ends after the first.                      *)
SwitchedAfterOne(c) ==
  [c EXCEPT !.at = IF c.at = "list" /\ c.nodes # {} THEN "patch" ELSE "save",
            !.row.status = "connected", !.row.mode = c.want]

-----------------------------------------------------------------------------
(* Requests arrive. *)

(* getCluster, listClusters.                                               *)
View(h) ==
  /\ \E rows \in {clusters} \cup {{r} : r \in clusters} :
       /\ rows # {}
       /\ Arrive(h, [Start("view", "next", Newest(rows)) EXCEPT !.rest = rows])
  /\ UNCHANGED <<clusters, nextId, cache, cordoned, submitted, crashes>>

(* createCluster, once the kubeconfig is probed: the INSERT.               *)
Create(h) ==
  \E k \in Configs, m \in AskedModes, known \in ProbedVersions :
    LET row == [id |-> nextId, cfg |-> k, mode |-> m, status |-> "connected",
                versions |-> known]
        c == Start("create", "fetch", row)
    IN
    /\ nextId <= MaxClusters /\ nextId' = nextId + 1
    /\ clusters' = clusters \cup {row}
    /\ submitted' = [submitted EXCEPT ![nextId] = {k}]
    /\ Arrive(h, FetchFor(c, IF m = "maintenance" THEN "list" ELSE "health"))
    /\ UNCHANGED <<cache, cordoned, crashes>>

(* Whether updateCluster carries the mode to the nodes or only saves.      *)
Sync(c, given) ==
  IF given # Nothing THEN [c EXCEPT !.at = "invalidate"]
  ELSE IF c.want = c.row.mode THEN [c EXCEPT !.at = "save"]
  ELSE FetchFor(c, "list")

(* updateCluster: an absent mode is the present one, an absent kubeconfig  *)
(* is left alone.                                                          *)
Update(h) ==
  \E r \in clusters, given \in Configs \cup {Nothing}, m \in AskedModes,
     known \in ProbedVersions :
    LET row == IF given = Nothing THEN r
               ELSE [r EXCEPT !.cfg = given, !.status = "connected", !.versions = known]
        c == [Start("update", "save", row) EXCEPT !.want = m]
    IN
    /\ submitted' = IF given = Nothing THEN submitted
                    ELSE [submitted EXCEPT ![r.id] = @ \cup {given}]
    /\ Arrive(h, Sync(c, given))
    /\ UNCHANGED <<clusters, nextId, cache, cordoned, crashes>>

(* deleteCluster; testCluster; listNamespaces and the other handlers that  *)
(* only use the cluster's runtime.                                         *)
DeleteTestUse(h) ==
  /\ \E r \in clusters :
       \/ Arrive(h, Start("delete", "invalidate", r))
       \/ Arrive(h, Start("test", "invalidate", r))
       \/ Arrive(h, FetchFor(Start("use", "fetch", r), "call"))
  /\ UNCHANGED <<clusters, nextId, cache, cordoned, submitted, crashes>>

-----------------------------------------------------------------------------
(* Factory.Runtime and Factory.Invalidate. *)

(* A kubeconfig that cannot be decrypted any more fails here;              *)
(* refreshClusterRuntimeMetadata then gives up without saving.             *)
Fetch(h) ==
  LET c == handler[h]
      cached == cache[c.row.id]
  IN
  /\ At(h, "fetch")
  /\ \/ /\ cached # Nothing
        /\ Become(h, [c EXCEPT !.at = c.why, !.rt = cached])
        /\ UNCHANGED <<clusters, cache, cordoned, submitted, mishaps>>
     \/ /\ cached = Nothing
        /\ Become(h, [c EXCEPT !.at = "store"])
        /\ UNCHANGED <<clusters, cache, cordoned, submitted, mishaps>>
     \/ /\ cached = Nothing /\ c.why # "detect"
        /\ Fail(h)
     \/ /\ cached = Nothing /\ c.why = "detect"
        /\ Become(h, Health(c))
        /\ UNCHANGED <<clusters, cache, cordoned, submitted, mishaps>>

StoreRuntime(h) ==
  LET c == handler[h] IN
  /\ At(h, "store")
  /\ cache' = [cache EXCEPT ![c.row.id] = c.row.cfg]
  /\ Become(h, [c EXCEPT !.at = c.why, !.rt = c.row.cfg])
  /\ UNCHANGED <<clusters, cordoned, submitted, mishaps>>

Invalidate(h) ==
  LET c == handler[h] IN
  /\ At(h, "invalidate")
  /\ cache' = [cache EXCEPT ![c.row.id] = Nothing]
  /\ Become(h, CASE c.op \in {"create", "delete"} -> [c EXCEPT !.at = "delete"]
                 [] c.op = "update" -> FetchFor(c, "list")
                 [] c.op = "test"   -> FetchFor(c, "call"))
  /\ UNCHANGED <<clusters, cordoned, submitted, mishaps>>

-----------------------------------------------------------------------------
(* applyClusterMode with SetWorkerNodesSchedulable: one List, then PATCHes, *)
(* any of which may fail.  The API server leaves spec.unschedulable out    *)
(* where it is false, and the loop skips only a worker that says the mode  *)
(* wanted: ready is PATCHed to every worker, also to those that are.       *)

Switched(c) == IF c.nodes # {} THEN [c EXCEPT !.at = "patch"]
               ELSE [c EXCEPT !.at = "save", !.row.status = "connected", !.row.mode = c.want]

ListWorkers(h) ==
  LET c == handler[h]
      unskipped == IF c.want = "maintenance" THEN Workers \ cordoned[c.rt] ELSE Workers
  IN
  /\ At(h, "list")
  /\ \/ /\ Become(h, Switched([c EXCEPT !.nodes = unskipped]))
        /\ UNCHANGED <<clusters, cache, cordoned, submitted, mishaps>>
     \/ Fail(h)

PatchWorker(h) ==
  LET c == handler[h] IN
  /\ At(h, "patch")
  /\ \/ \E w \in c.nodes :
          /\ cordoned' = [cordoned EXCEPT ![c.rt] =
                            IF c.want = "maintenance" THEN @ \cup {w} ELSE @ \ {w}]
          /\ Become(h, Switched([c EXCEPT !.nodes = @ \ {w}]))
          /\ UNCHANGED <<clusters, cache, submitted, mishaps>>
     \/ Fail(h)

-----------------------------------------------------------------------------
(* The calls to the API server, and what the handlers do with the answer.  *)

(* An error of the call is marked; testCluster saves what it learnt.       *)
CallServer(h) ==
  LET c == handler[h] IN
  /\ At(h, "call")
  /\ \/ /\ \E known \in {TRUE, c.row.versions} :
             Become(h, IF c.op = "use" THEN Nothing
                       ELSE [c EXCEPT !.at = "save", !.row.status = "connected",
                                      !.row.versions = known])
        /\ UNCHANGED <<clusters, cache, cordoned, submitted, mishaps>>
     \/ Fail(h)

CheckHealth(h) ==
  /\ At(h, "health")
  /\ \/ /\ Become(h, Over(handler[h]))
        /\ UNCHANGED <<clusters, cache, cordoned, submitted, mishaps>>
     \/ Fail(h)

(* refreshClusterRuntimeMetadata: a GET saves the row it read.             *)
DetectVersions(h) ==
  \E known \in ProbedVersions :
    LET c == [handler[h] EXCEPT !.row.versions = known] IN
    /\ At(h, "detect")
    /\ Saved(c.row, {}) \/ NotSaved(c.row, {})
    /\ Become(h, Health(c))
    /\ UNCHANGED <<cache, cordoned, submitted>>

NextRow(h) ==
  LET c == handler[h]
      r == Newest(c.rest)
      d == [c EXCEPT !.row = r, !.rest = @ \ {r}]
  IN
  /\ At(h, "next")
  /\ Become(h, IF r.versions THEN Health(d) ELSE FetchFor(d, "detect"))
  /\ UNCHANGED <<clusters, cache, cordoned, submitted, mishaps>>

SaveRow(h) ==
  LET c == handler[h] IN
  /\ At(h, "save")
  /\ \/ Saved(c.row, {}) /\ Become(h, Health(c))
     \/ NotSaved(c.row, {}) /\ Become(h, Nothing)
  /\ UNCHANGED <<cache, cordoned, submitted>>

DeleteRow(h) ==
  LET c == handler[h] IN
  /\ At(h, "delete")
  /\ \/ clusters' = Without(clusters, c.row.id) /\ UNCHANGED mishaps
     \/ NotSaved(c.row, {})
  /\ Become(h, Nothing)
  /\ UNCHANGED <<cache, cordoned, submitted>>

(* The server stops and starts again: handlers and cache are gone.         *)
Restart ==
  /\ crashes < MaxCrashes /\ crashes' = crashes + 1
  /\ handler' = [h \in Handlers |-> Nothing]
  /\ cache' = [i \in Ids |-> Nothing]
  /\ mishaps' = [i \in Ids |->
       IF \E h \in InFlight : handler[h].op \in Changers /\ i \in On(handler[h])
       THEN mishaps[i] \cup {"halfway"} ELSE mishaps[i]]
  /\ UNCHANGED <<clusters, nextId, cordoned, calls, submitted>>

-----------------------------------------------------------------------------
Request(h) == View(h) \/ Create(h) \/ Update(h) \/ DeleteTestUse(h)

Step(h) == \/ Fetch(h) \/ StoreRuntime(h) \/ Invalidate(h)
           \/ ListWorkers(h) \/ PatchWorker(h)
           \/ CallServer(h) \/ CheckHealth(h) \/ DetectVersions(h) \/ NextRow(h)
           \/ SaveRow(h) \/ DeleteRow(h)

Next == (\E h \in Handlers : Request(h) \/ Step(h)) \/ Restart

Spec == Init /\ [][Next]_vars

-----------------------------------------------------------------------------
(* No other row was ever given the kubeconfig r has.                       *)
Unshared(r) == \A i \in Ids \ {r.id} : r.cfg \notin submitted[i]

NodesFollow(r) == cordoned[r.cfg] = IF r.mode = "maintenance" THEN Workers ELSE {}

(* The cached runtime of a cluster, and every runtime a handler works      *)
(* with, is built from a kubeconfig that was given for that very cluster:  *)
(* a leftover entry (a handler may store one after deleteCluster has       *)
(* invalidated it) never serves another cluster.                           *)
RuntimeIsOwn ==
  /\ \A i \in Ids : cache[i] # Nothing => cache[i] \in submitted[i]
  /\ \A h \in InFlight : LET c == handler[h] IN
       c.rt # Nothing => c.rt \in submitted[c.row.id]

(* Once the calls on a cluster are over, the cache holds the kubeconfig of *)
(* its row, unless a call overlapped with one that changes the row or a    *)
(* db.Save failed (updateCluster invalidates before it saves).             *)
CacheFresh ==
  \A r \in clusters :
    ~ Busy(r.id) /\ mishaps[r.id] \subseteq {"halfway"} => cache[r.id] \in {Nothing, r.cfg}

(* testCluster repairs the cache whatever happened to it before: if it has *)
(* the row to itself, what it probes and leaves behind is the row's own    *)
(* kubeconfig.                                                             *)
TestHeals ==
  \A h \in InFlight : LET c == handler[h] IN
    c.op = "test" /\ c.alone /\ c.at \in {"call", "save"} =>
      /\ c.rt = c.row.cfg /\ cache[c.row.id] = c.row.cfg
      /\ \E r \in clusters : r.id = c.row.id /\ r.cfg = c.rt

(* When updateCluster or createCluster reports a mode as applied, all the  *)
(* workers of the row's cluster are in it, if no other handler was on the  *)
(* row and the cache was fresh or has just been invalidated.               *)
SwitchTakesEffect ==
  \A h \in InFlight : LET c == handler[h] IN
    /\ c.op \in {"create", "update"} /\ c.alone /\ c.at = "save" /\ c.why = "list"
    /\ Unshared(c.row)
    /\ mishaps[c.row.id] \subseteq {"halfway"}
    => NodesFollow(c.row)

(* A cluster that says maintenance has all its workers cordoned, unless    *)
(* calls overlapped on it or one of them stopped halfway; a new kubeconfig *)
(* or a restart between two calls makes no difference.                     *)
MaintenanceHonest ==
  \A r \in clusters :
    /\ r.mode = "maintenance" /\ ~ Busy(r.id) /\ mishaps[r.id] = {} /\ Unshared(r)
    => NodesFollow(r)

(* The console says of a connected cluster in maintenance that its worker  *)
(* nodes are cordoned (resolveClusterRuntimeState in AppShell.tsx).  Here: *)
(* as long as every db.Save succeeds and no two calls overlap.             *)
MaintenanceMeansCordoned ==
  \A r \in clusters :
    /\ r.mode = "maintenance" /\ r.status = "connected"
    /\ ~ Busy(r.id) /\ mishaps[r.id] \subseteq {"halfway"}
    => NodesFollow(r)
=============================================================================
