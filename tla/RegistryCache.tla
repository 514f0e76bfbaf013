---------------------------- MODULE RegistryCache ----------------------------
(***************************************************************************)
(* The handlers of /api/registries and the artifact cache they share.      *)
(* Listing artifacts is slow, so a listing is kept for a while; every      *)
(* handler that changes the table empties the cache after its write, and   *)
(* every handler that asks a registry saves the row it read before asking. *)
(* The cache's lock covers single map accesses only.                       *)
(*                                                                         *)
(* An artifact list is abstracted to where it was listed from.  Search and *)
(* limit, which only make further keys, are left out, and so are the       *)
(* columns no listing depends on; that a db.Save may fail is not.          *)
(***************************************************************************)
EXTENDS GormTable

CONSTANTS Handlers,    (* requests served at the same time                  *)
          Endpoints,   (* registries: address and credentials               *)
          Namespaces,  (* namespaces of a registry                          *)
          Nothing,     (* no handler, no cache entry, no mishap             *)
          CacheTTL,    (* registryArtifactCacheTTL, in ticks of the clock   *)
          MaxRows,     (* bound: rows inserted in a behaviour               *)
          MaxCalls,    (* bound: requests served in a behaviour             *)
          MaxTime      (* bound: ticks of the clock                         *)

ASSUME BoundsAssumption == {CacheTTL, MaxRows, MaxCalls, MaxTime} \subseteq Nat

VARIABLES rows,       (* the registry_integrations table                    *)
          nextId,     (* its AUTOINCREMENT sequence                         *)
          cache,      (* registryArtifactCache                              *)
          now,        (* the clock                                          *)
          handler,    (* what each handler holds and where it stands        *)
          calls,
          submitted,  (* history: the places given for each id              *)
          mishap      (* history: when row and cache last went apart        *)

vars == <<rows, nextId, cache, now, handler, calls, submitted, mishap>>

Ids    == 1..MaxRows
Times  == 0..MaxTime
Places == [endpoint : Endpoints, namespace : Namespaces]   (* what is listed *)
Rows   == [id : Ids, place : Places]
Keys   == Ids \X Namespaces

Entries == [items : Places, loadedAt : Times]
Calls   == [op : {"create", "update", "delete", "test", "list"}, row : Rows,
            at : {"lookup", "judge", "ask", "mark", "save", "delete", "store", "clear"},
            entry : Entries \cup {Nothing}]

(* No call, entry or time is mistaken for none.                            *)
ASSUME NothingAssumption == Nothing \notin Calls \cup Entries \cup Times

TypeOK ==
  /\ rows \in SUBSET Rows /\ nextId \in 1..(MaxRows + 1)
  /\ cache \in [Keys -> Entries \cup {Nothing}]
  /\ now \in Times
  /\ handler \in [Handlers -> Calls \cup {Nothing}]
  /\ calls \in 0..MaxCalls
  /\ submitted \in [Ids -> SUBSET Places]
  /\ mishap \in [Ids -> Times \cup {Nothing}]

Empty == [k \in Keys |-> Nothing]

Init ==
  /\ rows = {} /\ nextId = 1
  /\ cache = Empty
  /\ now = 0 /\ calls = 0
  /\ handler = [h \in Handlers |-> Nothing]
  /\ submitted = [i \in Ids |-> {}]
  /\ mishap = [i \in Ids |-> Nothing]

-----------------------------------------------------------------------------
At(h, step) == handler[h] # Nothing /\ handler[h].at = step
Become(h, c) == handler' = [handler EXCEPT ![h] = c]
Go(h, step) == Become(h, [handler[h] EXCEPT !.at = step])

Arrive(h, op, at, row) ==
  /\ handler[h] = Nothing /\ calls < MaxCalls /\ calls' = calls + 1
  /\ Become(h, [op |-> op, at |-> at, row |-> row, entry |-> Nothing])

(* The handler's copy is (still) what the table says.                      *)
UpToDate(row) == row \in rows

(* A cache key without the registry's id: a mistake for ListedIsOwn.       *)
KeyByNamespace(row) == <<1, row.place.namespace>>

(* registryArtifactCacheKey.                                               *)
Key(row) == <<row.id, row.place.namespace>>

Mishap(id, when) == mishap' = [mishap EXCEPT ![id] = IF when THEN now ELSE @]
Expired(entry) == now - entry.loadedAt > CacheTTL

-----------------------------------------------------------------------------
(* Faulty variants of the definitions below. *)

(* The cache cleared before the row is saved, not after. *)
UpdateClearingFirst(h) ==
  /\ \E r \in rows, p \in Places :
       /\ Arrive(h, "update", "mark", [r EXCEPT !.place = p])
       /\ submitted' = [submitted EXCEPT ![r.id] = @ \cup {p}]
  /\ cache' = Empty
  /\ UNCHANGED <<rows, nextId, now, mishap>>

-----------------------------------------------------------------------------
(* The requests.                                                           *)

(* createRegistryIntegration, once the probe succeeded: the INSERT.        *)
Create(h) ==
  /\ \E p \in Places :
       /\ nextId <= MaxRows
       /\ Arrive(h, "create", "clear", [id |-> nextId, place |-> p])
       /\ rows' = rows \cup {[id |-> nextId, place |-> p]}
       /\ submitted' = [submitted EXCEPT ![nextId] = {p}]
  /\ nextId' = nextId + 1
  /\ UNCHANGED <<cache, now, mishap>>

(* updateRegistryIntegration reads the row, probes the place it is to get  *)
(* and saves; an absent field keeps the value that was read.               *)
Update(h) ==
  /\ \E r \in rows, p \in Places :
       /\ Arrive(h, "update", "save", [r EXCEPT !.place = p])
       /\ submitted' = [submitted EXCEPT ![r.id] = @ \cup {p}]
  /\ UNCHANGED <<rows, nextId, cache, now, mishap>>

(* deleteRegistryIntegration does not read the row it deletes.             *)
Delete(h) ==
  /\ \E r \in rows : Arrive(h, "delete", "delete", r)
  /\ UNCHANGED <<rows, nextId, cache, now, submitted, mishap>>

(* testStoredRegistryIntegration, listRegistryArtifacts: loadRegistryEndpoint *)
TestOrList(h) ==
  /\ \E r \in rows : Arrive(h, "test", "ask", r) \/ Arrive(h, "list", "lookup", r)
  /\ UNCHANGED <<rows, nextId, cache, now, submitted, mishap>>

-----------------------------------------------------------------------------
(* loadRegistryArtifactCache: the entry is read under the lock and judged  *)
(* after it; an expired one is deleted, whatever is under the key by then. *)

Lookup(h) ==
  LET found == cache[Key(handler[h].row)] IN
  /\ At(h, "lookup")
  /\ Become(h, IF found = Nothing THEN [handler[h] EXCEPT !.at = "ask"]
               ELSE [handler[h] EXCEPT !.at = "judge", !.entry = found])
  /\ UNCHANGED <<rows, nextId, cache, now, calls, submitted, mishap>>

Judge(h) ==
  /\ At(h, "judge")
  /\ \/ /\ ~ Expired(handler[h].entry)
        /\ Become(h, Nothing)
        /\ UNCHANGED cache
     \/ /\ Expired(handler[h].entry)
        /\ Become(h, [handler[h] EXCEPT !.at = "ask", !.entry = Nothing])
        /\ cache' = [cache EXCEPT ![Key(handler[h].row)] = Nothing]
  /\ UNCHANGED <<rows, nextId, now, calls, submitted, mishap>>

(* The registry answers or does not; a listing goes on if it has answered. *)
AskRegistry(h) ==
  /\ At(h, "ask")
  /\ \/ handler[h].op = "list" /\ Go(h, "save")
     \/ Go(h, "mark")
  /\ UNCHANGED <<rows, nextId, cache, now, calls, submitted, mishap>>

(* db.Save of the handler's copy; only updateRegistryIntegration looks at  *)
(* the error.                                                              *)
SaveCopy(c) == /\ rows' = Upsert(rows, c.row)
               /\ Mishap(c.row.id, c.op # "update" /\ ~ UpToDate(c.row))

MarkRow(h) ==
  /\ At(h, "mark")
  /\ SaveCopy(handler[h]) \/ UNCHANGED <<rows, mishap>>
  /\ Become(h, Nothing)
  /\ UNCHANGED <<nextId, cache, now, calls, submitted>>

SaveRow(h) ==
  LET c == handler[h] IN
  /\ At(h, "save")
  /\ \/ SaveCopy(c) /\ Go(h, IF c.op = "update" THEN "clear" ELSE "store")
     \/ /\ UNCHANGED <<rows, mishap>>
        /\ IF c.op = "update" THEN Become(h, Nothing) ELSE Go(h, "store")
  /\ UNCHANGED <<nextId, cache, now, calls, submitted>>

DeleteRow(h) ==
  /\ At(h, "delete")
  /\ \/ rows' = Without(rows, handler[h].row.id) /\ Go(h, "clear")
     \/ UNCHANGED rows /\ Become(h, Nothing)
  /\ UNCHANGED <<nextId, cache, now, calls, submitted, mishap>>

(* storeRegistryArtifactCache, with the time of the answer.                *)
StoreList(h) ==
  LET c == handler[h] IN
  /\ At(h, "store")
  /\ cache' = [cache EXCEPT ![Key(c.row)] = [items |-> c.row.place, loadedAt |-> now]]
  /\ Mishap(c.row.id, ~ UpToDate(c.row))
  /\ Become(h, Nothing)
  /\ UNCHANGED <<rows, nextId, now, calls, submitted>>

(* clearRegistryArtifactCache, after which row and cache agree again.      *)
ClearCache(h) ==
  /\ At(h, "clear")
  /\ cache' = Empty
  /\ mishap' = [i \in Ids |-> Nothing]
  /\ Become(h, Nothing)
  /\ UNCHANGED <<rows, nextId, now, calls, submitted>>

Tick == /\ now < MaxTime /\ now' = now + 1
        /\ UNCHANGED <<rows, nextId, cache, handler, calls, submitted, mishap>>

-----------------------------------------------------------------------------
Request(h) == Create(h) \/ Update(h) \/ Delete(h) \/ TestOrList(h)

Step(h) == \/ Lookup(h) \/ Judge(h) \/ AskRegistry(h)
           \/ MarkRow(h) \/ SaveRow(h) \/ DeleteRow(h) \/ StoreList(h) \/ ClearCache(h)

Next == (\E h \in Handlers : Request(h) \/ Step(h)) \/ Tick

Spec == Init /\ [][Next]_vars

-----------------------------------------------------------------------------
(* What a listing finds under its key was listed from a place that was     *)
(* given for that very registry, also when other registries have the same  *)
(* namespace, or an entry outlives its row (registryArtifactCacheKey).     *)
ListedIsOwn ==
  \A h \in Handlers : At(h, "judge") =>
    handler[h].entry.items \in submitted[handler[h].row.id]

(* Some update or delete has written the row and is still to clear.        *)
Clearing(id) == \E h \in Handlers : At(h, "clear") /\ handler[h].row.id = id

(* A cached listing that would still be served comes from the place the    *)
(* row names.  The exceptions last no longer than the TTL: a listing that  *)
(* began before an update may store what it got from the old place after   *)
(* the update has cleared the cache, or save the old row over the new one. *)
CacheCurrent ==
  \A r \in rows :
    LET entry == cache[Key(r)] IN
    entry # Nothing /\ ~ Expired(entry) /\ ~ Clearing(r.id) =>
      \/ entry.items = r.place
      \/ mishap[r.id] # Nothing /\ now - mishap[r.id] <= CacheTTL
=============================================================================
