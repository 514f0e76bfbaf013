------------------------- MODULE IntegrationsProofs -------------------------
(***************************************************************************)
(* Proofs about the server's two integrations: RegistryCache, for any      *)
(* number of handlers, registries, namespaces and requests, any TTL and    *)
(* any length of time, and GrafanaSession, for any number of handlers,     *)
(* accounts, cookies and requests.                                         *)
(*                                                                         *)
(* Registries: two arguments share the invariant.  A place that a row, a   *)
(* handler's copy or an entry names was given for its id, and no id is     *)
(* given twice; and an entry that does not name its row's place, when no   *)
(* handler is about to clear the cache, is no younger than the row's last  *)
(* mishap, so that it is served no longer than the TTL after that.         *)
(*                                                                         *)
(* Grafana: a cookie is put into the session at most once, by the handler  *)
(* that got it, and until then nobody else has it (RefusedIsGone); and a   *)
(* handler that has read the row since it last changed has its account     *)
(* and, unless it took over a session that was about to be dropped, a      *)
(* cookie of that account (SessionIsRows).                                 *)
(***************************************************************************)
EXTENDS MCIntegrations, TLAPS


(* A row, or a copy of one, whose place was given for its id.              *)
Known(r) == r \in Rows /\ r.id < nextId /\ r.place \in submitted[r.id]

Sound(c) ==
  /\ c \in Calls /\ Known(c.row)
  /\ c.at = "judge" => c.entry \in Entries /\ c.entry.items \in submitted[c.row.id]
  /\ c.at \in {"lookup", "judge", "ask", "mark"} => c.op # "update"

Fine(d) == d = Nothing \/ Sound(d)

TableInv ==
  /\ \A r \in rows : Known(r)
  /\ \A r, s \in rows : r.id = s.id => r = s

CacheInv ==
  \A i \in Ids, n \in Namespaces :
    LET e == cache[<<i, n>>] IN
    e # Nothing => i < nextId /\ e.items \in submitted[i] /\ e.loadedAt <= now

HandlerInv == \A h \in Handlers : Fine(handler[h])

Excused(r, e) == \/ e.items = r.place
                 \/ mishap[r.id] # Nothing /\ e.loadedAt <= mishap[r.id]

CurrentInv ==
  \A r \in rows :
    cache[Key(r)] # Nothing /\ ~ Clearing(r.id) => Excused(r, cache[Key(r)])

Inv == TypeOK /\ TableInv /\ CacheInv /\ HandlerInv /\ CurrentInv

-----------------------------------------------------------------------------
(* A call that has gone to another step, and one that has an entry too.    *)
Gone(c, at) == [c EXCEPT !.at = at]
Held(c, at, entry) == [c EXCEPT !.at = at, !.entry = entry]

(* Only the step differs; the row is the same.                             *)
LEMMA AtFacts ==
  ASSUME NEW c \in Calls, NEW at \in {"ask", "mark", "save", "store", "clear"}
  PROVE  LET d == Gone(c, at)
         IN d \in Calls /\ d.op = c.op /\ d.at = at /\ d.row = c.row
<1>1. Gone(c, at) \in Calls
  BY Zenon DEF Calls, Gone
<1> QED
  BY <1>1 DEF Calls, Gone

(* ... with what the cache held, or with nothing.                          *)
LEMMA EntryFacts ==
  ASSUME NEW c \in Calls, NEW at \in {"ask", "judge"}, NEW entry \in Entries \cup {Nothing}
  PROVE  LET d == Held(c, at, entry)
         IN /\ d \in Calls /\ d.op = c.op /\ d.at = at /\ d.row = c.row
            /\ d.entry = entry
<1>1. Held(c, at, entry) \in Calls
  BY Zenon DEF Calls, Held
<1> QED
  BY <1>1 DEF Calls, Held

(* A handler's own call.                                                   *)
LEMMA HandlerSound ==
  ASSUME Inv, NEW h \in Handlers, handler[h] # Nothing
  PROVE  /\ Sound(handler[h]) /\ handler[h] \in Calls
         /\ handler[h].row \in Rows /\ Key(handler[h].row) \in Keys
BY DEF Inv, HandlerInv, Fine, Sound, Known, Key, Keys, Rows, Places

(* A known row, and a sound call, stay so while the table gives ids and    *)
(* requests add places.                                                    *)
LEMMA FineKept ==
  ASSUME NEW c, Fine(c), nextId \in Nat, nextId' \in Nat, nextId <= nextId',
         \A i \in Ids : i < nextId => submitted[i] \subseteq submitted'[i]
  PROVE  Fine(c)'
<1> SUFFICES ASSUME Sound(c)
             PROVE  Sound(c)'
  BY DEF Fine
<1>1. c.row.id \in Ids /\ c.row.id < nextId
  BY DEF Sound, Known, Rows
<1>2. Known(c.row)'
  BY <1>1 DEF Sound, Known, Ids
<1> QED
  BY <1>1, <1>2 DEF Sound

(* The table has given ids, and places have been given for ids.            *)
Grown == /\ nextId' \in 1..(MaxRows + 1) /\ nextId <= nextId'
         /\ submitted' \in [Ids -> SUBSET Places]
         /\ \A i \in Ids : i < nextId => submitted[i] \subseteq submitted'[i]

(* A step that gives neither is the least of such steps.                   *)
LEMMA NotGrown ==
  ASSUME Inv, UNCHANGED <<nextId, submitted>>
  PROVE  Grown
BY BoundsAssumption DEF Inv, TypeOK, Grown

(* A handler goes on with a sound call, or ends; the others do nothing.    *)
LEMMA BecomeKeeps ==
  ASSUME Inv, Grown, NEW h \in Handlers, NEW d, Fine(d)', Become(h, d)
  PROVE  /\ handler' \in [Handlers -> Calls \cup {Nothing}] /\ HandlerInv'
         /\ ~ At(h, "clear") => \A i \in Ids : Clearing(i) => Clearing(i)'
<1>1. d \in Calls \cup {Nothing} /\ nextId \in Nat /\ nextId' \in Nat
  BY BoundsAssumption DEF Fine, Sound, Inv, TypeOK, Grown
<1>2. handler' = [handler EXCEPT ![h] = d] /\ handler \in [Handlers -> Calls \cup {Nothing}]
  BY DEF Become, Inv, TypeOK
<1>3. ASSUME NEW g \in Handlers
      PROVE  Fine(handler[g])'
  <2> SUFFICES ASSUME NEW e, e = handler[g], g # h
               PROVE  Fine(handler[g])'
    BY <1>2
  <2>1. Fine(e)'
    BY <1>1, FineKept DEF Inv, HandlerInv, Grown
  <2> QED
    BY <1>2, <2>1
<1>4. ASSUME ~ At(h, "clear"), NEW i \in Ids, Clearing(i)
      PROVE  Clearing(i)'
  <2>1. PICK g \in Handlers : At(g, "clear") /\ handler[g].row.id = i
    BY <1>4 DEF Clearing
  <2>2. handler'[g] = handler[g]
    BY <1>2, <1>4, <2>1
  <2> QED
    BY <2>1, <2>2 DEF Clearing, At
<1> QED
  BY <1>1, <1>2, <1>3, <1>4 DEF HandlerInv

(* Where rows and mishaps stay, entries only go, and nobody ceases to be   *)
(* about to clear.                                                         *)
LEMMA CurrentKept ==
  ASSUME Inv, UNCHANGED <<rows, mishap>>,
         \A k \in Keys : cache'[k] = Nothing \/ cache'[k] = cache[k],
         \A i \in Ids : Clearing(i) => Clearing(i)'
  PROVE  CurrentInv'
<1> SUFFICES ASSUME NEW r \in rows', cache'[Key(r)] # Nothing, ~ Clearing(r.id)'
             PROVE  Excused(r, cache[Key(r)])'
  BY DEF CurrentInv
<1>1. r \in rows /\ r.id \in Ids /\ Key(r) \in Keys
  BY DEF Inv, TypeOK, Rows, Key, Keys, Places
<1>2. cache'[Key(r)] = cache[Key(r)] /\ ~ Clearing(r.id)
  BY <1>1
<1> QED
  BY <1>1, <1>2 DEF Inv, CurrentInv, Excused

(* The table stays sound where rows only go.                               *)
LEMMA TableKept ==
  ASSUME Inv, Grown, rows' \subseteq rows
  PROVE  rows' \in SUBSET Rows /\ TableInv'
<1>1. ASSUME NEW r \in rows
      PROVE  r \in Rows /\ Known(r)'
  <2>1. Known(r) /\ r \in Rows
    BY DEF Inv, TypeOK, TableInv
  <2> QED
    BY <2>1, BoundsAssumption DEF Known, Grown, Rows, Ids, Inv, TypeOK
<1> QED
  BY <1>1 DEF TableInv, Inv

(* ... and so does what the cache holds while entries only go.             *)
LEMMA CacheKept ==
  ASSUME Inv, Grown, UNCHANGED now,
         cache' \in [Keys -> Entries \cup {Nothing}],
         \A k \in Keys : cache'[k] = Nothing \/ cache'[k] = cache[k]
  PROVE  CacheInv'
<1> SUFFICES ASSUME NEW i \in Ids, NEW n \in Namespaces, cache'[<<i, n>>] # Nothing
             PROVE  /\ i < nextId' /\ cache'[<<i, n>>].items \in submitted'[i]
                    /\ cache'[<<i, n>>].loadedAt <= now'
  BY DEF CacheInv
<1>1. <<i, n>> \in Keys
  BY DEF Keys
<1>2. cache'[<<i, n>>] = cache[<<i, n>>]
  BY <1>1
<1>3. i < nextId /\ cache[<<i, n>>].items \in submitted[i] /\ cache[<<i,
                     n>>].loadedAt <= now
  BY <1>2 DEF Inv, CacheInv
<1> QED
  BY <1>2, <1>3, BoundsAssumption DEF Grown, Ids, Inv, TypeOK

-----------------------------------------------------------------------------
(* Steps that write neither the table nor a mishap, and put nothing in the *)
(* cache.                                                                  *)
LEMMA QuietStepKeeps ==
  ASSUME Inv, NEW h \in Handlers, ~ At(h, "clear"), NEW d, Fine(d), Become(h, d),
         UNCHANGED <<rows, nextId, now, submitted, mishap>>,
         calls' \in 0..MaxCalls,
         cache' \in [Keys -> Entries \cup {Nothing}],
         \A k \in Keys : cache'[k] = Nothing \/ cache'[k] = cache[k]
  PROVE  Inv'
<1>1. Grown
  BY NotGrown
<1>2. Fine(d)'
  BY <1>1, FineKept, BoundsAssumption DEF Grown, Inv, TypeOK
<1>3. /\ handler' \in [Handlers -> Calls \cup {Nothing}] /\ HandlerInv'
      /\ \A i \in Ids : Clearing(i) => Clearing(i)'
  BY <1>1, <1>2, BecomeKeeps
<1>4. CurrentInv'
  BY <1>3, CurrentKept
<1>5. rows' \in SUBSET Rows /\ TableInv'
  BY <1>1, TableKept
<1>6. CacheInv'
  BY <1>1, CacheKept
<1>7. TypeOK'
  BY <1>3, <1>5 DEF Inv, TypeOK
<1> QED
  BY <1>3, <1>4, <1>5, <1>6, <1>7 DEF Inv

(* ... those that leave the cache alone.                                   *)
LEMMA OwnStepKeeps ==
  ASSUME Inv, NEW h \in Handlers, ~ At(h, "clear"), NEW d, Fine(d), Become(h, d),
         UNCHANGED <<rows, nextId, cache, now, calls, submitted, mishap>>
  PROVE  Inv'
<1>1. /\ calls' \in 0..MaxCalls /\ cache' \in [Keys -> Entries \cup {Nothing}]
      /\ \A k \in Keys : cache'[k] = cache[k]
  BY DEF Inv, TypeOK
<1> QED
  BY <1>1, QuietStepKeeps

(* A request starts with a copy of a row of the table.                     *)
LEMMA StartSound ==
  ASSUME NEW op \in {"create", "update", "delete", "test", "list"},
         NEW at \in {"lookup", "ask", "save", "delete", "clear"}, NEW row, Known(row),
         at \in {"lookup", "ask"} => op # "update"
  PROVE  Sound([op |-> op, at |-> at, row |-> row, entry |-> Nothing])
<1> DEFINE d == [op |-> op, at |-> at, row |-> row, entry |-> Nothing]
<1>1. d \in Calls /\ d.op = op /\ d.at = at /\ d.row = row
  BY DEF Calls, Known
<1> HIDE DEF d
<1>2. Sound(d)
  BY <1>1 DEF Sound
<1> QED
  BY <1>2 DEF d

(* The requests that read a row and change nothing yet.                    *)
LEMMA ReadingKeeps ==
  ASSUME Inv, NEW h \in Handlers, Delete(h) \/ TestOrList(h)
  PROVE  Inv'
<1>1. PICK r \in rows, op \in {"delete", "test", "list"}, at \in {"lookup", "ask",
      "delete"} :
        Arrive(h, op, at, r)
  <2>1. CASE Delete(h)
    BY <2>1 DEF Delete
  <2>2. CASE TestOrList(h)
    <3>1. PICK r \in rows : Arrive(h, "test", "ask", r) \/ Arrive(h, "list", "lookup", r)
      BY <2>2 DEF TestOrList
    <3>2. CASE Arrive(h, "test", "ask", r)
      BY <3>2
    <3>3. CASE Arrive(h, "list", "lookup", r)
      BY <3>3
    <3> QED
      BY <3>1, <3>2, <3>3
  <2> QED
    BY <2>1, <2>2
<1>2. UNCHANGED <<rows, nextId, cache, now, submitted, mishap>>
  BY DEF Delete, TestOrList
<1> DEFINE d == [op |-> op, at |-> at, row |-> r, entry |-> Nothing]
<1>3. /\ handler[h] = Nothing /\ calls < MaxCalls /\ calls' = calls + 1
      /\ Become(h, d)
  BY <1>1 DEF Arrive
<1>4. Known(r)
  BY DEF Inv, TableInv
<1>5. Fine(d)
  BY <1>4, StartSound DEF Fine
<1> HIDE DEF d
<1>6. ~ At(h, "clear") /\ calls' \in 0..MaxCalls
  BY <1>3, BoundsAssumption DEF At, Inv, TypeOK
<1>7. /\ cache' \in [Keys -> Entries \cup {Nothing}]
      /\ \A k \in Keys : cache'[k] = cache[k]
  BY <1>2 DEF Inv, TypeOK
<1> QED
  BY <1>2, <1>3, <1>5, <1>6, <1>7, QuietStepKeeps

(* updateRegistryIntegration: the place is given for the row's id.         *)
LEMMA UpdateKeeps ==
  ASSUME Inv, NEW h \in Handlers, Update(h)
  PROVE  Inv'
<1>1. PICK r \in rows, p \in Places :
        /\ Arrive(h, "update", "save", [r EXCEPT !.place = p])
        /\ submitted' = [submitted EXCEPT ![r.id] = @ \cup {p}]
  BY DEF Update
<1>2. UNCHANGED <<rows, nextId, cache, now, mishap>>
  BY DEF Update
<1> DEFINE row == [r EXCEPT !.place = p]
           d == [op |-> "update", at |-> "save", row |-> row, entry |-> Nothing]
<1>3. handler[h] = Nothing /\ calls < MaxCalls /\ calls' = calls + 1 /\ Become(h, d)
  BY <1>1 DEF Arrive
<1>4. r \in Rows /\ Known(r)
  BY DEF Inv, TypeOK, TableInv
<1>5. row \in Rows /\ row.id = r.id /\ row.place = p
  BY <1>4 DEF Rows
<1> HIDE DEF row
<1>6. d \in Calls /\ d.op = "update" /\ d.at = "save" /\ d.row = row
  BY <1>5 DEF Calls
<1> HIDE DEF d
<1>7. Grown
  BY <1>1, <1>2, <1>4, BoundsAssumption DEF Inv, TypeOK, Grown, Rows
<1>8. Known(row)'
  BY <1>1, <1>2, <1>4, <1>5 DEF Known, Rows, Inv, TypeOK
<1>9. Fine(d)'
  BY <1>6, <1>8 DEF Fine, Sound
<1>10. /\ handler' \in [Handlers -> Calls \cup {Nothing}] /\ HandlerInv'
       /\ \A i \in Ids : Clearing(i) => Clearing(i)'
  BY <1>3, <1>7, <1>9, BecomeKeeps DEF At
<1>11. CurrentInv'
  BY <1>2, <1>10, CurrentKept
<1>12. rows' \in SUBSET Rows /\ TableInv'
  BY <1>2, <1>7, TableKept
<1>13. CacheInv' /\ cache' \in [Keys -> Entries \cup {Nothing}]
  BY <1>2, <1>7, CacheKept DEF Inv, TypeOK
<1>14. calls' \in 0..MaxCalls
  BY <1>3, BoundsAssumption DEF Inv, TypeOK
<1>15. TypeOK'
  BY <1>2, <1>7, <1>10, <1>12, <1>14 DEF Inv, TypeOK, Grown
<1> QED
  BY <1>10, <1>11, <1>12, <1>13, <1>15 DEF Inv

(* createRegistryIntegration: the id is new, nothing is cached under it,   *)
(* and the handler is about to clear.                                      *)
LEMMA CreateKeeps ==
  ASSUME Inv, NEW h \in Handlers, Create(h)
  PROVE  Inv'
<1> SUFFICES ASSUME NEW n, n = nextId
             PROVE  Inv'
  OBVIOUS
<1>1. PICK p \in Places :
        /\ nextId <= MaxRows
        /\ Arrive(h, "create", "clear", [id |-> n, place |-> p])
        /\ rows' = rows \cup {[id |-> n, place |-> p]}
        /\ submitted' = [submitted EXCEPT ![n] = {p}]
  BY DEF Create
<1> DEFINE row == [id |-> n, place |-> p]
           d == [op |-> "create", at |-> "clear", row |-> row, entry |-> Nothing]
<1>2. nextId' = nextId + 1 /\ UNCHANGED <<cache, now, mishap>>
  BY DEF Create
<1>3. handler[h] = Nothing /\ calls < MaxCalls /\ calls' = calls + 1 /\ Become(h, d)
  BY <1>1 DEF Arrive
<1>4. n \in Ids /\ n \in Nat
  BY <1>1, BoundsAssumption DEF Inv, TypeOK, Ids
<1>5. row \in Rows /\ row.id = n /\ row.place = p /\ rows' = rows \cup {row}
  BY <1>1, <1>4 DEF Rows
<1> HIDE DEF row
<1>6. d \in Calls /\ d.op = "create" /\ d.at = "clear" /\ d.row = row
  BY <1>5 DEF Calls
<1> HIDE DEF d
<1>7. Grown /\ submitted'[n] = {p}
  BY <1>1, <1>2, <1>4, BoundsAssumption DEF Inv, TypeOK, Grown
<1>8. Known(row)'
  BY <1>2, <1>4, <1>5, <1>7 DEF Known
<1>9. Fine(d)'
  BY <1>6, <1>8 DEF Fine, Sound
<1>10. /\ handler' \in [Handlers -> Calls \cup {Nothing}] /\ HandlerInv'
       /\ \A i \in Ids : Clearing(i) => Clearing(i)'
  BY <1>3, <1>7, <1>9, BecomeKeeps DEF At
<1>11. Clearing(n)'
  <2>1. handler'[h] = d /\ d # Nothing
    BY <1>3, <1>6, NothingAssumption DEF Become, Inv, TypeOK
  <2> QED
    BY <1>5, <1>6, <2>1 DEF Clearing, At
<1>12. ASSUME NEW r \in rows
       PROVE  r \in Rows /\ r.id < n /\ Known(r)'
  <2>1. r \in Rows /\ Known(r)
    BY DEF Inv, TypeOK, TableInv
  <2> QED
    BY <1>2, <1>4, <1>7, <2>1 DEF Known, Grown, Rows, Ids
<1>13. rows' \in SUBSET Rows /\ TableInv'
  <2>1. \A r \in rows' : r \in Rows /\ Known(r)'
    BY <1>5, <1>8, <1>12
  <2>2. \A r, s \in rows' : r.id = s.id => r = s
    BY <1>4, <1>5, <1>12 DEF Inv, TableInv, Rows, Ids
  <2> QED
    BY <2>1, <2>2 DEF TableInv
<1>14. CacheInv' /\ cache' \in [Keys -> Entries \cup {Nothing}]
  BY <1>2, <1>7, CacheKept DEF Inv, TypeOK
<1>15. CurrentInv'
  <2> SUFFICES ASSUME NEW r \in rows', cache'[Key(r)] # Nothing, ~ Clearing(r.id)'
               PROVE  Excused(r, cache[Key(r)])'
    BY DEF CurrentInv
  <2>1. r \in rows
    BY <1>5, <1>11
  <2>2. r.id \in Ids /\ ~ Clearing(r.id)
    BY <1>10, <1>12, <2>1 DEF Rows
  <2> QED
    BY <1>2, <2>1, <2>2 DEF Inv, CurrentInv, Excused
<1>16. TypeOK'
  <2>1. calls' \in 0..MaxCalls
    BY <1>3, BoundsAssumption DEF Inv, TypeOK
  <2> QED
    BY <1>2, <1>7, <1>10, <1>13, <2>1 DEF Inv, TypeOK, Grown
<1> QED
  BY <1>10, <1>13, <1>14, <1>15, <1>16 DEF Inv

-----------------------------------------------------------------------------
(* The lookup: an entry under the row's key was listed for the row's id.   *)
LEMMA LookupKeeps ==
  ASSUME Inv, NEW h \in Handlers, Lookup(h)
  PROVE  Inv'
<1> SUFFICES ASSUME NEW c, c = handler[h], NEW found, found = cache[Key(c.row)]
             PROVE  Inv'
  OBVIOUS
<1>1. c # Nothing /\ c.at = "lookup" /\ ~ At(h, "clear")
  BY DEF Lookup, At
<1>2. Sound(c) /\ c \in Calls /\ c.row \in Rows /\ Key(c.row) \in Keys
  BY <1>1, HandlerSound
<1> DEFINE d == IF found = Nothing THEN Gone(c, "ask") ELSE Held(c, "judge", found)
<1>3. Become(h, d) /\ UNCHANGED <<rows, nextId, cache, now, calls, submitted, mishap>>
  BY DEF Lookup, Gone, Held
<1>4. Fine(d)
  <2>1. CASE found = Nothing
    <3> DEFINE e == Gone(c, "ask")
    <3>1. e \in Calls /\ e.op = c.op /\ e.at = "ask" /\ e.row = c.row
      BY <1>2, AtFacts
    <3> HIDE DEF e
    <3>2. Sound(e)
      BY <1>1, <1>2, <3>1 DEF Sound
    <3> QED
      BY <2>1, <3>2 DEF Fine, e
  <2>2. CASE found # Nothing
    <3>1. found \in Entries
      BY <1>2, <2>2 DEF Inv, TypeOK
    <3> DEFINE e == Held(c, "judge", found)
    <3>2. /\ e \in Calls /\ e.op = c.op /\ e.at = "judge" /\ e.row = c.row
          /\ e.entry = found
      BY <1>2, <3>1, EntryFacts
    <3>3. found.items \in submitted[c.row.id]
      BY <1>2, <2>2 DEF Inv, CacheInv, Key, Rows, Places
    <3> HIDE DEF e
    <3>4. Sound(e)
      BY <1>1, <1>2, <3>1, <3>2, <3>3 DEF Sound
    <3> QED
      BY <2>2, <3>4 DEF Fine, e
  <2> QED
    BY <2>1, <2>2
<1> HIDE DEF d
<1> QED
  BY <1>1, <1>3, <1>4, OwnStepKeeps

(* An expired entry is deleted, and nothing is put in its place.           *)
LEMMA JudgeKeeps ==
  ASSUME Inv, NEW h \in Handlers, Judge(h)
  PROVE  Inv'
<1> SUFFICES ASSUME NEW c, c = handler[h]
             PROVE  Inv'
  OBVIOUS
<1>1. c # Nothing /\ c.at = "judge" /\ ~ At(h, "clear")
  BY DEF Judge, At
<1>2. Sound(c) /\ c \in Calls /\ Key(c.row) \in Keys
  BY <1>1, HandlerSound
<1>3. UNCHANGED <<rows, nextId, now, calls, submitted, mishap>>
  BY DEF Judge
<1>4. CASE Become(h, Nothing) /\ UNCHANGED cache
  BY <1>1, <1>3, <1>4, OwnStepKeeps DEF Fine
<1>5. CASE /\ Become(h, [c EXCEPT !.at = "ask", !.entry = Nothing])
           /\ cache' = [cache EXCEPT ![Key(c.row)] = Nothing]
  <2> DEFINE d == Held(c, "ask", Nothing)
  <2>1. d \in Calls /\ d.op = c.op /\ d.at = "ask" /\ d.row = c.row
    BY <1>2, EntryFacts
  <2>2. Become(h, d)
    BY <1>5 DEF Held
  <2> HIDE DEF d
  <2>3. Fine(d)
    BY <1>1, <1>2, <2>1 DEF Fine, Sound
  <2>4. /\ cache' \in [Keys -> Entries \cup {Nothing}] /\ calls' \in 0..MaxCalls
        /\ \A k \in Keys : cache'[k] = Nothing \/ cache'[k] = cache[k]
    BY <1>2, <1>3, <1>5 DEF Inv, TypeOK
  <2> QED
    BY <1>1, <1>3, <2>2, <2>3, <2>4, QuietStepKeeps
<1> QED
  BY <1>4, <1>5 DEF Judge

(* The registry's answer decides where the handler goes on.                *)
LEMMA AskRegistryKeeps ==
  ASSUME Inv, NEW h \in Handlers, AskRegistry(h)
  PROVE  Inv'
<1> SUFFICES ASSUME NEW c, c = handler[h]
             PROVE  Inv'
  OBVIOUS
<1>1. c # Nothing /\ c.at = "ask" /\ ~ At(h, "clear")
  BY DEF AskRegistry, At
<1>2. Sound(c) /\ c \in Calls
  BY <1>1, HandlerSound
<1>3. PICK at \in {"save", "mark"} : Go(h, at)
  BY DEF AskRegistry
<1> DEFINE d == Gone(c, at)
<1>4. Become(h, d) /\ UNCHANGED <<rows, nextId, cache, now, calls, submitted, mishap>>
  BY <1>3 DEF Go, AskRegistry, Gone
<1>5. d \in Calls /\ d.op = c.op /\ d.at = at /\ d.row = c.row
  BY <1>2, AtFacts
<1> HIDE DEF d
<1>6. Fine(d)
  BY <1>1, <1>2, <1>5 DEF Fine, Sound
<1> QED
  BY <1>1, <1>4, <1>6, OwnStepKeeps

-----------------------------------------------------------------------------
(* db.Save of a copy.  A row that is not the copy's is left alone; the     *)
(* copy's own is now what the copy says, and an entry that says something  *)
(* else is no younger than the mishap this is, unless this is an update,   *)
(* which clears the cache next.                                            *)
LEMMA SaveCopyKeeps ==
  ASSUME Inv, Grown, UNCHANGED <<cache, now>>, NEW c, Sound(c), c.row \in Rows,
         SaveCopy(c) \/ UNCHANGED <<rows, mishap>>,
         \A i \in Ids : Clearing(i) => Clearing(i)',
         c.op = "update" => Clearing(c.row.id)' \/ UNCHANGED <<rows, mishap>>
  PROVE  /\ rows' \in SUBSET Rows /\ TableInv'
         /\ mishap' \in [Ids -> Times \cup {Nothing}]
         /\ CurrentInv'
<1>1. CASE UNCHANGED <<rows, mishap>>
  BY <1>1, CurrentKept, TableKept DEF Inv, TypeOK
<1>2. CASE SaveCopy(c) /\ ~ UNCHANGED <<rows, mishap>>
  <2>1. /\ rows' = {r \in rows : r.id # c.row.id} \cup {c.row}
        /\ mishap' = [mishap EXCEPT ![c.row.id] =
                        IF c.op # "update" /\ c.row \notin rows THEN now ELSE @]
        /\ c.row.id \in Ids
    BY <1>2 DEF SaveCopy, Upsert, Mishap, UpToDate, Rows
  <2>2. mishap' \in [Ids -> Times \cup {Nothing}]
    BY <2>1 DEF Inv, TypeOK
  <2>3. ASSUME NEW r, Known(r)
        PROVE  r \in Rows /\ Known(r)'
    BY <2>3, BoundsAssumption DEF Known, Grown, Rows, Ids, Inv, TypeOK
  <2>4. rows' \in SUBSET Rows /\ TableInv'
    <3>1. \A r \in rows' : Known(r)
      BY <2>1 DEF Inv, TableInv, Sound
    <3>2. \A r, s \in rows' : r.id = s.id => r = s
      BY <2>1 DEF Inv, TableInv
    <3> QED
      BY <2>3, <3>1, <3>2 DEF TableInv
  <2>5. CurrentInv'
    <3> SUFFICES ASSUME NEW r \in rows', cache'[Key(r)] # Nothing, ~ Clearing(r.id)'
                 PROVE  Excused(r, cache[Key(r)])'
      BY DEF CurrentInv
    <3>1. r \in Rows /\ r.id \in Ids /\ r.place.namespace \in Namespaces /\ Key(r) \in Keys
      BY <2>4 DEF Rows, Key, Keys, Places
    <3>2. cache'[Key(r)] = cache[Key(r)] /\ ~ Clearing(r.id)
      BY <3>1
    <3>3. CASE r \in rows /\ mishap'[r.id] = mishap[r.id]
      BY <3>2, <3>3 DEF Inv, CurrentInv, Excused
    <3>4. CASE ~ (r \in rows /\ mishap'[r.id] = mishap[r.id])
      <4>1. r.id = c.row.id
        BY <2>1, <3>1, <3>4 DEF Inv, TypeOK
      <4>2. r = c.row
        BY <2>1, <4>1
      <4>3. c.op # "update"
        BY <1>2, <3>1, <4>2
      <4>4. mishap'[r.id] = now
        BY <2>1, <3>4, <4>2, <4>3 DEF Inv, TypeOK
      <4>5. now # Nothing
        BY NothingAssumption DEF Inv, TypeOK
      <4>6. cache[Key(r)].loadedAt <= now
        BY <3>1, <3>2 DEF Inv, CacheInv, Key
      <4> QED
        BY <3>2, <4>4, <4>5, <4>6 DEF Excused
    <3> QED
      BY <3>3, <3>4
  <2> QED
    BY <2>2, <2>4, <2>5
<1> QED
  BY <1>1, <1>2

(* Enough for a step that may save a copy.                                 *)
LEMMA SavingStepKeeps ==
  ASSUME Inv, NEW h \in Handlers, NEW c, c = handler[h], Sound(c), ~ At(h, "clear"),
         NEW d, Fine(d), Become(h, d), UNCHANGED <<nextId, cache, now, calls, submitted>>,
         SaveCopy(c) \/ UNCHANGED <<rows, mishap>>,
         c.op = "update" => \/ UNCHANGED <<rows, mishap>>
                            \/ d # Nothing /\ d.at = "clear" /\ d.row = c.row
  PROVE  Inv'
<1>1. Grown
  BY NotGrown
<1>2. Fine(d)'
  BY <1>1, FineKept, BoundsAssumption DEF Grown, Inv, TypeOK
<1>3. /\ handler' \in [Handlers -> Calls \cup {Nothing}] /\ HandlerInv'
      /\ \A i \in Ids : Clearing(i) => Clearing(i)'
  BY <1>1, <1>2, BecomeKeeps
<1>4. handler'[h] = d
  BY DEF Become, Inv, TypeOK
<1>5. c.op = "update" => Clearing(c.row.id)' \/ UNCHANGED <<rows, mishap>>
  BY <1>4 DEF Clearing, At
<1>6. c.row \in Rows
  BY DEF Sound, Known
<1>7. /\ rows' \in SUBSET Rows /\ TableInv'
      /\ mishap' \in [Ids -> Times \cup {Nothing}]
      /\ CurrentInv'
  BY <1>1, <1>3, <1>5, <1>6, SaveCopyKeeps
<1>8. CacheInv' /\ cache' \in [Keys -> Entries \cup {Nothing}]
  BY <1>1, CacheKept DEF Inv, TypeOK
<1>9. TypeOK'
  BY <1>3, <1>7, <1>8 DEF Inv, TypeOK
<1> QED
  BY <1>3, <1>7, <1>8, <1>9 DEF Inv

(* markRegistryError and the like: never in an update.                     *)
LEMMA MarkRowKeeps ==
  ASSUME Inv, NEW h \in Handlers, MarkRow(h)
  PROVE  Inv'
<1> SUFFICES ASSUME NEW c, c = handler[h]
             PROVE  Inv'
  OBVIOUS
<1>1. c # Nothing /\ c.at = "mark" /\ ~ At(h, "clear")
  BY DEF MarkRow, At
<1>2. Sound(c) /\ c.op # "update"
  BY <1>1, HandlerSound DEF Sound
<1>3. /\ SaveCopy(c) \/ UNCHANGED <<rows, mishap>>
      /\ Become(h, Nothing) /\ UNCHANGED <<nextId, cache, now, calls, submitted>>
  BY DEF MarkRow
<1>4. Fine(Nothing)
  BY DEF Fine
<1> QED
  BY <1>1, <1>2, <1>3, <1>4, SavingStepKeeps

(* The save of an update, after which it clears, or of a listing, after    *)
(* which it stores.                                                        *)
LEMMA SaveRowKeeps ==
  ASSUME Inv, NEW h \in Handlers, SaveRow(h)
  PROVE  Inv'
<1> SUFFICES ASSUME NEW c, c = handler[h]
             PROVE  Inv'
  OBVIOUS
<1>1. c # Nothing /\ c.at = "save" /\ ~ At(h, "clear")
  BY DEF SaveRow, At
<1>2. Sound(c) /\ c \in Calls
  BY <1>1, HandlerSound
<1>3. UNCHANGED <<nextId, cache, now, calls, submitted>>
  BY DEF SaveRow
<1>4. ASSUME NEW at \in {"store", "clear"}
      PROVE  LET d == Gone(c, at)
             IN Sound(d) /\ d # Nothing /\ d.at = at /\ d.row = c.row
  <2> DEFINE d == Gone(c, at)
  <2>1. d \in Calls /\ d.op = c.op /\ d.at = at /\ d.row = c.row
    BY <1>2, AtFacts
  <2> HIDE DEF d
  <2>2. Sound(d) /\ d # Nothing
    BY <1>2, <2>1, NothingAssumption DEF Sound
  <2> QED
    BY <2>1, <2>2 DEF d
<1>5. CASE c.op = "update" /\ UNCHANGED <<rows, mishap>> /\ Become(h, Nothing)
  BY <1>1, <1>3, <1>5, OwnStepKeeps DEF Fine
<1>6. CASE c.op = "update" /\ SaveCopy(c) /\ Go(h, "clear")
  <2> DEFINE d == Gone(c, "clear")
  <2>1. Become(h, d)
    BY <1>6 DEF Go, Gone
  <2>2. Sound(d) /\ d # Nothing /\ d.at = "clear" /\ d.row = c.row
    BY <1>4
  <2> HIDE DEF d
  <2> QED
    <3>1. Fine(d)
      BY <2>2 DEF Fine
    <3> QED
      BY <1>1, <1>2, <1>3, <1>6, <2>1, <2>2, <3>1, SavingStepKeeps
<1>7. CASE /\ c.op # "update" /\ Go(h, "store")
           /\ SaveCopy(c) \/ UNCHANGED <<rows, mishap>>
  <2> DEFINE d == Gone(c, "store")
  <2>1. Become(h, d)
    BY <1>7 DEF Go, Gone
  <2>2. Sound(d)
    BY <1>4
  <2> HIDE DEF d
  <2> QED
    <3>1. Fine(d)
      BY <2>2 DEF Fine
    <3> QED
      BY <1>1, <1>2, <1>3, <1>7, <2>1, <3>1, SavingStepKeeps
<1> QED
  BY <1>5, <1>6, <1>7 DEF SaveRow

(* db.Delete: the row is gone, what is cached for it is cleared next.      *)
LEMMA DeleteRowKeeps ==
  ASSUME Inv, NEW h \in Handlers, DeleteRow(h)
  PROVE  Inv'
<1> SUFFICES ASSUME NEW c, c = handler[h]
             PROVE  Inv'
  OBVIOUS
<1>1. c # Nothing /\ c.at = "delete" /\ ~ At(h, "clear")
  BY DEF DeleteRow, At
<1>2. Sound(c) /\ c \in Calls
  BY <1>1, HandlerSound
<1>3. UNCHANGED <<nextId, cache, now, calls, submitted, mishap>> /\ rows' \subseteq rows
  BY DEF DeleteRow, Without
<1> DEFINE e == Gone(c, "clear")
<1>4. e \in Calls /\ e.op = c.op /\ e.at = "clear" /\ e.row = c.row
  BY <1>2, AtFacts
<1>5. Become(h, e) \/ Become(h, Nothing)
  BY DEF DeleteRow, Go, Gone
<1> HIDE DEF e
<1>6. Fine(e)
  BY <1>2, <1>4 DEF Sound, Fine
<1>7. PICK d : Fine(d) /\ Become(h, d)
  BY <1>5, <1>6 DEF Fine
<1>8. Grown
  BY <1>3, NotGrown
<1>9. Fine(d)'
  BY <1>7, <1>8, FineKept, BoundsAssumption DEF Grown, Inv, TypeOK
<1>10. /\ handler' \in [Handlers -> Calls \cup {Nothing}] /\ HandlerInv'
       /\ \A i \in Ids : Clearing(i) => Clearing(i)'
  BY <1>1, <1>7, <1>8, <1>9, BecomeKeeps
<1>11. rows' \in SUBSET Rows /\ TableInv'
  BY <1>3, <1>8, TableKept
<1>12. CacheInv' /\ cache' \in [Keys -> Entries \cup {Nothing}]
  BY <1>3, <1>8, CacheKept DEF Inv, TypeOK
<1>13. CurrentInv'
  <2> SUFFICES ASSUME NEW r \in rows', cache'[Key(r)] # Nothing, ~ Clearing(r.id)'
               PROVE  Excused(r, cache[Key(r)])'
    BY DEF CurrentInv
  <2>1. r \in rows /\ r.id \in Ids
    BY <1>3 DEF Inv, TypeOK, Rows
  <2> QED
    BY <1>3, <1>10, <2>1 DEF Inv, CurrentInv, Excused
<1>14. TypeOK'
  BY <1>3, <1>10, <1>11, <1>12 DEF Inv, TypeOK
<1> QED
  BY <1>10, <1>11, <1>12, <1>13, <1>14 DEF Inv

(* A listing is stored under its row's key: if it does not name the row's  *)
(* place any more, that is a mishap of this moment.                        *)
LEMMA StoreListKeeps ==
  ASSUME Inv, NEW h \in Handlers, StoreList(h)
  PROVE  Inv'
<1> SUFFICES ASSUME NEW c, c = handler[h], NEW t, t = now
             PROVE  Inv'
  OBVIOUS
<1>1. c # Nothing /\ c.at = "store" /\ ~ At(h, "clear")
  BY DEF StoreList, At
<1>2. Sound(c) /\ c \in Calls /\ c.row \in Rows /\ Key(c.row) \in Keys /\ Known(c.row)
  BY <1>1, HandlerSound DEF Sound
<1> DEFINE e == [items |-> c.row.place, loadedAt |-> t]
<1>3. /\ cache' = [cache EXCEPT ![Key(c.row)] = e]
      /\ mishap' = [mishap EXCEPT ![c.row.id] = IF c.row \notin rows THEN now ELSE @]
      /\ Become(h, Nothing) /\ UNCHANGED <<rows, nextId, now, calls, submitted>>
  BY DEF StoreList, Mishap, UpToDate
<1>4. /\ c.row.id \in Ids /\ c.row.place \in Places /\ c.row.place.namespace \in Namespaces
      /\ t \in Times /\ t \in Nat
  BY <1>2, BoundsAssumption DEF Rows, Places, Inv, TypeOK, Times
<1>5. e \in Entries /\ e.items = c.row.place /\ e.loadedAt = t
  BY <1>4 DEF Entries
<1> HIDE DEF e
<1>6. Grown
  BY <1>3, NotGrown
<1>7. /\ handler' \in [Handlers -> Calls \cup {Nothing}] /\ HandlerInv'
      /\ \A i \in Ids : Clearing(i) => Clearing(i)'
  BY <1>1, <1>3, <1>6, BecomeKeeps DEF Fine
<1>8. rows' \in SUBSET Rows /\ TableInv'
  BY <1>3, <1>6, TableKept
<1>9. /\ cache' \in [Keys -> Entries \cup {Nothing}]
      /\ mishap' \in [Ids -> Times \cup {Nothing}]
  BY <1>2, <1>3, <1>4, <1>5 DEF Inv, TypeOK
<1>10. CacheInv'
  <2> SUFFICES ASSUME NEW i \in Ids, NEW n \in Namespaces, cache'[<<i, n>>] # Nothing
               PROVE  /\ i < nextId' /\ cache'[<<i, n>>].items \in submitted'[i]
                      /\ cache'[<<i, n>>].loadedAt <= now'
    BY DEF CacheInv
  <2>1. CASE <<i, n>> = Key(c.row)
    <3>1. i = c.row.id /\ cache'[<<i, n>>] = e
      BY <1>2, <1>3, <2>1 DEF Inv, TypeOK, Key
    <3> QED
      BY <1>2, <1>3, <1>4, <1>5, <3>1 DEF Known
  <2>2. CASE <<i, n>> # Key(c.row)
    <3>1. <<i, n>> \in Keys
      BY DEF Keys
    <3>2. cache'[<<i, n>>] = cache[<<i, n>>]
      BY <1>3, <2>2, <3>1 DEF Inv, TypeOK
    <3> QED
      BY <1>3, <3>2 DEF Inv, CacheInv
  <2> QED
    BY <2>1, <2>2
<1>11. CurrentInv'
  <2> SUFFICES ASSUME NEW r \in rows', cache'[Key(r)] # Nothing, ~ Clearing(r.id)'
               PROVE  Excused(r, cache[Key(r)])'
    BY DEF CurrentInv
  <2>1. /\ r \in rows /\ r \in Rows /\ r.id \in Ids /\ r.place.namespace \in Namespaces
        /\ Key(r) \in Keys
    BY <1>3 DEF Inv, TypeOK, Rows, Key, Keys, Places
  <2>2. ~ Clearing(r.id)
    BY <1>7, <2>1
  <2>3. CASE r.id # c.row.id
    <3>1. Key(r) # Key(c.row)
      BY <2>3 DEF Key
    <3>2. cache'[Key(r)] = cache[Key(r)] /\ mishap'[r.id] = mishap[r.id]
      BY <1>3, <2>1, <2>3, <3>1 DEF Inv, TypeOK
    <3> QED
      BY <2>1, <2>2, <3>2 DEF Inv, CurrentInv, Excused
  <2>4. CASE r.id = c.row.id /\ c.row \in rows
    <3>1. r = c.row
      BY <2>1, <2>4 DEF Inv, TableInv
    <3>2. cache'[Key(r)] = e
      BY <1>2, <1>3, <3>1 DEF Inv, TypeOK
    <3> QED
      BY <1>5, <3>1, <3>2 DEF Excused
  <2>5. CASE r.id = c.row.id /\ c.row \notin rows
    <3>1. mishap'[r.id] = t /\ t # Nothing
      BY <1>3, <1>4, <2>5, NothingAssumption DEF Inv, TypeOK
    <3>2. cache'[Key(r)].loadedAt <= t
      <4>1. CASE Key(r) = Key(c.row)
        <5>1. cache'[Key(r)] = e
          BY <1>2, <1>3, <4>1 DEF Inv, TypeOK
        <5> QED
          BY <1>4, <1>5, <5>1
      <4>2. CASE Key(r) # Key(c.row)
        <5>1. cache'[Key(r)] = cache[Key(r)]
          BY <1>3, <2>1, <4>2 DEF Inv, TypeOK
        <5> QED
          BY <2>1, <5>1 DEF Inv, CacheInv, Key
      <4> QED
        BY <4>1, <4>2
    <3> QED
      BY <3>1, <3>2 DEF Excused
  <2> QED
    BY <2>3, <2>4, <2>5
<1>12. TypeOK'
  BY <1>3, <1>7, <1>8, <1>9 DEF Inv, TypeOK
<1> QED
  BY <1>7, <1>8, <1>10, <1>11, <1>12 DEF Inv

(* The cache is emptied, so that nothing in it is out of date.             *)
LEMMA ClearCacheKeeps ==
  ASSUME Inv, NEW h \in Handlers, ClearCache(h)
  PROVE  Inv'
<1>1. /\ cache' = Empty /\ mishap' = [i \in Ids |-> Nothing] /\ Become(h, Nothing)
      /\ UNCHANGED <<rows, nextId, now, calls, submitted>>
  BY DEF ClearCache
<1>2. Grown
  BY <1>1, NotGrown
<1>3. handler' \in [Handlers -> Calls \cup {Nothing}] /\ HandlerInv'
  BY <1>1, <1>2, BecomeKeeps DEF Fine
<1>4. rows' \in SUBSET Rows /\ TableInv'
  BY <1>1, <1>2, TableKept
<1>5. \A k \in Keys : cache'[k] = Nothing
  BY <1>1 DEF Empty
<1>6. CacheInv' /\ CurrentInv'
  <2>1. CacheInv'
    BY <1>5 DEF CacheInv, Keys
  <2>2. \A r \in rows' : Key(r) \in Keys
    BY <1>4 DEF Rows, Key, Keys, Places
  <2>3. CurrentInv'
    BY <1>5, <2>2 DEF CurrentInv, Key
  <2> QED
    BY <2>1, <2>3
<1>7. TypeOK'
  BY <1>1, <1>3, <1>4 DEF Inv, TypeOK, Empty
<1> QED
  BY <1>3, <1>4, <1>6, <1>7 DEF Inv

(* Time passes: no excuse depends on how much.                             *)
LEMMA TickKeeps ==
  ASSUME Inv, Tick
  PROVE  Inv'
<1>1. /\ now' = now + 1 /\ now \in Nat /\ now < MaxTime
      /\ UNCHANGED <<rows, nextId, cache, handler, calls, submitted, mishap>>
  BY BoundsAssumption DEF Tick, Inv, TypeOK, Times
<1>2. TypeOK'
  BY <1>1, BoundsAssumption DEF Inv, TypeOK, Times
<1>3. TableInv' /\ HandlerInv'
  BY <1>1 DEF Inv, TableInv, HandlerInv, Fine, Sound, Known
<1>4. CacheInv'
  <2> SUFFICES ASSUME NEW i \in Ids, NEW n \in Namespaces, cache[<<i, n>>] # Nothing
               PROVE  /\ i < nextId /\ cache[<<i, n>>].items \in submitted[i]
                      /\ cache[<<i, n>>].loadedAt <= now + 1
    BY <1>1 DEF CacheInv
  <2>1. <<i, n>> \in Keys
    BY DEF Keys
  <2>2. cache[<<i, n>>].loadedAt \in Nat
    BY <2>1, BoundsAssumption DEF Inv, TypeOK, Entries, Times
  <2> QED
    BY <1>1, <2>2 DEF Inv, CacheInv
<1>5. CurrentInv'
  BY <1>1 DEF Inv, CurrentInv, Excused, Clearing, At, Key
<1> QED
  BY <1>2, <1>3, <1>4, <1>5 DEF Inv

-----------------------------------------------------------------------------
(* An empty table, an empty cache and idle handlers.                       *)
LEMMA InitInv == Init => Inv
<1> SUFFICES ASSUME Init
             PROVE  Inv
  OBVIOUS
<1>1. TypeOK
  BY BoundsAssumption DEF Init, TypeOK, Empty, Times
<1>2. TableInv /\ HandlerInv /\ CurrentInv
  BY DEF Init, TableInv, HandlerInv, CurrentInv, Fine
<1>3. CacheInv
  BY DEF Init, CacheInv, Empty, Keys
<1> QED
  BY <1>1, <1>2, <1>3 DEF Inv

(* Every step keeps the invariant.                                         *)
LEMMA NextInv == Inv /\ [Next]_vars => Inv'
<1> SUFFICES ASSUME Inv, [Next]_vars
             PROVE  Inv'
  OBVIOUS
<1>1. CASE UNCHANGED vars
  BY <1>1 DEF vars, Inv, TypeOK, TableInv, CacheInv, HandlerInv, CurrentInv, Fine, Sound,
              Known, Excused, Clearing, At, Key
<1>2. CASE Tick
  BY <1>2, TickKeeps
<1>3. ASSUME NEW h \in Handlers, Request(h)
      PROVE  Inv'
  BY <1>3, CreateKeeps, UpdateKeeps, ReadingKeeps DEF Request
<1>4. ASSUME NEW h \in Handlers, Step(h)
      PROVE  Inv'
  <2>1. CASE Lookup(h) \/ Judge(h) \/ AskRegistry(h)
    BY <2>1, LookupKeeps, JudgeKeeps, AskRegistryKeeps
  <2>2. CASE MarkRow(h) \/ SaveRow(h) \/ DeleteRow(h)
    BY <2>2, MarkRowKeeps, SaveRowKeeps, DeleteRowKeeps
  <2>3. CASE StoreList(h) \/ ClearCache(h)
    BY <2>3, StoreListKeeps, ClearCacheKeeps
  <2> QED
    BY <1>4, <2>1, <2>2, <2>3 DEF Step
<1> QED
  BY <1>1, <1>2, <1>3, <1>4 DEF Next

(* What a handler judges was listed for its row.                           *)
LEMMA InvListed == Inv => ListedIsOwn
BY DEF Inv, HandlerInv, Fine, Sound, ListedIsOwn, At

(* An entry that is not expired, and no younger than a mishap, says that   *)
(* the mishap is recent.                                                   *)
LEMMA InvCurrent == Inv => CacheCurrent
<1> SUFFICES ASSUME Inv, NEW r \in rows, cache[Key(r)] # Nothing,
                    ~ Expired(cache[Key(r)]), ~ Clearing(r.id)
             PROVE  \/ cache[Key(r)].items = r.place
                    \/ mishap[r.id] # Nothing /\ now - mishap[r.id] <= CacheTTL
  BY DEF CacheCurrent
<1>1. r.id \in Ids /\ Key(r) \in Keys
  BY DEF Inv, TypeOK, Rows, Key, Keys, Places
<1>2. cache[Key(r)].loadedAt \in Nat /\ now \in Nat
  BY <1>1, BoundsAssumption DEF Inv, TypeOK, Entries, Times
<1>3. mishap[r.id] # Nothing => mishap[r.id] \in Nat
  BY <1>1, BoundsAssumption DEF Inv, TypeOK, Times
<1>4. Excused(r, cache[Key(r)])
  BY DEF Inv, CurrentInv
<1> QED
  BY <1>2, <1>3, <1>4, BoundsAssumption DEF Excused, Expired

-----------------------------------------------------------------------------
Reads   == {"api", "proxy", "test"}
Using   == {"ensure", "expire", "login", "store", "send", "retry", "connected",
            "forward", "refresh", "drop"}
Putting == {"store", "refresh"}

(* The cookie a handler is about to put into the session.                  *)
Pending(c) == IF c.at = "store" THEN c.cookie ELSE c.set

(* No cookie has a number Grafana has not given yet; what is pending has   *)
(* not been in the session.                                                *)
Fresh(c) ==
  /\ c.cookie # Nothing => c.cookie.no <= issued
  /\ c.set # Nothing => c.set.no <= issued
  /\ c.at \in Putting =>
       /\ Pending(c) \in Grafana!Cookies /\ \A r \in refused : r.cookie # Pending(c)
       /\ session # Nothing => session.cookie # Pending(c)
  /\ c.at = "send" /\ c.account \notin Tokens => c.cookie # Nothing
  /\ c.at = "retry" => c.cookie # Nothing

(* What a handler has read, and the cookie it has, are of the row.         *)
Rightful(c) ==
  /\ c.no <= visits
  /\ c.at \in Using => c.op \in Reads
  /\ c.at = "store" => ~ c.late
  /\ c.op \in Reads /\ c.no > changed =>
       /\ c.account = source
       /\ ~ c.late /\ c.cookie # Nothing => c.cookie.account = source
       /\ ~ c.late /\ c.at = "refresh" => c.set.account = source

SoundVisit(c) == c \in Grafana!Calls /\ Fresh(c) /\ Rightful(c)
FineVisit(d) == d = Nothing \/ SoundVisit(d)

(* What one handler is about to put, no other one has.                     *)
Apart == \A g, h \in Handlers :
  /\ g # h /\ visitor[g] # Nothing /\ visitor[h] # Nothing /\ visitor[h].at \in Putting
  => /\ visitor[g].cookie # Pending(visitor[h])
     /\ visitor[g].set # Pending(visitor[h])

NumberInv ==
  /\ session # Nothing => session.cookie.no <= issued
  /\ \A r \in refused : r.cookie.no <= issued
  /\ changed <= visits

VisitorInv == \A h \in Handlers : FineVisit(visitor[h])

SessionInv ==
  /\ Grafana!TypeOK /\ NumberInv /\ VisitorInv /\ Apart
  /\ Grafana!SessionIsRows /\ Grafana!RefusedIsGone

-----------------------------------------------------------------------------
(* What becomes of a call.                                                 *)
Went(c, at) == [c EXCEPT !.at = at]
Taking(c, at, cookie, late) == [c EXCEPT !.at = at, !.cookie = cookie, !.late = late]
LoggedIn(c, cookie) == [c EXCEPT !.at = "store", !.cookie = cookie, !.late = FALSE]
Again(c) == [c EXCEPT !.at = "ensure", !.attempt = 2, !.cookie = Nothing]
Setting(c, cookie, dead) == [c EXCEPT !.at = "refresh", !.set = cookie, !.dead = dead]
Dying(c) == [c EXCEPT !.at = "drop", !.dead = TRUE]

(* It goes to another step,                                                *)
LEMMA WentFacts ==
  ASSUME NEW c \in Grafana!Calls, NEW at \in Grafana!Steps
  PROVE  LET d == Went(c, at)
         IN /\ d \in Grafana!Calls /\ d.op = c.op /\ d.at = at /\ d.account = c.account
            /\ d.no = c.no /\ d.cookie = c.cookie /\ d.set = c.set /\ d.late = c.late
<1>1. Went(c, at) \in Grafana!Calls
  BY Zenon DEF Grafana!Calls, Went
<1> QED
  BY <1>1 DEF Grafana!Calls, Went

(* ... starts again without one,                                           *)
LEMMA AgainFacts ==
  ASSUME NEW c \in Grafana!Calls
  PROVE  LET d == Again(c)
         IN /\ d \in Grafana!Calls /\ d.op = c.op /\ d.at = "ensure" /\ d.account = c.account
            /\ d.no = c.no /\ d.cookie = Nothing /\ d.set = c.set /\ d.late = c.late
<1>1. "ensure" \in Grafana!Steps /\ 2 \in {1,
                                     2} /\ Nothing \in Grafana!Cookies \cup {Nothing}
  BY DEF Grafana!Steps
<1>2. Again(c) \in Grafana!Calls
  BY <1>1, Zenon DEF Grafana!Calls, Again
<1> QED
  BY <1>2 DEF Grafana!Calls, Again

(* ... has a response that sets one,                                       *)
LEMMA SettingFacts ==
  ASSUME NEW c \in Grafana!Calls, NEW cookie \in Grafana!Cookies, NEW dead \in BOOLEAN
  PROVE  LET d == Setting(c, cookie, dead)
         IN /\ d \in Grafana!Calls /\ d.op = c.op /\ d.at = "refresh" /\ d.account = c.account
            /\ d.no = c.no /\ d.cookie = c.cookie /\ d.set = cookie /\ d.late = c.late
<1>1. "refresh" \in Grafana!Steps /\ cookie \in Grafana!Cookies \cup {Nothing}
  BY DEF Grafana!Steps
<1>2. Setting(c, cookie, dead) \in Grafana!Calls
  BY <1>1, Zenon DEF Grafana!Calls, Setting
<1> QED
  BY <1>2 DEF Grafana!Calls, Setting

(* ... or one that says the session is dead.                               *)
LEMMA DyingFacts ==
  ASSUME NEW c \in Grafana!Calls
  PROVE  LET d == Dying(c)
         IN /\ d \in Grafana!Calls /\ d.op = c.op /\ d.at = "drop" /\ d.account = c.account
            /\ d.no = c.no /\ d.cookie = c.cookie /\ d.set = c.set /\ d.late = c.late
<1>1. "drop" \in Grafana!Steps /\ TRUE \in BOOLEAN
  BY DEF Grafana!Steps
<1>2. Dying(c) \in Grafana!Calls
  BY <1>1, Zenon DEF Grafana!Calls, Dying
<1> QED
  BY <1>2 DEF Grafana!Calls, Dying

-----------------------------------------------------------------------------
(* What a step of h may do, to be used for every one of them.              *)

(* It has no cookie but its own, the session's or a new one.               *)
Mine(h, k) ==
  \/ k = Nothing
  \/ visitor[h] # Nothing /\ k \in {visitor[h].cookie, visitor[h].set}
  \/ session # Nothing /\ k = session.cookie
  \/ k \in Grafana!Cookies /\ k.no > issued

(* The session goes, keeps its cookie, or gets the one h had pending.      *)
SessionStep(h) ==
  \/ session' = Nothing
  \/ /\ \A r \in refused' : r \in refused \/ r.retry
     /\ \/ session # Nothing /\ session'.cookie = session.cookie
        \/ /\ visitor[h] # Nothing /\ visitor[h].at \in Putting
           /\ session'.cookie = Pending(visitor[h])

(* Only cookies of h are seen to be refused.                               *)
RefusedStep(h) == \A r \in refused' :
  \/ r \in refused
  \/ visitor[h] # Nothing /\ r.cookie \in {visitor[h].cookie, visitor[h].set}

(* The row stays, or all the calls so far are behind it.                   *)
RowStep == /\ visits <= visits' /\ issued <= issued'
           /\ UNCHANGED <<source, changed>> \/ visits <= changed'

StepTypes ==
  /\ source' \in Accounts \cup {Nothing} /\ created' \in BOOLEAN
  /\ session' \in Grafana!Entries \cup {Nothing}
  /\ live' \in SUBSET Grafana!Cookies /\ issued' \in 0..MaxCookies
  /\ visits' \in 0..MaxVisits /\ changed' \in 0..MaxVisits /\ changed' <= visits'
  /\ refused' \in SUBSET Grafana!Refusals

(* A handler's own call.                                                   *)
LEMMA VisitorSound ==
  ASSUME SessionInv, NEW h \in Handlers, visitor[h] # Nothing
  PROVE  /\ SoundVisit(visitor[h]) /\ visitor[h] \in Grafana!Calls
         /\ visitor[h].cookie \in Grafana!Cookies \cup {Nothing}
         /\ visitor[h].set \in Grafana!Cookies \cup {Nothing} /\ visitor[h].account \in Accounts
         /\ visitor[h].no \in Nat /\ visitor[h].late \in BOOLEAN
BY DEF SessionInv, VisitorInv, FineVisit, SoundVisit, Grafana!Calls

(* The calls of the others stay sound.                                     *)
LEMMA OthersKept ==
  ASSUME Grafana!WellFormed, SessionInv, NEW h \in Handlers, NEW g \in Handlers, g # h,
         NEW e, e = visitor[g],
         SessionStep(h), RefusedStep(h), RowStep, StepTypes
  PROVE  FineVisit(e)'
<1> SUFFICES ASSUME e # Nothing
             PROVE  SoundVisit(e)'
  BY DEF FineVisit
<1>1. SoundVisit(e) /\ e \in Grafana!Calls /\ e.cookie \in Grafana!Cookies \cup {Nothing}
      /\ e.set \in Grafana!Cookies \cup {Nothing} /\ e.no \in Nat
  BY VisitorSound
<1>2. issued \in Nat /\ issued' \in Nat /\ visits \in Nat /\ visits' \in Nat /\ changed \in Nat
      /\ changed' \in Nat
  BY DEF SessionInv, Grafana!TypeOK, StepTypes, Grafana!WellFormed
<1>3. \A k \in Grafana!Cookies : k.no \in Nat
  BY DEF Grafana!Cookies, Grafana!WellFormed
<1>4. ASSUME e.at \in Putting
      PROVE  /\ Pending(e) \in Grafana!Cookies /\ \A r \in refused' : r.cookie # Pending(e)
             /\ session' # Nothing => session'.cookie # Pending(e)
  <2>1. /\ Pending(e) \in Grafana!Cookies /\ \A r \in refused : r.cookie # Pending(e)
        /\ session # Nothing => session.cookie # Pending(e)
    BY <1>1, <1>4 DEF SoundVisit, Fresh
  <2>2. visitor[h] # Nothing => /\ visitor[h].cookie # Pending(e)
                                /\ visitor[h].set # Pending(e)
    BY <1>4 DEF SessionInv, Apart
  <2>3. \A r \in refused' : r.cookie # Pending(e)
    BY <2>1, <2>2 DEF RefusedStep
  <2>4. session' # Nothing => session'.cookie # Pending(e)
    BY <2>1, <2>2 DEF SessionStep, Pending
  <2> QED
    BY <2>1, <2>3, <2>4
<1>5. Fresh(e)'
  <2>1. /\ e.cookie # Nothing => e.cookie.no <= issued'
        /\ e.set # Nothing => e.set.no <= issued'
    BY <1>1, <1>2, <1>3 DEF SoundVisit, Fresh, RowStep
  <2>2. /\ e.at = "send" /\ e.account \notin Tokens => e.cookie # Nothing
        /\ e.at = "retry" => e.cookie # Nothing
    BY <1>1 DEF SoundVisit, Fresh
  <2> QED
    BY <1>4, <2>1, <2>2 DEF Fresh, Pending
<1>6. Rightful(e)'
  BY <1>1, <1>2 DEF SoundVisit, Rightful, RowStep
<1> QED
  BY <1>1, <1>5, <1>6 DEF SoundVisit

(* A step of h that goes on with d keeps all but SessionIsRows, which      *)
(* depends on what happens to the row.                                     *)
LEMMA StepKeeps ==
  ASSUME Grafana!WellFormed, SessionInv, NEW h \in Handlers, NEW d, FineVisit(d)',
         visitor' = [visitor EXCEPT ![h] = d],
         d # Nothing => Mine(h, d.cookie) /\ Mine(h, d.set),
         d # Nothing /\ d.at \in Putting => Pending(d).no > issued,
         SessionStep(h), RefusedStep(h), RowStep, StepTypes, Grafana!SessionIsRows'
  PROVE  SessionInv'
<1>1. issued \in Nat /\ issued' \in Nat /\ issued <= issued'
  BY DEF SessionInv, Grafana!TypeOK, StepTypes, Grafana!WellFormed, RowStep
<1>2. \A k \in Grafana!Cookies : k.no \in Nat /\ k # Nothing
  BY DEF Grafana!Cookies, Grafana!WellFormed
<1>3. visitor \in [Handlers -> Grafana!Calls \cup {Nothing}] /\ d \in Grafana!Calls \cup {Nothing}
  BY DEF SessionInv, Grafana!TypeOK, FineVisit, SoundVisit
<1>4. VisitorInv'
  <2> SUFFICES ASSUME NEW g \in Handlers
               PROVE  FineVisit(visitor[g])'
    BY DEF VisitorInv
  <2>1. CASE g = h
    BY <1>3, <2>1
  <2>2. CASE g # h
    <3> SUFFICES ASSUME NEW e, e = visitor[g]
                 PROVE  FineVisit(visitor[g])'
      OBVIOUS
    <3>1. FineVisit(e)'
      BY <2>2, OthersKept
    <3> QED
      BY <1>3, <2>2, <3>1
  <2> QED
    BY <2>1, <2>2
<1>5. visitor' \in [Handlers -> Grafana!Calls \cup {Nothing}]
  BY <1>3
<1>6. ASSUME NEW g \in Handlers, g # h, visitor[g] # Nothing, d # Nothing, d.at \in Putting
      PROVE  visitor[g].cookie # Pending(d) /\ visitor[g].set # Pending(d)
  <2>1. SoundVisit(d)'
    BY <1>6 DEF FineVisit
  <2>2. Pending(d) \in Grafana!Cookies /\ Pending(d).no > issued
    BY <1>6, <2>1 DEF SoundVisit, Fresh, Pending
  <2>3. /\ SoundVisit(visitor[g]) /\ visitor[g].cookie \in Grafana!Cookies \cup {Nothing}
        /\ visitor[g].set \in Grafana!Cookies \cup {Nothing}
    BY <1>6, VisitorSound
  <2>4. \A k \in {visitor[g].cookie, visitor[g].set} : k # Nothing => k.no <= issued
    BY <2>3 DEF SoundVisit, Fresh
  <2>5. \A k \in {visitor[g].cookie, visitor[g].set} : k # Nothing => ~ (k.no > issued)
    BY <1>1, <1>2, <2>3, <2>4
  <2> QED
    BY <1>2, <2>2, <2>5
<1>7. ASSUME NEW g \in Handlers, g # h, visitor[g] # Nothing, visitor[g].at \in Putting,
             d # Nothing, NEW k, Mine(h, k)
      PROVE  k # Pending(visitor[g])
  <2>1. SoundVisit(visitor[g])
    BY <1>7, VisitorSound
  <2>2. /\ Pending(visitor[g]) \in Grafana!Cookies
        /\ session # Nothing => session.cookie # Pending(visitor[g])
    BY <1>7, <2>1 DEF SoundVisit, Fresh
  <2>3. ~ (Pending(visitor[g]).no > issued)
    <3>1. Pending(visitor[g]).no <= issued
      BY <1>2, <2>1, <2>2 DEF SoundVisit, Fresh, Pending
    <3> QED
      BY <1>1, <1>2, <2>2, <3>1
  <2>4. visitor[h] # Nothing => /\ visitor[h].cookie # Pending(visitor[g])
                                /\ visitor[h].set # Pending(visitor[g])
    BY <1>7 DEF SessionInv, Apart
  <2> QED
    BY <1>2, <1>7, <2>2, <2>3, <2>4 DEF Mine
<1>8. Apart'
  <2> SUFFICES ASSUME NEW g \in Handlers, NEW f \in Handlers, g # f,
                      visitor'[g] # Nothing, visitor'[f] # Nothing,
                      visitor'[f].at \in Putting
               PROVE  /\ visitor'[g].cookie # Pending(visitor'[f])
                      /\ visitor'[g].set # Pending(visitor'[f])
    BY DEF Apart, Pending
  <2>1. CASE f = h
    <3>1. visitor'[f] = d /\ visitor'[g] = visitor[g]
      BY <1>3, <2>1
    <3> QED
      BY <1>6, <2>1, <3>1
  <2>2. CASE g = h
    <3>1. visitor'[g] = d /\ visitor'[f] = visitor[f]
      BY <1>3, <2>2
    <3> QED
      BY <1>7, <2>2, <3>1
  <2>3. CASE f # h /\ g # h
    <3>1. visitor'[g] = visitor[g] /\ visitor'[f] = visitor[f]
      BY <1>3, <2>3
    <3> QED
      BY <3>1 DEF SessionInv, Apart
  <2> QED
    BY <2>1, <2>2, <2>3
<1>9. visitor[h] # Nothing =>
        /\ SoundVisit(visitor[h])
        /\ visitor[h].cookie # Nothing => visitor[h].cookie.no <= issued
        /\ visitor[h].set # Nothing => visitor[h].set.no <= issued
  BY VisitorSound DEF SoundVisit, Fresh
<1>10. visitor[h] # Nothing /\ visitor[h].at \in Putting =>
         /\ Pending(visitor[h]) \in Grafana!Cookies
         /\ \A r \in refused : r.cookie # Pending(visitor[h])
         /\ Pending(visitor[h]).no <= issued
  BY <1>2, <1>9 DEF SoundVisit, Fresh, Pending
<1>11. NumberInv'
  <2>1. session' # Nothing => session'.cookie.no <= issued
    BY <1>10 DEF SessionStep, SessionInv, NumberInv
  <2>2. session' # Nothing => session'.cookie.no \in Nat
    BY <1>2 DEF StepTypes, Grafana!Entries
  <2>3. \A r \in refused' : r.cookie \in Grafana!Cookies /\ r.cookie.no <= issued
    BY <1>2, <1>9 DEF RefusedStep, SessionInv, NumberInv, StepTypes, Grafana!Refusals
  <2> QED
    BY <1>1, <1>2, <2>1, <2>2, <2>3 DEF NumberInv, StepTypes
<1>12. Grafana!RefusedIsGone'
  BY <1>10 DEF SessionStep, SessionInv, Grafana!RefusedIsGone
<1>13. Grafana!TypeOK'
  BY <1>5 DEF Grafana!TypeOK, StepTypes
<1> QED
  BY <1>4, <1>8, <1>11, <1>12, <1>13 DEF SessionInv

(* Somebody is about to drop the session until it does.                    *)
LEMMA ClearingKept ==
  ASSUME SessionInv, NEW h \in Handlers, NEW d, visitor' = [visitor EXCEPT ![h] = d]
  PROVE  /\ ~ Grafana!At(h, "clear") /\ Grafana!Clearing => Grafana!Clearing'
         /\ d # Nothing /\ d.at = "clear" => Grafana!Clearing'
<1>1. visitor \in [Handlers -> Grafana!Calls \cup {Nothing}]
  BY DEF SessionInv, Grafana!TypeOK
<1>2. ASSUME ~ Grafana!At(h, "clear"), Grafana!Clearing
      PROVE  Grafana!Clearing'
  <2>1. PICK g \in Handlers : Grafana!At(g, "clear")
    BY <1>2 DEF Grafana!Clearing
  <2>2. visitor'[g] = visitor[g]
    BY <1>1, <1>2, <2>1
  <2> QED
    BY <2>1, <2>2 DEF Grafana!Clearing, Grafana!At
<1>3. ASSUME d # Nothing, d.at = "clear"
      PROVE  Grafana!Clearing'
  <2>1. visitor'[h] = d
    BY <1>1
  <2> QED
    BY <1>3, <2>1 DEF Grafana!Clearing, Grafana!At
<1> QED
  BY <1>2, <1>3

(* What leaves Grafana, the row and the requests alone.                    *)
LEMMA TypesKept ==
  ASSUME SessionInv, session' \in Grafana!Entries \cup {Nothing},
         refused' \in SUBSET Grafana!Refusals,
         UNCHANGED <<source, created, changed, live, issued, visits>>
  PROVE  StepTypes /\ RowStep
BY DEF SessionInv, Grafana!TypeOK, NumberInv, StepTypes, RowStep

(* A step after which only the handler's own call differs.                 *)
LEMMA VisitStepKeeps ==
  ASSUME Grafana!WellFormed, SessionInv, NEW h \in Handlers, ~ Grafana!At(h, "clear"),
         NEW d, FineVisit(d)',
         visitor' = [visitor EXCEPT ![h] = d],
         d # Nothing => Mine(h, d.cookie) /\ Mine(h, d.set),
         d # Nothing /\ d.at \in Putting => Pending(d).no > issued,
         UNCHANGED <<source, created, session, refused, changed>>,
         visits <= visits', visits' \in 0..MaxVisits,
         issued <= issued', issued' \in 0..MaxCookies, live' \in SUBSET Grafana!Cookies
  PROVE  SessionInv'
<1>1. StepTypes /\ RowStep
  BY DEF SessionInv, Grafana!TypeOK, NumberInv, StepTypes, RowStep, Grafana!WellFormed
<1>2. SessionStep(h) /\ RefusedStep(h)
  BY DEF SessionStep, RefusedStep
<1>3. Grafana!SessionIsRows'
  BY ClearingKept DEF SessionInv, Grafana!SessionIsRows
<1> QED
  BY <1>1, <1>2, <1>3, StepKeeps

(* ... and no cookie has come from Grafana, no request from outside.       *)
LEMMA QuietVisitKeeps ==
  ASSUME Grafana!WellFormed, SessionInv, NEW h \in Handlers, ~ Grafana!At(h, "clear"),
         NEW d,
         d = Nothing \/ SoundVisit(d),
         Grafana!Become(h, d),
         d # Nothing => Mine(h, d.cookie) /\ Mine(h, d.set) /\ d.at \notin Putting,
         UNCHANGED <<Grafana!rowVars, session, Grafana!grafanaVars, refused>>
  PROVE  SessionInv'
<1>1. UNCHANGED <<source, created, changed, session, live, issued, refused, visits>>
  BY DEF Grafana!rowVars, Grafana!grafanaVars, Grafana!Become
<1>2. FineVisit(d)'
  BY <1>1 DEF FineVisit, SoundVisit, Fresh, Rightful, Pending
<1>3. /\ visits <= visits' /\ visits' \in 0..MaxVisits
      /\ issued <= issued' /\ issued' \in 0..MaxCookies /\ live' \in SUBSET Grafana!Cookies
  BY <1>1 DEF SessionInv, Grafana!TypeOK, Grafana!WellFormed
<1> QED
  BY <1>1, <1>2, <1>3, VisitStepKeeps DEF Grafana!Become

(* A call that goes to a step where nothing is pending.                    *)
LEMMA WentSound ==
  ASSUME Grafana!WellFormed, SessionInv, NEW h \in Handlers, NEW c, c = visitor[h],
         c # Nothing,
         NEW at \in Grafana!Steps \ Putting,
         at \in Using => c.op \in Reads,
         at = "send" /\ c.account \notin Tokens => c.cookie # Nothing,
         at = "retry" => c.cookie # Nothing
  PROVE  LET d == Went(c, at)
         IN /\ SoundVisit(d) /\ Mine(h, d.cookie) /\ Mine(h, d.set) /\ d.at = at
            /\ d.no = c.no /\ d.op = c.op /\ d.account = c.account
            /\ d.cookie = c.cookie /\ d.set = c.set
<1> DEFINE d == Went(c, at)
<1>1. SoundVisit(c) /\ c \in Grafana!Calls
  BY VisitorSound
<1>2. /\ d \in Grafana!Calls /\ d.op = c.op /\ d.at = at /\ d.account = c.account
      /\ d.no = c.no /\ d.cookie = c.cookie /\ d.set = c.set /\ d.late = c.late
  BY <1>1, WentFacts
<1> HIDE DEF d
<1>3. d.at \notin Putting /\ d.at \notin {"refresh", "store"}
  BY <1>2 DEF Putting
<1>4. Fresh(d)
  BY <1>1, <1>2, <1>3 DEF SoundVisit, Fresh
<1>5. Rightful(d)
  BY <1>1, <1>2, <1>3 DEF SoundVisit, Rightful
<1>6. Mine(h, d.cookie) /\ Mine(h, d.set)
  BY <1>2 DEF Mine
<1> QED
  BY <1>2, <1>4, <1>5, <1>6 DEF SoundVisit, d

-----------------------------------------------------------------------------
(* The requests.                                                           *)
Started(op, at, account, n) ==
  [op |-> op, at |-> at, account |-> account, no |-> n, cookie |-> Nothing,
   attempt |-> 1, set |-> Nothing, dead |-> FALSE, late |-> FALSE]

(* A request starts with no cookie,                                        *)
LEMMA StartedFacts ==
  ASSUME NEW op \in Grafana!Ops, NEW at \in Grafana!Steps, NEW account \in Accounts,
         NEW n \in 1..MaxVisits
  PROVE  LET d == Started(op, at, account, n)
         IN /\ d \in Grafana!Calls /\ d.op = op /\ d.at = at /\ d.account = account
            /\ d.no = n /\ d.cookie = Nothing /\ d.set = Nothing
BY DEF Started, Grafana!Calls

(* ... as the latest one.                                                  *)
LEMMA ArriveFacts ==
  ASSUME Grafana!WellFormed, SessionInv, NEW h \in Handlers, NEW op, NEW at, NEW account,
         Grafana!Arrive(h, op, at, account), NEW n, n = visits + 1
  PROVE  /\ visits' = n /\ n \in 1..MaxVisits /\ visits <= n /\ visits < n /\ changed < n
         /\ n \in 0..MaxVisits /\ ~ Grafana!At(h, "clear")
         /\ visitor' = [visitor EXCEPT ![h] = Started(op, at, account, n)]
BY DEF Grafana!Arrive, Started, SessionInv, Grafana!TypeOK, NumberInv,
      Grafana!WellFormed, Grafana!At

(* createObservabilitySource is about to drop a session there cannot be.   *)
LEMMA CreateSourceKeeps ==
  ASSUME Grafana!WellFormed, SessionInv, NEW h \in Handlers, Grafana!Create(h)
  PROVE  SessionInv'
<1> SUFFICES ASSUME NEW n, n = visits + 1
             PROVE  SessionInv'
  OBVIOUS
<1>1. PICK a \in Accounts : Grafana!Arrive(h, "create", "clear", a) /\ source' = a
  BY DEF Grafana!Create
<1>2. created' = TRUE /\ changed' = visits' /\ UNCHANGED <<session, live, issued, refused>>
  BY DEF Grafana!Create, Grafana!grafanaVars
<1> SUFFICES ASSUME NEW d, d = Started("create", "clear", a, n)
             PROVE  SessionInv'
  OBVIOUS
<1>3. /\ visits' = n /\ n \in 1..MaxVisits /\ visits <= n /\ n \in 0..MaxVisits
      /\ visitor' = [visitor EXCEPT ![h] = d]
  BY <1>1, ArriveFacts
<1>4. /\ d \in Grafana!Calls /\ d.op = "create" /\ d.at = "clear" /\ d.no = n
      /\ d.cookie = Nothing /\ d.set = Nothing
  <2>1. "create" \in Grafana!Ops /\ "clear" \in Grafana!Steps
    BY DEF Grafana!Ops, Grafana!Steps
  <2> QED
    BY <1>3, <2>1, StartedFacts
<1>5. FineVisit(d)'
  BY <1>3, <1>4 DEF FineVisit, SoundVisit, Fresh, Rightful, Using, Reads, Putting
<1>6. SessionStep(h) /\ RefusedStep(h)
  BY <1>2 DEF SessionStep, RefusedStep
<1>7. RowStep /\ StepTypes
  BY <1>1, <1>2, <1>3 DEF RowStep, StepTypes, SessionInv, Grafana!TypeOK, Grafana!WellFormed
<1>8. d # Nothing
  BY <1>4 DEF Grafana!WellFormed
<1>9. Grafana!SessionIsRows'
  BY <1>3, <1>4, <1>8, ClearingKept DEF Grafana!SessionIsRows
<1> QED
  BY <1>3, <1>4, <1>5, <1>6, <1>7, <1>9, StepKeeps DEF Mine, Putting

(* The others start with a row they have just read, or to replace it.      *)
LEMMA ArriveKeeps ==
  ASSUME Grafana!WellFormed, SessionInv, NEW h \in Handlers, NEW op \in Grafana!Ops,
         NEW at \in {"ensure", "mark", "save", "delete"}, NEW a \in Accounts,
         Grafana!Arrive(h, op, at, a), UNCHANGED <<Grafana!rowVars, session,
               Grafana!grafanaVars, refused>>,
         op \in Reads => a = source, at = "ensure" => op \in Reads
  PROVE  SessionInv'
<1> SUFFICES ASSUME NEW n, n = visits + 1
             PROVE  SessionInv'
  OBVIOUS
<1>1. UNCHANGED <<source, created, changed, session, live, issued, refused>>
  BY DEF Grafana!rowVars, Grafana!grafanaVars
<1> SUFFICES ASSUME NEW d, d = Started(op, at, a, n)
             PROVE  SessionInv'
  OBVIOUS
<1>2. /\ visits' = n /\ n \in 1..MaxVisits /\ visits <= n /\ n \in 0..MaxVisits
      /\ ~ Grafana!At(h, "clear") /\ visitor' = [visitor EXCEPT ![h] = d]
  BY ArriveFacts
<1>3. /\ d \in Grafana!Calls /\ d.op = op /\ d.at = at /\ d.no = n /\ d.account = a
      /\ d.cookie = Nothing /\ d.set = Nothing
  <2>1. at \in Grafana!Steps
    BY DEF Grafana!Steps
  <2> QED
    BY <1>2, <2>1, StartedFacts
<1>4. FineVisit(d)'
  BY <1>1, <1>2, <1>3 DEF FineVisit, SoundVisit, Fresh, Rightful, Using, Putting
<1>5. issued <= issued' /\ issued' \in 0..MaxCookies /\ live' \in SUBSET Grafana!Cookies
  BY <1>1 DEF SessionInv, Grafana!TypeOK, Grafana!WellFormed
<1> QED
  BY <1>1, <1>2, <1>3, <1>4, <1>5, VisitStepKeeps DEF Mine, Putting

(* Whatever is asked for.                                                  *)
LEMMA RequestKeeps ==
  ASSUME Grafana!WellFormed, SessionInv, NEW h \in Handlers, Grafana!Request(h)
  PROVE  SessionInv'
<1>1. source # Nothing => source \in Accounts
  BY DEF SessionInv, Grafana!TypeOK
<1>2. CASE Grafana!Create(h)
  BY <1>2, CreateSourceKeeps
<1>3. CASE Grafana!UpdateOrDelete(h)
  <2>1. /\ UNCHANGED <<Grafana!rowVars, session, Grafana!grafanaVars, refused>>
        /\ source \in Accounts
    BY <1>1, <1>3 DEF Grafana!UpdateOrDelete
  <2>2. ASSUME NEW a \in Accounts, Grafana!Arrive(h, "update", "save", a)
        PROVE  SessionInv'
    BY <2>1, <2>2, ArriveKeeps DEF Grafana!Ops, Reads
  <2>3. CASE Grafana!Arrive(h, "delete", "delete", source)
    BY <2>1, <2>3, ArriveKeeps DEF Grafana!Ops, Reads
  <2> QED
    BY <1>3, <2>2, <2>3 DEF Grafana!UpdateOrDelete
<1>4. CASE Grafana!UseSource(h)
  <2>1. /\ UNCHANGED <<Grafana!rowVars, session, Grafana!grafanaVars, refused>>
        /\ source \in Accounts
    BY <1>1, <1>4 DEF Grafana!UseSource
  <2>2. ASSUME NEW op \in {"api", "proxy"}, Grafana!Arrive(h, op, "ensure", source)
        PROVE  SessionInv'
    BY <2>1, <2>2, ArriveKeeps DEF Grafana!Ops, Reads
  <2>3. CASE Grafana!Arrive(h, "test", "mark", source)
    BY <2>1, <2>3, ArriveKeeps DEF Grafana!Ops, Reads
  <2> QED
    BY <1>4, <2>2, <2>3 DEF Grafana!UseSource
<1> QED
  BY <1>2, <1>3, <1>4 DEF Grafana!Request

-----------------------------------------------------------------------------
(* ensureGrafanaSession: the session's cookie is the row's account's,      *)
(* unless the session is late or about to be dropped.                      *)
LEMMA EnsureKeeps ==
  ASSUME Grafana!WellFormed, SessionInv, NEW h \in Handlers, Grafana!Ensure(h)
  PROVE  SessionInv'
<1> SUFFICES ASSUME NEW c, c = visitor[h]
             PROVE  SessionInv'
  OBVIOUS
<1>1. c # Nothing /\ c.at = "ensure" /\ ~ Grafana!At(h, "clear")
  BY DEF Grafana!Ensure, Grafana!At
<1>2. SoundVisit(c) /\ c \in Grafana!Calls /\ c.op \in Reads /\ c.account \in Accounts
  BY <1>1, VisitorSound DEF SoundVisit, Rightful, Using
<1>3. UNCHANGED <<Grafana!rowVars, session, Grafana!grafanaVars, refused>>
  BY DEF Grafana!Ensure
<1>4. ASSUME NEW at \in {"send", "connected", "expire", "login"}, Grafana!Go(h, at),
             at = "send" => c.account \in Tokens
      PROVE  SessionInv'
  <2> SUFFICES ASSUME NEW d, d = Went(c, at)
               PROVE  SessionInv'
    OBVIOUS
  <2>1. Grafana!Become(h, d)
    BY <1>4 DEF Grafana!Go, Went
  <2>2. at \in Grafana!Steps \ Putting /\ at # "retry"
    BY DEF Grafana!Steps, Putting
  <2>3. SoundVisit(d) /\ Mine(h, d.cookie) /\ Mine(h, d.set) /\ d.at = at
    BY <1>1, <1>2, <1>4, <2>2, WentSound
  <2> QED
    BY <1>1, <1>3, <2>1, <2>2, <2>3, QuietVisitKeeps
<1>5. ASSUME c.account \notin Tokens, session # Nothing, ~ session.expired,
             Grafana!Become(h, [c EXCEPT !.at = Grafana!Ready(c), !.cookie = session.cookie,
                                 !.late = session.late \/ Grafana!Clearing])
      PROVE  SessionInv'
  <2> SUFFICES ASSUME NEW cookie, cookie = session.cookie,
                      NEW late \in BOOLEAN, late = (session.late \/ Grafana!Clearing),
                      NEW at \in {"send", "connected"}, at = Grafana!Ready(c)
               PROVE  SessionInv'
    BY <1>5 DEF Grafana!Ready
  <2> SUFFICES ASSUME NEW d, d = Taking(c, at, cookie, late)
               PROVE  SessionInv'
    OBVIOUS
  <2>1. Grafana!Become(h, d)
    BY <1>5 DEF Taking
  <2>2. cookie \in Grafana!Cookies /\ session \in Grafana!Entries
    BY <1>5 DEF SessionInv, Grafana!TypeOK, Grafana!Entries
  <2>3. /\ d \in Grafana!Calls /\ d.op = c.op /\ d.at = at /\ d.account = c.account
        /\ d.no = c.no /\ d.cookie = cookie /\ d.set = c.set /\ d.late = late
    <3>1. at \in Grafana!Steps
      BY DEF Grafana!Steps
    <3>2. d \in Grafana!Calls
      BY <1>2, <2>2, <3>1, Zenon DEF Grafana!Calls, Taking
    <3> QED
      BY <1>2, <3>2 DEF Grafana!Calls, Taking
  <2>4. Fresh(d)
    BY <1>2, <1>5, <2>2, <2>3 DEF SoundVisit, Fresh, Putting, SessionInv, NumberInv,
          Grafana!WellFormed
  <2>5. Rightful(d)
    <3>1. ASSUME ~ d.late, c.no > changed
          PROVE  cookie.account = source
      <4>1. ~ session.late /\ ~ Grafana!Clearing
        BY <2>3, <3>1
      <4>2. source = c.account /\ source # Nothing
        BY <1>2, <3>1 DEF SoundVisit, Rightful, Grafana!WellFormed
      <4> QED
        BY <1>5, <4>1, <4>2 DEF SessionInv, Grafana!SessionIsRows
    <3> QED
      BY <1>2, <2>3, <3>1 DEF SoundVisit, Rightful
  <2>6. Mine(h, d.cookie) /\ Mine(h, d.set)
    BY <1>1, <1>5, <2>3 DEF Mine
  <2> QED
    BY <1>1, <1>3, <2>1, <2>3, <2>4, <2>5, <2>6, QuietVisitKeeps DEF SoundVisit, Putting
<1> QED
  BY <1>4, <1>5 DEF Grafana!Ensure, Grafana!Ready

(* A session that goes: dropped for being old, refused or changed.         *)
LEMMA DroppingKeeps ==
  ASSUME Grafana!WellFormed, SessionInv, NEW h \in Handlers, NEW d,
         d = Nothing \/ SoundVisit(d), Grafana!Become(h, d),
         d # Nothing => Mine(h, d.cookie) /\ Mine(h, d.set) /\ d.at \notin Putting,
         session' = Nothing, UNCHANGED <<Grafana!rowVars, Grafana!grafanaVars>>,
         refused' \in SUBSET Grafana!Refusals, RefusedStep(h)
  PROVE  SessionInv'
<1>1. UNCHANGED <<source, created, changed, live, issued, visits>>
  BY DEF Grafana!rowVars, Grafana!grafanaVars, Grafana!Become
<1>2. StepTypes /\ RowStep
  BY <1>1, TypesKept
<1>3. FineVisit(d)'
  BY <1>1 DEF FineVisit, SoundVisit, Fresh, Rightful, Pending
<1>4. SessionStep(h) /\ Grafana!SessionIsRows'
  BY DEF SessionStep, Grafana!SessionIsRows
<1> QED
  BY <1>2, <1>3, <1>4, StepKeeps DEF Grafana!Become

(* The one that has run out.                                               *)
LEMMA DropExpiredKeeps ==
  ASSUME Grafana!WellFormed, SessionInv, NEW h \in Handlers, Grafana!DropExpired(h)
  PROVE  SessionInv'
<1> SUFFICES ASSUME NEW c, c = visitor[h]
             PROVE  SessionInv'
  OBVIOUS
<1>1. c # Nothing /\ c.at = "expire"
  BY DEF Grafana!DropExpired, Grafana!At
<1>2. c.op \in Reads
  BY <1>1, VisitorSound DEF SoundVisit, Rightful, Using
<1> SUFFICES ASSUME NEW d, d = Went(c, "login")
             PROVE  SessionInv'
  OBVIOUS
<1>3. /\ Grafana!Become(h, d) /\ session' = Nothing /\ UNCHANGED <<Grafana!rowVars,
          Grafana!grafanaVars, refused>>
  BY DEF Grafana!DropExpired, Grafana!Go, Went
<1>4. SoundVisit(d) /\ Mine(h, d.cookie) /\ Mine(h, d.set) /\ d.at = "login"
  <2>1. "login" \in Grafana!Steps \ Putting
    BY DEF Grafana!Steps, Putting
  <2> QED
    BY <1>1, <1>2, <2>1, WentSound
<1>5. refused' \in SUBSET Grafana!Refusals /\ RefusedStep(h)
  BY <1>3 DEF SessionInv, Grafana!TypeOK, RefusedStep
<1> QED
  BY <1>3, <1>4, <1>5, DroppingKeeps DEF Putting

(* A login: the new cookie is the account's, and nobody else has it.       *)
LEMMA LoginKeeps ==
  ASSUME Grafana!WellFormed, SessionInv, NEW h \in Handlers, Grafana!Login(h)
  PROVE  SessionInv'
<1> SUFFICES ASSUME NEW c, c = visitor[h], NEW new, new = Grafana!NewCookie(c.account)
             PROVE  SessionInv'
  OBVIOUS
<1>1. c # Nothing /\ c.at = "login" /\ ~ Grafana!At(h, "clear")
  BY DEF Grafana!Login, Grafana!At
<1>2. SoundVisit(c) /\ c \in Grafana!Calls /\ c.op \in Reads /\ c.account \in Accounts
  BY <1>1, VisitorSound DEF SoundVisit, Rightful, Using
<1>3. UNCHANGED <<Grafana!rowVars, session, refused>>
  BY DEF Grafana!Login
<1>4. CASE Grafana!Go(h, "mark") /\ UNCHANGED Grafana!grafanaVars
  <2> SUFFICES ASSUME NEW d, d = Went(c, "mark")
               PROVE  SessionInv'
    OBVIOUS
  <2>1. Grafana!Become(h, d)
    BY <1>4 DEF Grafana!Go, Went
  <2>2. "mark" \in Grafana!Steps \ Putting
    BY DEF Grafana!Steps, Putting
  <2>3. SoundVisit(d) /\ Mine(h, d.cookie) /\ Mine(h, d.set) /\ d.at = "mark"
    BY <1>1, <1>2, <2>2, WentSound
  <2> QED
    BY <1>1, <1>3, <1>4, <2>1, <2>2, <2>3, QuietVisitKeeps
<1>5. CASE /\ Grafana!Issue(new, TRUE)
           /\ Grafana!Become(h, [c EXCEPT !.at = "store", !.cookie = new, !.late = FALSE])
  <2> SUFFICES ASSUME NEW d, d = LoggedIn(c, new)
               PROVE  SessionInv'
    OBVIOUS
  <2>1. Grafana!Become(h, d)
    BY <1>5 DEF LoggedIn
  <2>2. /\ issued < MaxCookies /\ issued' = issued + 1 /\ issued \in Nat
        /\ live' = live \cup {new}
    BY <1>5 DEF Grafana!Issue, SessionInv, Grafana!TypeOK, Grafana!WellFormed
  <2>3. new \in Grafana!Cookies /\ new.no = issued + 1 /\ new.account = c.account
    BY <1>2, <2>2 DEF Grafana!NewCookie, Grafana!Cookies, Grafana!WellFormed
  <2>4. /\ d \in Grafana!Calls /\ d.op = c.op /\ d.at = "store" /\ d.account = c.account
        /\ d.no = c.no /\ d.cookie = new /\ d.set = c.set /\ ~ d.late
    <3>1. "store" \in Grafana!Steps /\ FALSE \in BOOLEAN
      BY DEF Grafana!Steps
    <3>2. d \in Grafana!Calls
      BY <1>2, <2>3, <3>1, Zenon DEF Grafana!Calls, LoggedIn
    <3> QED
      BY <1>2, <3>2 DEF Grafana!Calls, LoggedIn
  <2>5. UNCHANGED <<source, created, changed, session, refused, visits>>
    BY <1>3, <2>1 DEF Grafana!rowVars, Grafana!Become
  <2>6. /\ \A r \in refused : r.cookie # new
        /\ session # Nothing => session.cookie # new
    BY <2>2, <2>3 DEF SessionInv, NumberInv
  <2>7. Fresh(d)'
    <3>1. c.set # Nothing => c.set.no <= issued'
      <4>1. c.set # Nothing => c.set.no <= issued /\ c.set.no \in Nat
        BY <1>2, <1>1 DEF SoundVisit, Fresh, Grafana!Calls, Grafana!Cookies,
              Grafana!WellFormed
      <4> QED
        BY <2>2, <4>1
    <3>2. new.no <= issued'
      BY <2>2, <2>3
    <3> QED
      BY <2>3, <2>4, <2>5, <2>6, <3>1, <3>2 DEF Fresh, Putting, Pending
  <2>8. Rightful(d)'
    BY <1>2, <2>3, <2>4, <2>5 DEF SoundVisit, Rightful
  <2>9. Mine(h, d.cookie) /\ Mine(h, d.set) /\ Pending(d).no > issued
    BY <1>1, <2>2, <2>3, <2>4 DEF Mine, Pending
  <2>10. /\ visits <= visits' /\ visits' \in 0..MaxVisits
         /\ issued <= issued' /\ issued' \in 0..MaxCookies /\ live' \in SUBSET Grafana!Cookies
    BY <2>2, <2>3, <2>5 DEF SessionInv, Grafana!TypeOK, Grafana!WellFormed
  <2>11. FineVisit(d)'
    BY <2>4, <2>7, <2>8 DEF FineVisit, SoundVisit
  <2> QED
    BY <1>1, <2>1, <2>5, <2>9, <2>10, <2>11, VisitStepKeeps DEF Grafana!Become
<1> QED
  BY <1>4, <1>5 DEF Grafana!Login

-----------------------------------------------------------------------------
(* A session put into the cache is late, or its cookie is the row's.       *)
LEMMA PuttingKeeps ==
  ASSUME Grafana!WellFormed, SessionInv, NEW h \in Handlers, NEW c, c = visitor[h],
         c # Nothing,
         c.at \in Putting, NEW d, d = Nothing \/ SoundVisit(d), Grafana!Become(h, d),
         d # Nothing => Mine(h, d.cookie) /\ Mine(h, d.set) /\ d.at \notin Putting,
         session' \in Grafana!Entries, session'.cookie = Pending(c),
         ~ session'.late => Pending(c).account = source,
         UNCHANGED <<Grafana!rowVars, Grafana!grafanaVars, refused>>
  PROVE  SessionInv'
<1>1. UNCHANGED <<source, created, changed, live, issued, refused, visits>>
  BY DEF Grafana!rowVars, Grafana!grafanaVars, Grafana!Become
<1>2. StepTypes /\ RowStep
  <2>1. refused' \in SUBSET Grafana!Refusals
    BY <1>1 DEF SessionInv, Grafana!TypeOK
  <2> QED
    BY <1>1, <2>1, TypesKept
<1>3. FineVisit(d)'
  BY <1>1 DEF FineVisit, SoundVisit, Fresh, Rightful, Pending
<1>4. SessionStep(h) /\ RefusedStep(h)
  BY <1>1 DEF SessionStep, RefusedStep
<1>5. Grafana!SessionIsRows'
  BY <1>1 DEF Grafana!SessionIsRows
<1> QED
  BY <1>2, <1>3, <1>4, <1>5, StepKeeps DEF Grafana!Become

(* What Put puts.                                                          *)
LEMMA PutFacts ==
  ASSUME NEW h, NEW k \in Grafana!Cookies, NEW late, Grafana!Put(h, k, late),
         late \in BOOLEAN
  PROVE  session' \in Grafana!Entries /\ session'.cookie = k /\ (~ session'.late => ~ late)
<1>1. session' = [cookie |-> k, expired |-> FALSE, late |-> late]
  BY DEF Grafana!Put
<1>2. session' \in Grafana!Entries
  BY <1>1, Zenon DEF Grafana!Entries
<1>3. session'.cookie = k /\ session'.late = late
  BY <1>1, Zenon
<1> QED
  BY <1>2, <1>3, Zenon

(* After a login.                                                          *)
LEMMA StoreSessionKeeps ==
  ASSUME Grafana!WellFormed, SessionInv, NEW h \in Handlers, Grafana!StoreSession(h)
  PROVE  SessionInv'
<1> SUFFICES ASSUME NEW c, c = visitor[h], NEW at \in {"send", "connected"},
      at = Grafana!Ready(c)
             PROVE  SessionInv'
  BY DEF Grafana!Ready
<1>1. c # Nothing /\ c.at = "store" /\ c.at \in Putting
  BY DEF Grafana!StoreSession, Grafana!At, Putting
<1>2. SoundVisit(c) /\ c.op \in Reads /\ Pending(c) = c.cookie /\ c.cookie \in Grafana!Cookies
  BY <1>1, VisitorSound DEF SoundVisit, Fresh, Rightful, Using, Pending
<1> SUFFICES ASSUME NEW d, d = Went(c, at)
             PROVE  SessionInv'
  OBVIOUS
<1>3. Grafana!Become(h, d)
  BY DEF Grafana!StoreSession, Grafana!Go, Went
<1>4. SoundVisit(d) /\ Mine(h, d.cookie) /\ Mine(h, d.set) /\ d.at = at
  <2>1. at \in Grafana!Steps \ Putting /\ c.cookie # Nothing /\ at # "retry"
    BY <1>2 DEF Grafana!Steps, Putting, Grafana!WellFormed
  <2> QED
    BY <1>1, <1>2, <2>1, WentSound
<1>5. UNCHANGED <<Grafana!rowVars, Grafana!grafanaVars, refused>>
  BY DEF Grafana!StoreSession
<1>6. session' \in Grafana!Entries /\ session'.cookie = Pending(c)
      /\ (~ session'.late => ~ Grafana!Behind(h))
  <2>1. Grafana!Behind(h) \in BOOLEAN
    BY DEF Grafana!Behind
  <2>2. Grafana!Put(h, c.cookie, Grafana!Behind(h))
    BY DEF Grafana!StoreSession
  <2> QED
    BY <1>2, <2>1, <2>2, PutFacts
<1>7. ~ Grafana!Behind(h) => c.no > changed
  <2>1. c.no \in Nat /\ changed \in Nat
    BY <1>1, VisitorSound DEF SessionInv, Grafana!TypeOK, Grafana!WellFormed
  <2> QED
    BY <2>1 DEF Grafana!Behind
<1>8. ~ c.late /\ c.cookie # Nothing
  BY <1>1, <1>2 DEF SoundVisit, Rightful, Grafana!WellFormed
<1>9. c.no > changed => Pending(c).account = source
  BY <1>2, <1>8 DEF SoundVisit, Rightful
<1> QED
  BY <1>1, <1>3, <1>4, <1>5, <1>6, <1>7, <1>9, PuttingKeeps DEF Putting

(* After a proxied response.                                               *)
LEMMA RefreshSessionKeeps ==
  ASSUME Grafana!WellFormed, SessionInv, NEW h \in Handlers, Grafana!RefreshSession(h)
  PROVE  SessionInv'
<1> SUFFICES ASSUME NEW c, c = visitor[h]
             PROVE  SessionInv'
  OBVIOUS
<1>1. c # Nothing /\ c.at = "refresh" /\ c.at \in Putting
  BY DEF Grafana!RefreshSession, Grafana!At, Putting
<1>2. SoundVisit(c) /\ c.op \in Reads /\ Pending(c) = c.set /\ c.set \in Grafana!Cookies
  BY <1>1, VisitorSound DEF SoundVisit, Fresh, Rightful, Using, Pending
<1>3. UNCHANGED <<Grafana!rowVars, Grafana!grafanaVars, refused>>
  BY DEF Grafana!RefreshSession
<1>4. session' \in Grafana!Entries /\ session'.cookie = Pending(c)
      /\ (~ session'.late => ~ (Grafana!Behind(h) \/ c.late))
  <2>1. (Grafana!Behind(h) \/ c.late) \in BOOLEAN
    OBVIOUS
  <2>2. Grafana!Put(h, c.set, Grafana!Behind(h) \/ c.late)
    BY DEF Grafana!RefreshSession
  <2> QED
    BY <1>2, <2>1, <2>2, PutFacts
<1>5. ~ Grafana!Behind(h) => c.no > changed
  <2>1. c.no \in Nat /\ changed \in Nat
    BY <1>1, VisitorSound DEF SessionInv, Grafana!TypeOK, Grafana!WellFormed
  <2> QED
    BY <2>1 DEF Grafana!Behind
<1>6. ~ session'.late => Pending(c).account = source
  BY <1>1, <1>2, <1>4, <1>5 DEF SoundVisit, Rightful
<1>7. CASE c.dead
  <2> SUFFICES ASSUME NEW d, d = Went(c, "drop")
               PROVE  SessionInv'
    OBVIOUS
  <2>1. Grafana!Become(h, d)
    BY <1>7 DEF Grafana!RefreshSession, Grafana!Go, Went
  <2>2. "drop" \in Grafana!Steps \ Putting
    BY DEF Grafana!Steps, Putting
  <2>3. SoundVisit(d) /\ Mine(h, d.cookie) /\ Mine(h, d.set) /\ d.at = "drop"
    BY <1>1, <1>2, <2>2, WentSound
  <2> QED
    BY <1>1, <1>3, <1>4, <1>6, <2>1, <2>2, <2>3, PuttingKeeps
<1>8. CASE ~ c.dead
  <2>1. Grafana!Become(h, Nothing)
    BY <1>8 DEF Grafana!RefreshSession, Grafana!Over
  <2> QED
    BY <1>1, <1>3, <1>4, <1>6, <2>1, PuttingKeeps
<1> QED
  BY <1>7, <1>8

-----------------------------------------------------------------------------
(* withGrafanaSessionRetry.  A retry that is refused keeps the session.    *)
LEMMA RefusedAgainKeeps ==
  ASSUME Grafana!WellFormed, SessionInv, NEW h \in Handlers, ~ Grafana!At(h, "clear"),
         NEW c, c = visitor[h], c # Nothing, Grafana!Refuse({c.cookie}, TRUE),
         NEW d, SoundVisit(d), Grafana!Become(h, d),
         Mine(h, d.cookie), Mine(h, d.set), d.at \notin Putting,
         UNCHANGED <<Grafana!rowVars, session, Grafana!grafanaVars>>
  PROVE  SessionInv'
<1>1. UNCHANGED <<source, created, changed, session, live, issued, visits>>
  BY DEF Grafana!rowVars, Grafana!grafanaVars, Grafana!Become
<1>2. refused' = refused \cup [cookie : {c.cookie} \ {Nothing}, retry : {TRUE}]
  BY DEF Grafana!Refuse
<1>3. c.cookie \in Grafana!Cookies \cup {Nothing}
  BY VisitorSound
<1>4. /\ refused' \in SUBSET Grafana!Refusals
      /\ \A r \in refused' : r \in refused \/ (r.retry /\ r.cookie = c.cookie)
  BY <1>2, <1>3 DEF SessionInv, Grafana!TypeOK, Grafana!Refusals
<1>5. StepTypes /\ RowStep
  <2>1. session' \in Grafana!Entries \cup {Nothing}
    BY <1>1 DEF SessionInv, Grafana!TypeOK
  <2> QED
    BY <1>1, <1>4, <2>1, TypesKept
<1>6. SessionStep(h) /\ RefusedStep(h)
  BY <1>1, <1>4 DEF SessionStep, RefusedStep
<1>7. FineVisit(d)'
  BY <1>1 DEF FineVisit, SoundVisit, Fresh, Rightful, Pending
<1>8. Grafana!SessionIsRows'
  BY <1>1, ClearingKept DEF SessionInv, Grafana!SessionIsRows, Grafana!Become
<1> QED
  BY <1>5, <1>6, <1>7, <1>8, StepKeeps DEF Grafana!Become

LEMMA SendRequestsKeeps ==
  ASSUME Grafana!WellFormed, SessionInv, NEW h \in Handlers, Grafana!SendRequests(h)
  PROVE  SessionInv'
<1> SUFFICES ASSUME NEW c, c = visitor[h]
             PROVE  SessionInv'
  OBVIOUS
<1>1. c # Nothing /\ c.at = "send" /\ ~ Grafana!At(h, "clear")
  BY DEF Grafana!SendRequests, Grafana!At
<1>2. SoundVisit(c) /\ c.op \in Reads
  BY <1>1, VisitorSound DEF SoundVisit, Rightful, Using
<1>3. UNCHANGED <<Grafana!rowVars, session, Grafana!grafanaVars>>
  BY DEF Grafana!SendRequests
<1>4. CASE Grafana!Over(h) /\ UNCHANGED refused
  BY <1>1, <1>3, <1>4, QuietVisitKeeps DEF Grafana!Over
<1>5. ASSUME NEW at \in {"mark", "retry"}, Grafana!Go(h, at),
      at = "retry" => c.cookie # Nothing
      PROVE  LET d == Went(c, at)
             IN /\ Grafana!Become(h, d) /\ SoundVisit(d)
                /\ Mine(h, d.cookie) /\ Mine(h, d.set) /\ d.at \notin Putting
  <2> SUFFICES ASSUME NEW d, d = Went(c, at)
               PROVE  /\ Grafana!Become(h, d) /\ SoundVisit(d)
                      /\ Mine(h, d.cookie) /\ Mine(h, d.set) /\ d.at \notin Putting
    OBVIOUS
  <2>1. Grafana!Become(h, d)
    BY <1>5 DEF Grafana!Go, Went
  <2>2. at \in Grafana!Steps \ Putting /\ at # "send"
    BY DEF Grafana!Steps, Putting
  <2>3. SoundVisit(d) /\ Mine(h, d.cookie) /\ Mine(h, d.set) /\ d.at = at
    BY <1>1, <1>2, <1>5, <2>2, WentSound
  <2> QED
    BY <2>1, <2>2, <2>3
<1>6. c.account \notin Tokens => c.cookie # Nothing
  BY <1>1, <1>2 DEF SoundVisit, Fresh
<1>7. ASSUME NEW at \in {"mark", "retry"}, Grafana!Go(h, at), UNCHANGED refused,
      at = "retry" => c.cookie # Nothing
      PROVE  SessionInv'
  <2> SUFFICES ASSUME NEW d, d = Went(c, at)
               PROVE  SessionInv'
    OBVIOUS
  <2>1. /\ Grafana!Become(h, d) /\ SoundVisit(d)
        /\ Mine(h, d.cookie) /\ Mine(h, d.set) /\ d.at \notin Putting
    BY <1>5, <1>7
  <2> QED
    BY <1>1, <1>3, <1>7, <2>1, QuietVisitKeeps
<1>8. CASE Grafana!Go(h, "mark") /\ Grafana!Refuse({c.cookie}, TRUE)
  <2> SUFFICES ASSUME NEW d, d = Went(c, "mark")
               PROVE  SessionInv'
    OBVIOUS
  <2>1. /\ Grafana!Become(h, d) /\ SoundVisit(d)
        /\ Mine(h, d.cookie) /\ Mine(h, d.set) /\ d.at \notin Putting
    BY <1>5, <1>8
  <2> QED
    BY <1>1, <1>3, <1>8, <2>1, RefusedAgainKeeps
<1> QED
  BY <1>4, <1>6, <1>7, <1>8 DEF Grafana!SendRequests

(* The refused cookie has been the handler's.                              *)
LEMMA DropForRetryKeeps ==
  ASSUME Grafana!WellFormed, SessionInv, NEW h \in Handlers, Grafana!DropForRetry(h)
  PROVE  SessionInv'
<1> SUFFICES ASSUME NEW c, c = visitor[h], NEW d, d = Again(c)
             PROVE  SessionInv'
  OBVIOUS
<1>1. c # Nothing /\ c.at = "retry"
  BY DEF Grafana!DropForRetry, Grafana!At
<1>2. /\ SoundVisit(c) /\ c \in Grafana!Calls /\ c.op \in Reads /\ c.cookie # Nothing
      /\ c.cookie \in Grafana!Cookies \cup {Nothing}
  BY <1>1, VisitorSound DEF SoundVisit, Fresh, Rightful, Using
<1>3. /\ Grafana!Become(h, d) /\ session' = Nothing /\ UNCHANGED <<Grafana!rowVars,
          Grafana!grafanaVars>>
      /\ refused' = refused \cup [cookie : {c.cookie} \ {Nothing}, retry : {FALSE}]
  BY DEF Grafana!DropForRetry, Grafana!Refuse, Again
<1>4. /\ d \in Grafana!Calls /\ d.op = c.op /\ d.at = "ensure" /\ d.account = c.account
      /\ d.no = c.no /\ d.cookie = Nothing /\ d.set = c.set
  BY <1>2, AgainFacts
<1>5. SoundVisit(d)
  BY <1>2, <1>4 DEF SoundVisit, Fresh, Rightful, Putting
<1>6. Mine(h, d.cookie) /\ Mine(h, d.set) /\ d.at \notin Putting
  BY <1>1, <1>4 DEF Mine, Putting
<1>7. refused' \in SUBSET Grafana!Refusals /\ RefusedStep(h)
  BY <1>1, <1>2, <1>3 DEF SessionInv, Grafana!TypeOK, Grafana!Refusals, RefusedStep
<1> QED
  BY <1>3, <1>5, <1>6, <1>7, DroppingKeeps

(* A response that says the session is dead.                               *)
LEMMA DropDeadKeeps ==
  ASSUME Grafana!WellFormed, SessionInv, NEW h \in Handlers, Grafana!DropDead(h)
  PROVE  SessionInv'
<1> SUFFICES ASSUME NEW c, c = visitor[h]
             PROVE  SessionInv'
  OBVIOUS
<1>1. c # Nothing
  BY DEF Grafana!DropDead, Grafana!At
<1>2. c.cookie \in Grafana!Cookies \cup {Nothing} /\ c.set \in Grafana!Cookies \cup {Nothing}
  BY <1>1, VisitorSound
<1>3. /\ Grafana!Become(h, Nothing) /\ session' = Nothing /\ UNCHANGED <<Grafana!rowVars, Grafana!grafanaVars>>
      /\ refused' = refused \cup [cookie : {c.cookie, c.set} \ {Nothing}, retry : {FALSE}]
  BY DEF Grafana!DropDead, Grafana!Refuse, Grafana!Over
<1>4. refused' \in SUBSET Grafana!Refusals /\ RefusedStep(h)
  BY <1>1, <1>2, <1>3 DEF SessionInv, Grafana!TypeOK, Grafana!Refusals, RefusedStep
<1> QED
  BY <1>3, <1>4, DroppingKeeps

(* The end of an update or a deletion.                                     *)
LEMMA ClearSessionKeeps ==
  ASSUME Grafana!WellFormed, SessionInv, NEW h \in Handlers, Grafana!ClearSession(h)
  PROVE  SessionInv'
<1>1. /\ Grafana!Become(h, Nothing) /\ session' = Nothing
      /\ UNCHANGED <<Grafana!rowVars, Grafana!grafanaVars, refused>>
  BY DEF Grafana!ClearSession, Grafana!Over
<1>2. refused' \in SUBSET Grafana!Refusals /\ RefusedStep(h)
  BY <1>1 DEF SessionInv, Grafana!TypeOK, RefusedStep
<1> QED
  BY <1>1, <1>2, DroppingKeeps

-----------------------------------------------------------------------------
(* A row that is written: every call so far is behind it, and what is in   *)
(* the session is late or about to be dropped.                             *)
LEMMA WrittenKeeps ==
  ASSUME Grafana!WellFormed, SessionInv, NEW h \in Handlers, NEW d,
         d = Nothing \/ SoundVisit(d), Grafana!Become(h, d),
         d # Nothing => Mine(h, d.cookie) /\ Mine(h, d.set) /\ d.at \notin Putting,
         source' \in Accounts \cup {Nothing}, changed' = visits,
         UNCHANGED <<created, Grafana!grafanaVars, refused>>,
         session' \in Grafana!Entries \cup {Nothing},
         session' = Nothing \/ (session # Nothing /\ session'.cookie = session.cookie),
         \/ session' # Nothing => session'.late
         \/ d # Nothing /\ d.at = "clear"
  PROVE  SessionInv'
<1>1. UNCHANGED <<created, live, issued, refused, visits>> /\ visits \in Nat
  BY DEF Grafana!grafanaVars, Grafana!Become, SessionInv, Grafana!TypeOK, Grafana!WellFormed
<1>2. StepTypes /\ RowStep
  BY <1>1 DEF StepTypes, RowStep, SessionInv, Grafana!TypeOK, Grafana!WellFormed
<1>3. FineVisit(d)'
  <2> SUFFICES ASSUME d # Nothing
               PROVE  SoundVisit(d)'
    BY DEF FineVisit
  <2>1. SoundVisit(d) /\ d.no \in Nat
    BY DEF SoundVisit, Grafana!Calls
  <2>2. Fresh(d)'
    BY <1>1, <2>1 DEF SoundVisit, Fresh, Pending
  <2>3. Rightful(d)'
    BY <1>1, <2>1 DEF SoundVisit, Rightful
  <2> QED
    BY <2>1, <2>2, <2>3 DEF SoundVisit
<1>4. SessionStep(h) /\ RefusedStep(h)
  BY <1>1 DEF SessionStep, RefusedStep
<1>5. Grafana!SessionIsRows'
  BY ClearingKept DEF Grafana!SessionIsRows, Grafana!Become
<1> QED
  BY <1>2, <1>3, <1>4, <1>5, StepKeeps DEF Grafana!Become

(* A copy put back.                                                        *)
LEMMA SaveSourceCopyKeeps ==
  ASSUME Grafana!WellFormed, SessionInv, NEW h \in Handlers, ~ Grafana!At(h, "clear"),
         NEW d,
         d = Nothing \/ SoundVisit(d), Grafana!Become(h, d),
         d # Nothing => Mine(h, d.cookie) /\ Mine(h, d.set) /\ d.at \notin Putting,
         NEW a \in Accounts, Grafana!SaveCopy(a), UNCHANGED <<Grafana!grafanaVars, refused>>
  PROVE  SessionInv'
<1>1. CASE UNCHANGED <<Grafana!rowVars, session>>
  BY <1>1, QuietVisitKeeps
<1>2. CASE /\ source' = a /\ changed' = visits /\ UNCHANGED created
           /\ session' = IF session = Nothing THEN Nothing ELSE [session EXCEPT !.late = TRUE]
  <2>1. session # Nothing => session \in Grafana!Entries
    BY DEF SessionInv, Grafana!TypeOK
  <2>2. session' # Nothing =>
          /\ session # Nothing /\ session' \in Grafana!Entries
          /\ session'.cookie = session.cookie /\ session'.late
    <3> SUFFICES ASSUME NEW e \in Grafana!Entries, e = session,
          session' = [e EXCEPT !.late = TRUE]
                 PROVE  /\ session' \in Grafana!Entries
                        /\ session'.cookie = e.cookie /\ session'.late
      BY <1>2, <2>1
    <3>1. session' \in Grafana!Entries
      BY Zenon DEF Grafana!Entries
    <3> QED
      BY <3>1 DEF Grafana!Entries
  <2> QED
    BY <1>2, <2>2, WrittenKeeps
<1> QED
  BY <1>1, <1>2 DEF Grafana!SaveCopy

(* By a catalog call or a test,                                            *)
LEMMA MarkSourceKeeps ==
  ASSUME Grafana!WellFormed, SessionInv, NEW h \in Handlers, Grafana!MarkRow(h)
  PROVE  SessionInv'
<1> SUFFICES ASSUME NEW c, c = visitor[h]
             PROVE  SessionInv'
  OBVIOUS
<1>1. c # Nothing /\ ~ Grafana!At(h, "clear")
  BY DEF Grafana!MarkRow, Grafana!At
<1>2. c.account \in Accounts
  BY <1>1, VisitorSound
<1>3. Grafana!Become(h, Nothing) /\ Grafana!SaveCopy(c.account) /\ UNCHANGED <<Grafana!grafanaVars, refused>>
  BY DEF Grafana!MarkRow, Grafana!Over
<1> QED
  BY <1>1, <1>2, <1>3, SaveSourceCopyKeeps

(* ... by the proxy.                                                       *)
LEMMA MarkConnectedKeeps ==
  ASSUME Grafana!WellFormed, SessionInv, NEW h \in Handlers, Grafana!MarkConnected(h)
  PROVE  SessionInv'
<1> SUFFICES ASSUME NEW c, c = visitor[h], NEW d, d = Went(c, "forward")
             PROVE  SessionInv'
  OBVIOUS
<1>1. c # Nothing /\ c.at = "connected" /\ ~ Grafana!At(h, "clear")
  BY DEF Grafana!MarkConnected, Grafana!At
<1>2. c.op \in Reads /\ c.account \in Accounts
  BY <1>1, VisitorSound DEF SoundVisit, Rightful, Using
<1>3. Grafana!Become(h, d) /\ Grafana!SaveCopy(c.account) /\ UNCHANGED <<Grafana!grafanaVars, refused>>
  BY DEF Grafana!MarkConnected, Grafana!Go, Went
<1>4. "forward" \in Grafana!Steps \ Putting
  BY DEF Grafana!Steps, Putting
<1>5. SoundVisit(d) /\ Mine(h, d.cookie) /\ Mine(h, d.set) /\ d.at = "forward"
  BY <1>1, <1>2, <1>4, WentSound
<1> QED
  BY <1>1, <1>2, <1>3, <1>4, <1>5, SaveSourceCopyKeeps

(* The row itself, updated or deleted.                                     *)
LEMMA SaveOrDeleteKeeps ==
  ASSUME Grafana!WellFormed, SessionInv, NEW h \in Handlers,
         Grafana!SaveRow(h) \/ Grafana!DeleteRow(h)
  PROVE  SessionInv'
<1> SUFFICES ASSUME NEW c, c = visitor[h], NEW d, d = Went(c, "clear")
             PROVE  SessionInv'
  OBVIOUS
<1>1. c # Nothing /\ ~ Grafana!At(h, "clear") /\ c.account \in Accounts
  BY VisitorSound DEF Grafana!SaveRow, Grafana!DeleteRow, Grafana!At
<1>2. UNCHANGED <<session, Grafana!grafanaVars, refused>>
  BY DEF Grafana!SaveRow, Grafana!DeleteRow
<1>3. CASE Grafana!Over(h) /\ UNCHANGED Grafana!rowVars
  BY <1>1, <1>2, <1>3, QuietVisitKeeps DEF Grafana!Over
<1>4. CASE /\ source' \in {c.account, Nothing} /\ changed' = visits
           /\ Grafana!Go(h, "clear") /\ UNCHANGED created
  <2>1. Grafana!Become(h, d)
    BY <1>4 DEF Grafana!Go, Went
  <2>2. "clear" \in Grafana!Steps \ Putting /\ "clear" \notin Using
    BY DEF Grafana!Steps, Putting, Using
  <2>3. SoundVisit(d) /\ Mine(h, d.cookie) /\ Mine(h, d.set) /\ d.at = "clear"
    BY <1>1, <2>2, WentSound
  <2>4. d # Nothing
    BY <2>3 DEF SoundVisit, Grafana!WellFormed
  <2>5. session' \in Grafana!Entries \cup {Nothing}
    BY <1>2 DEF SessionInv, Grafana!TypeOK
  <2>6. session' = Nothing \/ (session # Nothing /\ session'.cookie = session.cookie)
    BY <1>2
  <2> QED
    BY <1>1, <1>2, <1>4, <2>1, <2>2, <2>3, <2>4, <2>5, <2>6, WrittenKeeps
<1> QED
  BY <1>3, <1>4 DEF Grafana!SaveRow, Grafana!DeleteRow

-----------------------------------------------------------------------------
(* The proxy's request: a cookie the response sets is of the account of    *)
(* the one it was sent with.                                               *)
LEMMA ForwardKeeps ==
  ASSUME Grafana!WellFormed, SessionInv, NEW h \in Handlers, Grafana!Forward(h)
  PROVE  SessionInv'
<1> SUFFICES ASSUME NEW c, c = visitor[h],
                    NEW owner,
                          owner = IF c.cookie = Nothing THEN c.account ELSE c.cookie.account,
                    NEW new, new = Grafana!NewCookie(owner)
             PROVE  SessionInv'
  OBVIOUS
<1>1. c # Nothing /\ c.at = "forward" /\ ~ Grafana!At(h, "clear")
  BY DEF Grafana!Forward, Grafana!At
<1>2. /\ SoundVisit(c) /\ c \in Grafana!Calls /\ c.op \in Reads /\ c.account \in Accounts
      /\ c.cookie \in Grafana!Cookies \cup {Nothing} /\ c.set \in Grafana!Cookies \cup {Nothing}
  BY <1>1, VisitorSound DEF SoundVisit, Rightful, Using
<1>3. UNCHANGED <<Grafana!rowVars, session, refused>>
  BY DEF Grafana!Forward
<1>4. CASE Grafana!Over(h) /\ UNCHANGED Grafana!grafanaVars
  BY <1>1, <1>3, <1>4, QuietVisitKeeps DEF Grafana!Over
<1>5. CASE Grafana!Become(h, Dying(c)) /\ UNCHANGED Grafana!grafanaVars
  <2> SUFFICES ASSUME NEW d, d = Dying(c)
               PROVE  SessionInv'
    OBVIOUS
  <2>1. /\ d \in Grafana!Calls /\ d.op = c.op /\ d.at = "drop" /\ d.account = c.account
        /\ d.no = c.no /\ d.cookie = c.cookie /\ d.set = c.set /\ d.late = c.late
    BY <1>2, DyingFacts
  <2>2. SoundVisit(d)
    BY <1>2, <2>1 DEF SoundVisit, Fresh, Rightful, Putting
  <2>3. Mine(h, d.cookie) /\ Mine(h, d.set) /\ d.at \notin Putting
    BY <1>1, <2>1 DEF Mine, Putting
  <2> QED
    BY <1>1, <1>3, <1>5, <2>2, <2>3, QuietVisitKeeps
<1>6. ASSUME NEW dead \in BOOLEAN, NEW alive \in BOOLEAN, Grafana!Issue(new, alive),
             Grafana!Become(h, Setting(c, new, dead))
      PROVE  SessionInv'
  <2> SUFFICES ASSUME NEW d, d = Setting(c, new, dead)
               PROVE  SessionInv'
    OBVIOUS
  <2>1. /\ issued < MaxCookies /\ issued' = issued + 1 /\ issued \in Nat
        /\ live' \in {live, live \cup {new}}
    BY <1>6 DEF Grafana!Issue, SessionInv, Grafana!TypeOK, Grafana!WellFormed
  <2>2. owner \in Accounts
    BY <1>2 DEF Grafana!Cookies
  <2>3. new \in Grafana!Cookies /\ new.no = issued + 1 /\ new.account = owner
    BY <2>1, <2>2 DEF Grafana!NewCookie, Grafana!Cookies, Grafana!WellFormed
  <2>4. /\ d \in Grafana!Calls /\ d.op = c.op /\ d.at = "refresh" /\ d.account = c.account
        /\ d.no = c.no /\ d.cookie = c.cookie /\ d.set = new /\ d.late = c.late
    BY <1>2, <1>6, <2>3, SettingFacts
  <2>5. UNCHANGED <<source, created, changed, session, refused, visits>>
    BY <1>3, <1>6 DEF Grafana!rowVars, Grafana!Become
  <2>6. /\ \A r \in refused : r.cookie # new
        /\ session # Nothing => session.cookie # new
    BY <2>1, <2>3 DEF SessionInv, NumberInv
  <2>7. Fresh(d)'
    <3>1. c.cookie # Nothing => c.cookie.no <= issued'
      <4>1. c.cookie # Nothing => c.cookie.no <= issued /\ c.cookie.no \in Nat
        BY <1>2 DEF SoundVisit, Fresh, Grafana!Cookies, Grafana!WellFormed
      <4> QED
        BY <2>1, <4>1
    <3>2. new.no <= issued'
      BY <2>1, <2>3
    <3> QED
      BY <2>3, <2>4, <2>5, <2>6, <3>1, <3>2 DEF Fresh, Putting, Pending
  <2>8. Rightful(d)'
    BY <1>2, <2>3, <2>4, <2>5 DEF SoundVisit, Rightful
  <2>9. Mine(h, d.cookie) /\ Mine(h, d.set) /\ Pending(d).no > issued
    BY <1>1, <2>1, <2>3, <2>4 DEF Mine, Pending
  <2>10. /\ visits <= visits' /\ visits' \in 0..MaxVisits
         /\ issued <= issued' /\ issued' \in 0..MaxCookies /\ live' \in SUBSET Grafana!Cookies
    BY <2>1, <2>3, <2>5 DEF SessionInv, Grafana!TypeOK, Grafana!WellFormed
  <2>11. FineVisit(d)'
    BY <2>4, <2>7, <2>8 DEF FineVisit, SoundVisit
  <2> QED
    BY <1>1, <1>6, <2>5, <2>9, <2>10, <2>11, VisitStepKeeps DEF Grafana!Become
<1> QED
  BY <1>4, <1>5, <1>6 DEF Grafana!Forward, Dying, Setting

-----------------------------------------------------------------------------
(* Time and Grafana: the session keeps its cookie.                         *)
LEMMA OutsideKeeps ==
  ASSUME SessionInv, live' \in SUBSET Grafana!Cookies,
         session' \in Grafana!Entries \cup {Nothing},
         session' # Nothing => /\ session # Nothing /\ session'.cookie = session.cookie
                               /\ session'.late \/ ~ session.late,
         UNCHANGED <<source, created, changed, issued, visitor, visits, refused>>
  PROVE  SessionInv'
<1>1. VisitorInv'
  <2> SUFFICES ASSUME NEW h \in Handlers, visitor[h] # Nothing
               PROVE  SoundVisit(visitor[h])'
    BY DEF VisitorInv, FineVisit
  <2>1. SoundVisit(visitor[h])
    BY DEF SessionInv, VisitorInv, FineVisit
  <2>2. Fresh(visitor[h])'
    BY <2>1 DEF SoundVisit, Fresh, Pending
  <2>3. Rightful(visitor[h])'
    BY <2>1 DEF SoundVisit, Rightful
  <2> QED
    BY <2>1, <2>2, <2>3 DEF SoundVisit
<1>2. Grafana!TypeOK'
  BY DEF SessionInv, Grafana!TypeOK
<1>3. NumberInv' /\ Grafana!RefusedIsGone'
  BY DEF SessionInv, NumberInv, Grafana!RefusedIsGone
<1>4. Apart'
  BY DEF SessionInv, Apart, Pending
<1>5. Grafana!SessionIsRows'
  BY DEF SessionInv, Grafana!SessionIsRows, Grafana!Clearing, Grafana!At
<1> QED
  BY <1>1, <1>2, <1>3, <1>4, <1>5 DEF SessionInv

(* The session's time runs out.                                            *)
LEMMA ExpireKeeps ==
  ASSUME Grafana!WellFormed, SessionInv, Grafana!Expire
  PROVE  SessionInv'
<1>1. session \in Grafana!Entries /\ session' = [session EXCEPT !.expired = TRUE]
  BY DEF Grafana!Expire, SessionInv, Grafana!TypeOK
<1>2. session' \in Grafana!Entries
  BY <1>1, Zenon DEF Grafana!Entries
<1>3. session'.cookie = session.cookie /\ (session'.late \/ ~ session.late)
  BY <1>1 DEF Grafana!Entries
<1>4. UNCHANGED <<source, created, changed, live, issued, visitor, visits, refused>>
  BY DEF Grafana!Expire, Grafana!rowVars, Grafana!grafanaVars
<1>5. live' \in SUBSET Grafana!Cookies /\ session # Nothing
  BY <1>4 DEF Grafana!Expire, SessionInv, Grafana!TypeOK
<1> QED
  BY <1>2, <1>3, <1>4, <1>5, OutsideKeeps

(* Nothing is known yet, and nobody is there.                              *)
LEMMA SessionInitInv ==
  ASSUME Grafana!WellFormed, Grafana!Init
  PROVE  SessionInv
<1>1. Grafana!TypeOK
  <2>1. /\ source = Nothing /\ created = FALSE /\ session = Nothing
        /\ live = {} /\ issued = 0 /\ visits = 0 /\ changed = 0 /\ refused = {}
    BY DEF Grafana!Init
  <2>2. 0 \in 0..MaxCookies /\ 0 \in 0..MaxVisits
    BY DEF Grafana!WellFormed
  <2>3. visitor \in [Handlers -> Grafana!Calls \cup {Nothing}]
    <3>1. visitor = [h \in Handlers |-> Nothing] /\ Nothing \in Grafana!Calls \cup {Nothing}
      BY Zenon DEF Grafana!Init
    <3> QED
      BY <3>1, Zenon
  <2> QED
    BY <2>1, <2>2, <2>3 DEF Grafana!TypeOK
<1>2. \A h \in Handlers : visitor[h] = Nothing
  BY DEF Grafana!Init
<1>3. VisitorInv /\ Apart
  BY <1>2 DEF VisitorInv, Apart, FineVisit
<1>4. NumberInv /\ Grafana!SessionIsRows /\ Grafana!RefusedIsGone
  BY DEF Grafana!Init, NumberInv, Grafana!SessionIsRows, Grafana!RefusedIsGone
<1> QED
  BY <1>1, <1>3, <1>4 DEF SessionInv

(* Every step keeps the invariant.                                         *)
LEMMA SessionNextInv ==
  ASSUME Grafana!WellFormed, SessionInv, [Grafana!Next]_(Grafana!vars)
  PROVE  SessionInv'
<1>1. session \in Grafana!Entries \cup {Nothing} /\ live \in SUBSET Grafana!Cookies
  BY DEF SessionInv, Grafana!TypeOK
<1>2. ASSUME NEW h \in Handlers, Grafana!Request(h)
      PROVE  SessionInv'
  BY <1>2, RequestKeeps
<1>3. ASSUME NEW h \in Handlers, Grafana!Step(h)
      PROVE  SessionInv'
  <2>1. CASE Grafana!Ensure(h) \/ Grafana!DropExpired(h) \/ Grafana!Login(h)
             \/ Grafana!StoreSession(h)
    BY <2>1, EnsureKeeps, DropExpiredKeeps, LoginKeeps, StoreSessionKeeps
  <2>2. CASE Grafana!SendRequests(h) \/ Grafana!DropForRetry(h) \/ Grafana!MarkRow(h)
    BY <2>2, SendRequestsKeeps, DropForRetryKeeps, MarkSourceKeeps
  <2>3. CASE Grafana!MarkConnected(h) \/ Grafana!Forward(h)
             \/ Grafana!RefreshSession(h) \/ Grafana!DropDead(h)
    BY <2>3, MarkConnectedKeeps, ForwardKeeps, RefreshSessionKeeps, DropDeadKeeps
  <2>4. CASE Grafana!SaveRow(h) \/ Grafana!DeleteRow(h) \/ Grafana!ClearSession(h)
    BY <2>4, SaveOrDeleteKeeps, ClearSessionKeeps
  <2> QED
    BY <1>3, <2>1, <2>2, <2>3, <2>4 DEF Grafana!Step
<1>4. CASE Grafana!Expire
  BY <1>4, ExpireKeeps
<1>5. CASE Grafana!EndSession
  <2>1. UNCHANGED <<source, created, changed, session, issued, visitor, visits, refused>>
    BY <1>5 DEF Grafana!EndSession, Grafana!rowVars
  <2>2. live' \in SUBSET Grafana!Cookies
    BY <1>1, <1>5 DEF Grafana!EndSession
  <2> QED
    BY <1>1, <2>1, <2>2, OutsideKeeps
<1>6. CASE UNCHANGED Grafana!vars
  <2>1. UNCHANGED <<source, created, session, live, issued, visitor, visits, changed,
        refused>>
    BY <1>6 DEF Grafana!vars
  <2> QED
    BY <1>1, <2>1, OutsideKeeps
<1> QED
  BY <1>2, <1>3, <1>4, <1>5, <1>6 DEF Grafana!Next

-----------------------------------------------------------------------------
(* Both invariants hold at every moment, whichever integration runs.       *)
EitherInv == Inv /\ SessionInv

LEMMA EitherInvHolds == EitherSpec => []EitherInv
<1>1. EitherInit => EitherInv
  BY InitInv, SessionInitInv, GrafanaWellFormed DEF EitherInit, EitherInv
<1>2. EitherInv /\ [EitherNext]_<<subject, vars, grafanaVars>> => EitherInv'
  <2> SUFFICES ASSUME EitherInv, [EitherNext]_<<subject, vars, grafanaVars>>
               PROVE  EitherInv'
    OBVIOUS
  <2>1. [Next]_vars
    BY DEF EitherNext
  <2>2. [Grafana!Next]_(Grafana!vars)
    BY DEF EitherNext, grafanaVars, Grafana!vars
  <2> QED
    BY <2>1, <2>2, NextInv, SessionNextInv, GrafanaWellFormed DEF EitherInv
<1> QED
  BY <1>1, <1>2, PTL DEF EitherSpec

(* A listing served from the cache was listed from a place that was given  *)
(* for the very registry asked for, however handlers interleave and        *)
(* whatever becomes of the row.                                            *)
THEOREM ListedIsOwnHolds == EitherSpec => []ListedIsOwn
<1>1. EitherInv => ListedIsOwn
  BY InvListed DEF EitherInv
<1> QED
  BY <1>1, EitherInvHolds, PTL

(* The cache is out of date only while an update is about to clear it, or  *)
(* for one TTL after a listing that an update overtook stored what it had  *)
(* got, or a handler saved a row it had read before the change.            *)
THEOREM CacheCurrentHolds == EitherSpec => []CacheCurrent
<1>1. EitherInv => CacheCurrent
  BY InvCurrent DEF EitherInv
<1> QED
  BY <1>1, EitherInvHolds, PTL

(* The table, the cache, the clock, the session and the handlers' calls    *)
(* have their types in every state.                                        *)
THEOREM IntegrationTypesHold == EitherSpec => [](TypeOK /\ Grafana!TypeOK)
<1>1. EitherInv => TypeOK /\ Grafana!TypeOK
  BY DEF EitherInv, Inv, SessionInv
<1> QED
  BY <1>1, EitherInvHolds, PTL

(* The session kept for a source is of the account its row names, unless   *)
(* a handler that read the row before the change had a part in it          *)
(* (updateObservabilitySource, refreshGrafanaSessionCacheFromResponse).    *)
THEOREM SessionIsRowsHolds == EitherSpec => []SessionIsRows
<1>1. EitherInv => SessionIsRows
  BY DEF EitherInv, SessionInv, SessionIsRows
<1> QED
  BY <1>1, EitherInvHolds, PTL

(* A session that a first attempt or the proxy saw to be refused, or that  *)
(* the response which said so set, is never in the cache again; one that   *)
(* only retries saw may be, since a retry drops nothing                    *)
(* (withGrafanaSessionRetry, ModifyResponse).                              *)
THEOREM RefusedIsGoneHolds == EitherSpec => []RefusedIsGone
<1>1. EitherInv => RefusedIsGone
  BY DEF EitherInv, SessionInv, RefusedIsGone
<1> QED
  BY <1>1, EitherInvHolds, PTL
=============================================================================
