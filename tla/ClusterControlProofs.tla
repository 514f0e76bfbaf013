------------------------- MODULE ClusterControlProofs -------------------------
(***************************************************************************)
(* Proofs about ClusterControl, for any number of handlers, rows,          *)
(* kubeconfigs, workers, requests and restarts.                            *)
(*                                                                         *)
(* The invariant follows the kubeconfigs: a row, a handler's copy of one,  *)
(* an entry of the cache and a runtime in use all have one that was given  *)
(* for their id, and the id was given by the table, which gives none       *)
(* twice.  A new row therefore finds nothing under its id.                 *)
(* A second invariant, further down, says what a request may assume of the *)
(* row, the cache and the nodes while nobody else is on the row.           *)
(***************************************************************************)
EXTENDS ClusterControl, WellFoundedInduction, TLAPS

Steps == Uses \cup {"invalidate", "fetch", "store", "patch", "save", "delete", "next"}

(* A row, or a copy of one, whose kubeconfig was given for its id.         *)
Known(r) == r \in Rows /\ r.id < nextId /\ r.cfg \in submitted[r.id]

(* All that a handler's call holds of rows.                                *)
Copies(c) == c \in Calls /\ Known(c.row) /\ \A r \in c.rest : Known(r)

Sound(c) ==
  /\ Copies(c)
  /\ c.rt # Nothing => c.rt \in submitted[c.row.id]
  /\ c.at \in Uses \cup {"patch"} => c.rt \in Configs   (* a runtime to work with *)
  /\ c.at = "next" => c.rest # {}
  /\ c.at = "invalidate" => c.op \in Changers \cup {"test"}

Fine(d) == d = Nothing \/ Sound(d)

OwnInv ==
  /\ TypeOK
  /\ \A r \in clusters : Known(r)
  /\ \A i \in Ids : cache[i] # Nothing => i < nextId /\ cache[i] \in submitted[i]
  /\ \A h \in Handlers : Fine(handler[h])

-----------------------------------------------------------------------------
(* Among rows there is a newest: their ids are at most MaxClusters.        *)
LEMMA NewestFacts ==
  ASSUME NEW rows \in SUBSET Rows, rows # {}
  PROVE  Newest(rows) \in rows
<1> DEFINE T == {MaxClusters - r.id : r \in rows}
<1>1. T \subseteq Nat /\ T # {}
  BY BoundsAssumption DEF Rows, Ids
<1>2. PICK x \in T : \A y \in T : ~ (<<y, x>> \in OpToRel(<, Nat))
  <2>1. IsWellFoundedOn(OpToRel(<, Nat), Nat)
    BY NatLessThanWellFounded
  <2> QED
    BY <1>1, <2>1, WFMin
<1>3. PICK r \in rows : x = MaxClusters - r.id
  OBVIOUS
<1>4. ASSUME NEW s \in rows
      PROVE  s.id <= r.id
  <2>1. MaxClusters - s.id \in T /\ MaxClusters - s.id \in Nat /\ x \in Nat
    BY <1>1
  <2>2. ~ (MaxClusters - s.id < x)
    BY <1>2, <2>1 DEF OpToRel
  <2> QED
    BY <1>3, <2>1, <2>2, BoundsAssumption DEF Rows, Ids
<1> QED
  BY <1>4 DEF Newest

-----------------------------------------------------------------------------
(* What the operators on calls make of a sound one.                        *)

(* Where only the place changes, or the reason, the nodes, the runtime.    *)
LEMMA SoundFrom ==
  ASSUME NEW c, Sound(c), NEW d \in Calls,
         d.row \in Rows, d.row.id = c.row.id, d.row.cfg = c.row.cfg, d.rest = c.rest,
         d.rt = Nothing \/ d.rt = c.rt,
         d.at \in Uses \cup {"patch"} => d.rt \in Configs,
         d.at = "next" => c.rest # {},
         d.at = "invalidate" => d.op \in Changers \cup {"test"}
  PROVE  Sound(d)
<1>1. Known(d.row)
  BY DEF Sound, Copies, Known
<1> QED
  BY <1>1 DEF Sound, Copies

(* The call goes to Factory.Runtime, with no runtime in hand.              *)
LEMMA FetchForFacts ==
  ASSUME NEW c \in Calls, NEW why \in Uses
  PROVE  LET d == FetchFor(c, why)
         IN /\ d \in Calls /\ d.op = c.op /\ d.at = "fetch" /\ d.row = c.row
            /\ d.rt = Nothing /\ d.rest = c.rest
<1>1. "fetch" \in Steps /\ Nothing \in Configs \cup {Nothing}
  BY DEF Steps
<1>2. FetchFor(c, why) \in Calls
  BY <1>1, Zenon DEF Calls, FetchFor, Steps
<1> QED
  BY <1>2 DEF Calls, FetchFor

(* ... which a handler may do with any copies it holds.                    *)
LEMMA FetchForSound ==
  ASSUME NEW c, Copies(c), NEW why \in Uses
  PROVE  Sound(FetchFor(c, why))
<1>1. c \in Calls
  BY DEF Copies
<1> DEFINE d == FetchFor(c, why)
<1>2. d \in Calls /\ d.at = "fetch" /\ d.row = c.row /\ d.rt = Nothing /\ d.rest = c.rest
  BY <1>1, FetchForFacts
<1> HIDE DEF d
<1>3. d.at \notin Uses \cup {"patch", "next", "invalidate"}
  BY <1>2 DEF Uses
<1>4. Sound(d)
  BY <1>2, <1>3 DEF Sound, Copies
<1> QED
  BY <1>4 DEF d

(* The end of a row is the end of the call or, in listClusters, the next.  *)
LEMMA OverFine ==
  ASSUME NEW c, Copies(c)
  PROVE  Fine(Over(c))
<1> SUFFICES ASSUME c.rest # {}
             PROVE  Sound([c EXCEPT !.at = "next", !.rt = Nothing])
  BY DEF Over, Fine
<1> DEFINE d == [c EXCEPT !.at = "next", !.rt = Nothing]
<1>1. c \in Calls /\ "next" \in Steps /\ Nothing \in Configs \cup {Nothing}
  BY DEF Steps, Copies
<1>2. d \in Calls
  BY <1>1, Zenon DEF Calls, Steps
<1>3. d.at = "next" /\ d.row = c.row /\ d.rt = Nothing /\ d.rest = c.rest /\ c.row \in Rows
  BY <1>1 DEF Calls
<1> HIDE DEF d
<1>4. d.at \notin Uses \cup {"patch", "invalidate"}
  BY <1>3 DEF Uses
<1>5. Sound(d)
  BY <1>2, <1>3, <1>4 DEF Sound, Copies
<1> QED
  BY <1>5 DEF d

(* ... and what most handlers do before it keeps the call sound too.       *)
LEMMA HealthFine ==
  ASSUME NEW c, Copies(c)
  PROVE  Fine(Health(c))
<1>1. "health" \in Uses
  BY DEF Uses
<1> QED
  BY <1>1, FetchForSound, OverFine DEF Health, Fine

(* To a step that asks nothing of the runtime.                             *)
LEMMA WentSound ==
  ASSUME NEW c, Sound(c), NEW at \in {"invalidate", "store", "save", "delete"},
         at = "invalidate" => c.op \in Changers \cup {"test"}
  PROVE  Sound([c EXCEPT !.at = at])
<1> DEFINE d == [c EXCEPT !.at = at]
<1>1. c \in Calls /\ at \in Steps
  BY DEF Steps, Sound, Copies
<1>2. d \in Calls
  BY <1>1, Zenon DEF Calls, Steps
<1>3. d.at = at /\ d.op = c.op /\ d.row = c.row /\ d.rt = c.rt /\ d.rest = c.rest /\ c.row \in Rows
  BY <1>1 DEF Calls
<1> HIDE DEF d
<1>4. d.at \notin Uses \cup {"patch"} /\ d.at # "next"
  BY <1>3 DEF Uses
<1>5. Sound(d)
  BY <1>2, <1>3, <1>4, SoundFrom
<1> QED
  BY <1>5 DEF d

(* To the step a runtime was fetched for.                                  *)
LEMMA FetchedSound ==
  ASSUME NEW c, Sound(c), NEW rt \in Configs, rt \in submitted[c.row.id]
  PROVE  Sound([c EXCEPT !.at = c.why, !.rt = rt])
<1> DEFINE d == [c EXCEPT !.at = c.why, !.rt = rt]
<1>1. c \in Calls /\ c.why \in Uses /\ c.why \in Steps /\ rt \in Configs \cup {Nothing}
  BY DEF Steps, Sound, Copies, Calls
<1>2. d \in Calls
  BY <1>1, Zenon DEF Calls, Steps
<1>3. d.at = c.why /\ d.row = c.row /\ d.rt = rt /\ d.rest = c.rest /\ c.row \in Rows
  BY <1>1 DEF Calls
<1> HIDE DEF d
<1>4. d.at \notin {"next", "invalidate"}
  BY <1>1, <1>3 DEF Uses
<1>5. Sound(d)
  BY <1>2, <1>3, <1>4 DEF Sound, Copies
<1> QED
  BY <1>5 DEF d

(* Where the copy of the row changes in what is not its id or kubeconfig.  *)
LEMMA RowSound ==
  ASSUME NEW c, Sound(c), NEW row \in Rows, row.id = c.row.id, row.cfg = c.row.cfg
  PROVE  LET d == [c EXCEPT !.row = row]
         IN Sound(d) /\ d.row = row /\ d.op = c.op
<1> DEFINE d == [c EXCEPT !.row = row]
<1>1. c \in Calls
  BY DEF Sound, Copies
<1>2. d \in Calls
  BY <1>1, Zenon DEF Calls
<1>3. d.op = c.op /\ d.at = c.at /\ d.row = row /\ d.rt = c.rt /\ d.rest = c.rest
  BY <1>1 DEF Calls
<1> HIDE DEF d
<1>4. Sound(d)
  <2>1. d.at \in Uses \cup {"patch"} => d.rt \in Configs
    BY <1>3 DEF Sound
  <2>2. d.at = "next" => c.rest # {}
    BY <1>3 DEF Sound
  <2>3. d.at = "invalidate" => d.op \in Changers \cup {"test"}
    BY <1>3 DEF Sound
  <2> QED
    BY <1>2, <1>3, <2>1, <2>2, <2>3, SoundFrom
<1> QED
  BY <1>3, <1>4 DEF d

(* markClusterError changes the status only.                               *)
LEMMA FailedSound ==
  ASSUME NEW c, Sound(c)
  PROVE  LET d == [c EXCEPT !.row.status = "error"]
         IN Sound(d) /\ Known(d.row) /\ d.op = c.op
<1> DEFINE row == [c.row EXCEPT !.status = "error"]
           d == [c EXCEPT !.row = row]
<1>1. c \in Calls /\ c.row \in Rows
  BY DEF Sound, Copies, Calls
<1>2. row \in Rows
  BY <1>1, Zenon DEF Rows
<1>3. row.id = c.row.id /\ row.cfg = c.row.cfg
  BY <1>1 DEF Rows
<1>4. [c EXCEPT !.row.status = "error"] = d
  BY <1>1 DEF Calls
<1> HIDE DEF row
<1>5. Sound(d) /\ Known(d.row) /\ d.op = c.op
  BY <1>2, <1>3, RowSound DEF Sound, Copies
<1> HIDE DEF d
<1> QED
  BY <1>4, <1>5

(* refreshClusterRuntimeMetadata changes the versions only.                *)
LEMMA VersionsSound ==
  ASSUME NEW c, Sound(c), NEW known \in BOOLEAN
  PROVE  LET d == [c EXCEPT !.row.versions = known]
         IN Sound(d) /\ Known(d.row) /\ d.op = c.op
<1> DEFINE row == [c.row EXCEPT !.versions = known]
           d == [c EXCEPT !.row = row]
<1>1. c \in Calls /\ c.row \in Rows
  BY DEF Sound, Copies, Calls
<1>2. row \in Rows
  BY <1>1, Zenon DEF Rows
<1>3. row.id = c.row.id /\ row.cfg = c.row.cfg
  BY <1>1 DEF Rows
<1>4. [c EXCEPT !.row.versions = known] = d
  BY <1>1 DEF Calls
<1> HIDE DEF row
<1>5. Sound(d) /\ Known(d.row) /\ d.op = c.op
  BY <1>2, <1>3, RowSound DEF Sound, Copies
<1> HIDE DEF d
<1> QED
  BY <1>4, <1>5

(* applyClusterMode, with workers left to patch and without.               *)
LEMMA NodesSound ==
  ASSUME NEW c, Sound(c), NEW nodes \in SUBSET Workers
  PROVE  LET d == [c EXCEPT !.nodes = nodes]
         IN Sound(d) /\ d.at = c.at /\ d.rt = c.rt
<1> DEFINE d == [c EXCEPT !.nodes = nodes]
<1>1. c \in Calls /\ c.row \in Rows
  BY DEF Sound, Copies, Calls
<1>2. d \in Calls
  BY <1>1, Zenon DEF Calls
<1>3. d.op = c.op /\ d.at = c.at /\ d.row = c.row /\ d.rt = c.rt /\ d.rest = c.rest
  BY <1>1 DEF Calls
<1> HIDE DEF d
<1>4. Sound(d)
  BY <1>1, <1>2, <1>3, SoundFrom DEF Sound, Copies
<1> QED
  BY <1>3, <1>4 DEF d

(* Between two workers, and after the last, the row is still the same one. *)
LEMMA SwitchedSound ==
  ASSUME NEW c, Sound(c), c.rt \in Configs
  PROVE  Sound(Switched(c))
<1>1. c \in Calls /\ c.row \in Rows /\ c.want \in Modes /\ c.rt \in Configs \cup {Nothing}
  BY DEF Sound, Copies, Calls
<1>2. Sound([c EXCEPT !.at = "patch"])
  <2> DEFINE d == [c EXCEPT !.at = "patch"]
  <2>1. "patch" \in Steps
    BY DEF Steps
  <2>2. d \in Calls
    BY <1>1, <2>1, Zenon DEF Calls, Steps
  <2>3. d.at = "patch" /\ d.row = c.row /\ d.rt = c.rt /\ d.rest = c.rest
    BY <1>1 DEF Calls
  <2> HIDE DEF d
  <2>4. Sound(d)
    BY <1>1, <2>2, <2>3, SoundFrom
  <2> QED
    BY <2>4 DEF d
<1>3. Sound([c EXCEPT !.at = "save", !.row.status = "connected", !.row.mode = c.want])
  <2> DEFINE s == [c EXCEPT !.at = "save"]
             row == [c.row EXCEPT !.status = "connected", !.mode = c.want]
             d == [s EXCEPT !.row = row]
  <2>1. Sound(s) /\ s.row = c.row
    BY <1>1, WentSound DEF Calls
  <2>2. row \in Rows
    BY <1>1, Zenon DEF Rows
  <2>3. row.id = c.row.id /\ row.cfg = c.row.cfg
    BY <1>1 DEF Rows
  <2>4. [c EXCEPT !.at = "save", !.row.status = "connected", !.row.mode = c.want] = d
    BY <1>1 DEF Calls
  <2> HIDE DEF row, s
  <2>5. Sound(d)
    BY <2>1, <2>2, <2>3, RowSound
  <2> HIDE DEF d
  <2> QED
    BY <2>4, <2>5
<1> QED
  BY <1>2, <1>3 DEF Switched

(* testCluster's call succeeded.                                           *)
LEMMA AnsweredSound ==
  ASSUME NEW c, Sound(c), NEW known \in BOOLEAN
  PROVE  Sound([c EXCEPT !.at = "save", !.row.status = "connected", !.row.versions = known])
<1>1. c \in Calls /\ c.row \in Rows
  BY DEF Sound, Copies, Calls
<1> DEFINE s == [c EXCEPT !.at = "save"]
           row == [c.row EXCEPT !.status = "connected", !.versions = known]
           d == [s EXCEPT !.row = row]
<1>2. Sound(s) /\ s.row = c.row
  BY <1>1, WentSound DEF Calls
<1>3. row \in Rows
  BY <1>1, Zenon DEF Rows
<1>4. row.id = c.row.id /\ row.cfg = c.row.cfg
  BY <1>1 DEF Rows
<1>5. [c EXCEPT !.at = "save", !.row.status = "connected", !.row.versions = known] = d
  BY <1>1 DEF Calls
<1> HIDE DEF row, s
<1>6. Sound(d)
  BY <1>2, <1>3, <1>4, RowSound
<1> HIDE DEF d
<1> QED
  BY <1>5, <1>6

(* listClusters goes on with the newest row it has left.                   *)
LEMMA NextRowFine ==
  ASSUME NEW c, Sound(c), c.at = "next"
  PROVE  LET r == Newest(c.rest)
             d == [c EXCEPT !.row = r, !.rest = @ \ {r}]
         IN Fine(IF r.versions THEN Health(d) ELSE FetchFor(d, "detect"))
<1> DEFINE r == Newest(c.rest)
           rest == c.rest \ {r}
           d == [c EXCEPT !.row = r, !.rest = rest]
<1>1. c \in Calls /\ c.rest \in SUBSET Rows /\ c.rest # {}
  BY DEF Sound, Copies, Calls
<1>2. r \in c.rest
  BY <1>1, NewestFacts
<1>3. Known(r) /\ r \in Rows
  BY <1>2 DEF Sound, Copies, Known
<1>4. rest \in SUBSET Rows /\ \A s \in rest : Known(s)
  BY <1>1 DEF Sound, Copies
<1> HIDE DEF r, rest
<1>5. d \in Calls
  BY <1>1, <1>3, <1>4, Zenon DEF Calls
<1>6. d.row = r /\ d.rest = rest
  BY <1>1 DEF Calls
<1> HIDE DEF d
<1>7. Copies(d)
  BY <1>3, <1>4, <1>5, <1>6 DEF Copies
<1>8. Fine(IF r.versions THEN Health(d) ELSE FetchFor(d, "detect"))
  <2>1. "detect" \in Uses
    BY DEF Uses
  <2> QED
    BY <1>7, <2>1, HealthFine, FetchForSound DEF Fine
<1> QED
  BY <1>8 DEF d, r, rest

-----------------------------------------------------------------------------
(* What a step makes of the handlers and the histories.                    *)
Handled == handler' \in [Handlers -> Calls \cup {Nothing}]
           /\ \A g \in Handlers : Fine(handler[g])'

Tables == /\ clusters' \in SUBSET Rows /\ \A r \in clusters' : Known(r)'
          /\ mishaps' \in [Ids -> SUBSET {"overlap", "unsaved", "halfway"}]

(* A sound call stays so while the table gives ids and requests add        *)
(* kubeconfigs.                                                            *)
LEMMA FineKept ==
  ASSUME NEW c, Fine(c), nextId' \in Nat, nextId \in Nat, nextId <= nextId',
         \A i \in Ids : i < nextId => submitted[i] \subseteq submitted'[i]
  PROVE  Fine(c)'
<1> SUFFICES ASSUME Sound(c)
             PROVE  Sound(c)'
  BY DEF Fine
<1>1. ASSUME NEW r, Known(r)
      PROVE  Known(r)'
  BY <1>1 DEF Known, Rows, Ids
<1>2. c.row.id \in Ids /\ c.row.id < nextId
  BY DEF Sound, Copies, Known, Rows
<1> QED
  BY <1>1, <1>2 DEF Sound, Copies

(* A handler goes on with a sound call, or ends; the others do nothing.    *)
LEMMA BecomeKeeps ==
  ASSUME OwnInv, NEW h \in Handlers, NEW d, Fine(d), Become(h, d), UNCHANGED submitted
  PROVE  Handled /\ UNCHANGED <<calls, crashes, nextId>>
<1>1. UNCHANGED <<calls, crashes, nextId>> /\ handler' = [handler EXCEPT ![h] = d]
  BY DEF Become
<1>2. nextId \in Nat
  BY BoundsAssumption DEF OwnInv, TypeOK
<1>3. handler \in [Handlers -> Calls \cup {Nothing}] /\ d \in Calls \cup {Nothing}
  BY DEF OwnInv, TypeOK, Fine, Sound, Copies
<1>4. ASSUME NEW g \in Handlers
      PROVE  Fine(handler[g])'
  <2> SUFFICES ASSUME NEW c, c = handler'[g]
               PROVE  Fine(c)'
    OBVIOUS
  <2>1. Fine(c)
    BY <1>1, <1>3 DEF OwnInv
  <2> QED
    BY <1>1, <1>2, <2>1, FineKept
<1> QED
  BY <1>1, <1>3, <1>4 DEF Handled

(* The handler's own call.                                                 *)
LEMMA HandlerSound ==
  ASSUME OwnInv, NEW h \in Handlers, handler[h] # Nothing
  PROVE  Sound(handler[h]) /\ handler[h] \in Calls
BY DEF OwnInv, Fine, Sound, Copies

(* db.Save writes a known row, or nothing.                                 *)
LEMMA SavedKeeps ==
  ASSUME OwnInv, NEW row, Known(row), NEW lost \in SUBSET {"overlap", "unsaved", "halfway"},
         Saved(row, lost) \/ NotSaved(row, lost), UNCHANGED <<submitted, nextId>>
  PROVE  Tables
<1>1. row \in Rows /\ row.id \in Ids
  BY DEF Known, Rows
<1>2. mishaps' \in [Ids -> SUBSET {"overlap", "unsaved", "halfway"}]
  BY <1>1 DEF OwnInv, TypeOK, Saved, NotSaved, Remember
<1>3. clusters' \subseteq clusters \cup {row}
  BY DEF Saved, NotSaved, Upsert
<1>4. \A r \in clusters' : r \in Rows /\ Known(r)'
  BY <1>1, <1>3 DEF OwnInv, TypeOK, Known
<1> QED
  BY <1>2, <1>4 DEF Tables

(* A step that leaves the table and the histories alone.                   *)
LEMMA TablesKept ==
  ASSUME OwnInv, UNCHANGED <<clusters, mishaps, submitted, nextId>>
  PROVE  Tables
BY DEF OwnInv, TypeOK, Tables, Known

(* Enough for a step that gives no id and no kubeconfig.                   *)
LEMMA StepKeeps ==
  ASSUME OwnInv, Handled, Tables, UNCHANGED <<calls, crashes, nextId, submitted>>,
         cordoned' \in [Configs -> SUBSET Workers],
         cache' \in [Ids -> Configs \cup {Nothing}],
         \A i \in Ids : cache'[i] # Nothing => i < nextId /\ cache'[i] \in submitted[i]
  PROVE  OwnInv'
<1>1. TypeOK'
  BY DEF OwnInv, TypeOK, Handled, Tables
<1> QED
  BY <1>1 DEF OwnInv, Handled, Tables

(* markClusterError, where any call of a handler may end.                  *)
LEMMA FailKeeps ==
  ASSUME OwnInv, NEW h \in Handlers, handler[h] # Nothing, Fail(h)
  PROVE  OwnInv'
<1> DEFINE c == handler[h]
           failed == [c EXCEPT !.row.status = "error"]
           lost == IF c.why = "list" THEN {"halfway"} ELSE {}
           back == [failed EXCEPT !.at = "invalidate"]
           d == IF c.op = "create" /\ c.why = "list" THEN back ELSE Over(failed)
<1>1. Sound(failed) /\ Known(failed.row) /\ failed.op = c.op
  BY HandlerSound, FailedSound
<1>2. /\ Saved(failed.row, lost) \/ NotSaved(failed.row, lost)
      /\ Become(h, d) /\ UNCHANGED <<cache, cordoned, submitted>>
  BY DEF Fail
<1>3. lost \in SUBSET {"overlap", "unsaved", "halfway"}
  OBVIOUS
<1> HIDE DEF failed, lost
<1>4. Fine(d)
  BY <1>1, WentSound, OverFine DEF Fine, Sound, Changers
<1> HIDE DEF d
<1>5. Handled /\ UNCHANGED <<calls, crashes, nextId>>
  BY <1>2, <1>4, BecomeKeeps
<1>6. Tables
  BY <1>1, <1>2, <1>3, <1>5, SavedKeeps
<1> QED
  BY <1>2, <1>5, <1>6, StepKeeps DEF OwnInv, TypeOK

(* A step after which only the handler's own call differs.                 *)
LEMMA OwnStepKeeps ==
  ASSUME OwnInv, NEW h \in Handlers, NEW d, Fine(d), Become(h, d),
         UNCHANGED <<clusters, cache, cordoned, submitted, mishaps>>
  PROVE  OwnInv'
<1>1. Handled /\ UNCHANGED <<calls, crashes, nextId>>
  BY BecomeKeeps
<1> QED
  BY <1>1, TablesKept, StepKeeps DEF OwnInv, TypeOK

(* Factory.Runtime: the cached runtime is one of the row in hand.          *)
LEMMA FetchKeeps ==
  ASSUME OwnInv, NEW h \in Handlers, Fetch(h)
  PROVE  OwnInv'
<1> DEFINE c == handler[h]
           cached == cache[c.row.id]
<1>1. c # Nothing /\ Sound(c) /\ c.row.id \in Ids
  BY HandlerSound DEF Fetch, At, Sound, Copies, Known, Rows
<1>2. CASE /\ cached # Nothing
           /\ Become(h, [c EXCEPT !.at = c.why, !.rt = cached])
           /\ UNCHANGED <<clusters, cache, cordoned, submitted, mishaps>>
  <2>1. cached \in Configs /\ cached \in submitted[c.row.id]
    BY <1>1, <1>2 DEF OwnInv, TypeOK
  <2>2. Fine([c EXCEPT !.at = c.why, !.rt = cached])
    BY <1>1, <2>1, FetchedSound DEF Fine
  <2> QED
    BY <1>2, <2>2, OwnStepKeeps
<1>3. CASE /\ cached = Nothing
           /\ Become(h, [c EXCEPT !.at = "store"])
           /\ UNCHANGED <<clusters, cache, cordoned, submitted, mishaps>>
  <2>1. Fine([c EXCEPT !.at = "store"])
    BY <1>1, WentSound DEF Fine
  <2> QED
    BY <1>3, <2>1, OwnStepKeeps
<1>4. CASE Fail(h)
  BY <1>1, <1>4, FailKeeps
<1>5. CASE /\ cached = Nothing /\ c.why = "detect"
           /\ Become(h, Health(c))
           /\ UNCHANGED <<clusters, cache, cordoned, submitted, mishaps>>
  <2>1. Fine(Health(c))
    BY <1>1, HealthFine DEF Sound
  <2> QED
    BY <1>5, <2>1, OwnStepKeeps
<1> QED
  BY <1>2, <1>3, <1>4, <1>5 DEF Fetch

(* ... and a new one is stored under the row's id with its kubeconfig.     *)
LEMMA StoreRuntimeKeeps ==
  ASSUME OwnInv, NEW h \in Handlers, StoreRuntime(h)
  PROVE  OwnInv'
<1> DEFINE c == handler[h]
           d == [c EXCEPT !.at = c.why, !.rt = c.row.cfg]
<1>1. Sound(c) /\ Known(c.row)
  BY HandlerSound DEF StoreRuntime, At, Sound, Copies
<1>2. c.row.id \in Ids /\ c.row.cfg \in Configs
  BY <1>1 DEF Known, Rows
<1>3. Fine(d)
  BY <1>1, <1>2, FetchedSound DEF Known, Fine
<1>4. /\ Become(h, d) /\ UNCHANGED <<clusters, cordoned, submitted, mishaps>>
      /\ cache' = [cache EXCEPT ![c.row.id] = c.row.cfg]
  BY DEF StoreRuntime
<1> HIDE DEF d
<1>5. Handled /\ UNCHANGED <<calls, crashes, nextId>>
  BY <1>3, <1>4, BecomeKeeps
<1>6. /\ cache' \in [Ids -> Configs \cup {Nothing}]
      /\ \A i \in Ids : cache'[i] # Nothing => i < nextId /\ cache'[i] \in submitted[i]
  BY <1>1, <1>2, <1>4 DEF OwnInv, TypeOK, Known
<1> QED
  BY <1>4, <1>5, <1>6, TablesKept, StepKeeps DEF OwnInv, TypeOK

(* Factory.Invalidate, and where the four that call it go on.              *)
LEMMA InvalidateKeeps ==
  ASSUME OwnInv, NEW h \in Handlers, Invalidate(h)
  PROVE  OwnInv'
<1> DEFINE c == handler[h]
           d == CASE c.op \in {"create", "delete"} -> [c EXCEPT !.at = "delete"]
                  [] c.op = "update" -> FetchFor(c, "list")
                  [] c.op = "test"   -> FetchFor(c, "call")
<1>1. Sound(c) /\ c \in Calls
  BY HandlerSound DEF Invalidate, At
<1>2. c.row.id \in Ids /\ c.op \in Changers \cup {"test"}
  BY <1>1 DEF Sound, Copies, Known, Rows, Invalidate, At
<1>3. Fine(d)
  <2>1. CASE c.op \in {"create", "delete"}
    BY <1>1, <2>1, WentSound DEF Fine
  <2>2. CASE c.op = "update"
    BY <1>1, <2>2, FetchForSound DEF Fine, Sound, Uses
  <2>3. CASE c.op = "test"
    BY <1>1, <2>3, FetchForSound DEF Fine, Sound, Uses
  <2> QED
    BY <1>2, <2>1, <2>2, <2>3 DEF Changers
<1>4. /\ Become(h, d) /\ UNCHANGED <<clusters, cordoned, submitted, mishaps>>
      /\ cache' = [cache EXCEPT ![c.row.id] = Nothing]
  BY DEF Invalidate
<1> HIDE DEF d
<1>5. Handled /\ UNCHANGED <<calls, crashes, nextId>>
  BY <1>3, <1>4, BecomeKeeps
<1>6. /\ cache' \in [Ids -> Configs \cup {Nothing}]
      /\ \A i \in Ids : cache'[i] # Nothing => i < nextId /\ cache'[i] \in submitted[i]
  BY <1>2, <1>4 DEF OwnInv, TypeOK
<1> QED
  BY <1>4, <1>5, <1>6, TablesKept, StepKeeps DEF OwnInv, TypeOK

(* The list of the nodes decides which ones to patch.                      *)
LEMMA ListWorkersKeeps ==
  ASSUME OwnInv, NEW h \in Handlers, ListWorkers(h)
  PROVE  OwnInv'
<1> DEFINE c == handler[h]
           other == IF c.want = "maintenance" THEN Workers \ cordoned[c.rt] ELSE Workers
           held == [c EXCEPT !.nodes = other]
<1>1. Sound(c) /\ c # Nothing /\ c.at = "list"
  BY HandlerSound DEF ListWorkers, At
<1>2. c.rt \in Configs
  BY <1>1 DEF Sound, Uses
<1>3. other \in SUBSET Workers
  BY <1>2 DEF OwnInv, TypeOK
<1>4. \/ /\ Become(h, Switched(held))
         /\ UNCHANGED <<clusters, cache, cordoned, submitted, mishaps>>
      \/ Fail(h)
  BY DEF ListWorkers
<1> HIDE DEF other
<1>5. Sound(held) /\ held.rt = c.rt
  BY <1>1, <1>3, NodesSound
<1> HIDE DEF held
<1>6. Fine(Switched(held))
  BY <1>2, <1>5, SwitchedSound DEF Fine
<1> QED
  BY <1>1, <1>4, <1>6, OwnStepKeeps, FailKeeps

(* One PATCH, in the cluster of the runtime in use.                        *)
LEMMA PatchWorkerKeeps ==
  ASSUME OwnInv, NEW h \in Handlers, PatchWorker(h)
  PROVE  OwnInv'
<1> DEFINE c == handler[h]
<1>1. Sound(c) /\ c # Nothing /\ c.at = "patch" /\ c \in Calls
  BY HandlerSound DEF PatchWorker, At
<1>2. c.rt \in Configs
  BY <1>1 DEF Sound
<1>3. ASSUME NEW w \in c.nodes,
             cordoned' = [cordoned EXCEPT ![c.rt] =
                            IF c.want = "maintenance" THEN @ \cup {w} ELSE @ \ {w}],
             Become(h, Switched([c EXCEPT !.nodes = @ \ {w}])),
             UNCHANGED <<clusters, cache, submitted, mishaps>>
      PROVE  OwnInv'
  <2> DEFINE left == c.nodes \ {w}
             held == [c EXCEPT !.nodes = left]
  <2>1. w \in Workers /\ left \in SUBSET Workers
    BY <1>1 DEF Calls
  <2>2. cordoned' \in [Configs -> SUBSET Workers]
    BY <1>2, <1>3, <2>1 DEF OwnInv, TypeOK
  <2>3. Become(h, Switched(held))
    BY <1>3
  <2> HIDE DEF left
  <2>4. Sound(held) /\ held.rt = c.rt
    BY <1>1, <2>1, NodesSound
  <2> HIDE DEF held
  <2>5. Fine(Switched(held))
    BY <1>2, <2>4, SwitchedSound DEF Fine
  <2>6. Handled /\ UNCHANGED <<calls, crashes, nextId>>
    BY <1>3, <2>3, <2>5, BecomeKeeps
  <2> QED
    BY <1>3, <2>2, <2>6, TablesKept, StepKeeps DEF OwnInv, TypeOK
<1> QED
  BY <1>1, <1>3, FailKeeps DEF PatchWorker

(* The call of a handler that only uses the runtime, or of testCluster.    *)
LEMMA CallServerKeeps ==
  ASSUME OwnInv, NEW h \in Handlers, CallServer(h)
  PROVE  OwnInv'
<1> DEFINE c == handler[h]
<1>1. Sound(c) /\ c # Nothing /\ c.row.versions \in BOOLEAN
  BY HandlerSound DEF CallServer, At, Sound, Copies, Known, Rows
<1>2. ASSUME NEW known \in {TRUE, c.row.versions},
             Become(h, IF c.op = "use" THEN Nothing
                       ELSE [c EXCEPT !.at = "save", !.row.status = "connected",
                                      !.row.versions = known]),
             UNCHANGED <<clusters, cache, cordoned, submitted, mishaps>>
      PROVE  OwnInv'
  <2> DEFINE d == [c EXCEPT !.at = "save", !.row.status = "connected",
                            !.row.versions = known]
  <2>1. Sound(d)
    BY <1>1, AnsweredSound
  <2> HIDE DEF d
  <2>2. Become(h, IF c.op = "use" THEN Nothing ELSE d)
    BY <1>2 DEF d
  <2>3. Fine(IF c.op = "use" THEN Nothing ELSE d)
    BY <2>1 DEF Fine
  <2> QED
    BY <1>2, <2>2, <2>3, OwnStepKeeps
<1> QED
  BY <1>1, <1>2, FailKeeps DEF CallServer

(* resolveClusterNodeHealth, the last step of most handlers.               *)
LEMMA CheckHealthKeeps ==
  ASSUME OwnInv, NEW h \in Handlers, CheckHealth(h)
  PROVE  OwnInv'
<1>1. Sound(handler[h]) /\ handler[h] # Nothing
  BY HandlerSound DEF CheckHealth, At
<1>2. Fine(Over(handler[h]))
  BY <1>1, OverFine DEF Sound
<1> QED
  BY <1>1, <1>2, OwnStepKeeps, FailKeeps DEF CheckHealth

(* refreshClusterRuntimeMetadata.                                          *)
LEMMA DetectVersionsKeeps ==
  ASSUME OwnInv, NEW h \in Handlers, DetectVersions(h)
  PROVE  OwnInv'
<1> PICK known \in ProbedVersions :
      LET c == [handler[h] EXCEPT !.row.versions = known] IN
      /\ At(h, "detect")
      /\ Saved(c.row, {}) \/ NotSaved(c.row, {})
      /\ Become(h, Health(c))
      /\ UNCHANGED <<cache, cordoned, submitted>>
  BY DEF DetectVersions
<1> DEFINE c == [handler[h] EXCEPT !.row.versions = known]
<1>1. Sound(handler[h]) /\ known \in BOOLEAN
  BY HandlerSound, BoundsAssumption DEF At
<1>2. Sound(c) /\ Known(c.row)
  BY <1>1, VersionsSound
<1> HIDE DEF c
<1>3. Fine(Health(c))
  BY <1>2, HealthFine DEF Sound
<1>4. Become(h, Health(c)) /\ UNCHANGED <<cache, cordoned, submitted>>
  BY DEF c
<1>5. Saved(c.row, {}) \/ NotSaved(c.row, {})
  BY DEF c
<1>6. Handled /\ UNCHANGED <<calls, crashes, nextId>>
  BY <1>3, <1>4, BecomeKeeps
<1>7. Tables
  BY <1>2, <1>4, <1>5, <1>6, SavedKeeps
<1> QED
  BY <1>4, <1>6, <1>7, StepKeeps DEF OwnInv, TypeOK

(* The next row of listClusters.                                           *)
LEMMA NextRowKeeps ==
  ASSUME OwnInv, NEW h \in Handlers, NextRow(h)
  PROVE  OwnInv'
<1> DEFINE c == handler[h]
           r == Newest(c.rest)
           d == [c EXCEPT !.row = r, !.rest = @ \ {r}]
           e == IF r.versions THEN Health(d) ELSE FetchFor(d, "detect")
<1>1. Sound(c) /\ c.at = "next"
  BY HandlerSound DEF NextRow, At
<1>2. Fine(e)
  BY <1>1, NextRowFine
<1>3. Become(h, e) /\ UNCHANGED <<clusters, cache, cordoned, submitted, mishaps>>
  BY DEF NextRow
<1> HIDE DEF e
<1> QED
  BY <1>2, <1>3, OwnStepKeeps

(* The final db.Save of updateCluster and testCluster.                     *)
LEMMA SaveRowKeeps ==
  ASSUME OwnInv, NEW h \in Handlers, SaveRow(h)
  PROVE  OwnInv'
<1> DEFINE c == handler[h]
<1>1. Sound(c) /\ Known(c.row)
  BY HandlerSound DEF SaveRow, At, Sound, Copies
<1>2. Fine(Health(c)) /\ Fine(Nothing)
  BY <1>1, HealthFine DEF Sound, Fine
<1>3. /\ Become(h, Health(c)) \/ Become(h, Nothing)
      /\ Saved(c.row, {}) \/ NotSaved(c.row, {})
      /\ UNCHANGED <<cache, cordoned, submitted>>
  BY DEF SaveRow
<1>4. Handled /\ UNCHANGED <<calls, crashes, nextId>>
  BY <1>2, <1>3, BecomeKeeps
<1>5. Tables
  BY <1>1, <1>3, <1>4, SavedKeeps
<1> QED
  BY <1>3, <1>4, <1>5, StepKeeps DEF OwnInv, TypeOK

(* db.Delete; the cache may be filled again, but only under this id.       *)
LEMMA DeleteRowKeeps ==
  ASSUME OwnInv, NEW h \in Handlers, DeleteRow(h)
  PROVE  OwnInv'
<1> DEFINE c == handler[h]
<1>1. Sound(c) /\ Known(c.row)
  BY HandlerSound DEF DeleteRow, At, Sound, Copies
<1>2. Fine(Nothing)
  BY DEF Fine
<1>3. /\ Become(h, Nothing) /\ UNCHANGED <<cache, cordoned, submitted>>
      /\ \/ clusters' = Without(clusters, c.row.id) /\ UNCHANGED mishaps
         \/ NotSaved(c.row, {})
  BY DEF DeleteRow
<1>4. Handled /\ UNCHANGED <<calls, crashes, nextId>>
  BY <1>2, <1>3, BecomeKeeps
<1>5. Tables
  <2>1. CASE clusters' = Without(clusters, c.row.id) /\ UNCHANGED mishaps
    <3>1. clusters' \subseteq clusters
      BY <2>1 DEF Without
    <3> QED
      BY <1>3, <1>4, <2>1, <3>1 DEF Tables, OwnInv, TypeOK, Known
  <2>2. CASE NotSaved(c.row, {})
    BY <1>1, <1>3, <1>4, <2>2, SavedKeeps
  <2> QED
    BY <1>3, <2>1, <2>2
<1> QED
  BY <1>3, <1>4, <1>5, StepKeeps DEF OwnInv, TypeOK

-----------------------------------------------------------------------------
(* What an arriving request brings.                                        *)
LEMMA StartFacts ==
  ASSUME NEW op \in Ops, NEW at \in Steps, NEW row \in Rows
  PROVE  LET c == Start(op, at, row)
         IN /\ c \in Calls /\ c.op = op /\ c.at = at /\ c.row = row
            /\ c.rt = Nothing /\ c.rest = {}
BY DEF Start, Calls, Rows, Steps, Uses, Modes

(* updateCluster's way on.                                                 *)
LEMMA SyncFacts ==
  ASSUME NEW c \in Calls, c.rt = Nothing, NEW given
  PROVE  LET d == Sync(c, given)
         IN /\ d \in Calls /\ d.op = c.op /\ d.at \in {"invalidate", "save", "fetch"}
            /\ d.row = c.row /\ d.rt = Nothing /\ d.rest = c.rest
<1>1. ASSUME NEW at \in {"invalidate", "save"}
      PROVE  LET d == [c EXCEPT !.at = at]
             IN /\ d \in Calls /\ d.op = c.op /\ d.at = at
                /\ d.row = c.row /\ d.rt = Nothing /\ d.rest = c.rest
  <2>1. at \in Steps
    BY DEF Steps
  <2>2. [c EXCEPT !.at = at] \in Calls
    BY <2>1, Zenon DEF Calls, Steps
  <2> QED
    BY <2>2 DEF Calls
<1>2. "list" \in Uses
  BY DEF Uses
<1>3. CASE given # Nothing
  BY <1>1, <1>3 DEF Sync
<1>4. CASE given = Nothing /\ c.want = c.row.mode
  BY <1>1, <1>4 DEF Sync
<1>5. CASE given = Nothing /\ c.want # c.row.mode
  BY <1>2, <1>5, FetchForFacts DEF Sync
<1> QED
  BY <1>3, <1>4, <1>5

(* The table has given ids, and kubeconfigs have been given for ids.       *)
Grown == /\ nextId' \in 1..(MaxClusters + 1) /\ nextId <= nextId'
         /\ submitted' \in [Ids -> SUBSET Configs]
         /\ \A i \in Ids : i < nextId => submitted[i] \subseteq submitted'[i]

(* The history of who overlaps has no part in it.                          *)
LEMMA AloneSound ==
  ASSUME NEW c, Sound(c)', NEW b \in BOOLEAN
  PROVE  Sound([c EXCEPT !.alone = b])'
<1> DEFINE d == [c EXCEPT !.alone = b]
<1>1. c \in Calls
  BY DEF Sound, Copies
<1>2. d \in Calls
  BY <1>1, Zenon DEF Calls
<1>3. d.op = c.op /\ d.at = c.at /\ d.row = c.row /\ d.rt = c.rt /\ d.rest = c.rest
  BY <1>1 DEF Calls
<1> HIDE DEF d
<1>4. Sound(d)'
  BY <1>2, <1>3 DEF Sound, Copies
<1> QED
  BY <1>4 DEF d

(* A request arrives; the calls it meets stay what they are.               *)
LEMMA ArriveKeeps ==
  ASSUME OwnInv, Grown, NEW h \in Handlers, NEW c, Sound(c)', Arrive(h, c)
  PROVE  /\ Handled /\ calls' \in 0..MaxCalls
         /\ mishaps' \in [Ids -> SUBSET {"overlap", "unsaved", "halfway"}]
<1> DEFINE met == {g \in InFlight : On(handler[g]) \cap On(c) # {}}
<1>1. /\ calls < MaxCalls /\ calls' = calls + 1
      /\ handler' = [g \in Handlers |->
           IF g = h THEN [c EXCEPT !.alone = (met = {})]
           ELSE IF g \in met THEN [handler[g] EXCEPT !.alone = FALSE] ELSE handler[g]]
  BY DEF Arrive
<1>2. calls' \in 0..MaxCalls
  BY <1>1, BoundsAssumption DEF OwnInv, TypeOK
<1>3. mishaps' \in [Ids -> SUBSET {"overlap", "unsaved", "halfway"}]
  BY DEF Arrive, OwnInv, TypeOK
<1>4. ASSUME NEW g \in Handlers
      PROVE  Fine(handler[g])'
  <2>1. CASE g = h
    <3> SUFFICES ASSUME NEW b \in BOOLEAN, b = (met = {})
                 PROVE  Fine(handler[g])'
      OBVIOUS
    <3>1. handler'[g] = [c EXCEPT !.alone = b]
      BY <1>1, <2>1
    <3>2. Sound([c EXCEPT !.alone = b])'
      BY AloneSound
    <3> QED
      BY <3>1, <3>2 DEF Fine
  <2>2. CASE g # h
    <3> SUFFICES ASSUME NEW e, e = handler[g]
                 PROVE  Fine(handler[g])'
      OBVIOUS
    <3>1. Fine(e)'
      <4>1. Fine(e) /\ nextId \in Nat /\ nextId' \in Nat
        BY BoundsAssumption DEF OwnInv, TypeOK, Grown
      <4> QED
        BY <4>1, FineKept DEF Grown
    <3>2. CASE g \in met
      <4>1. handler'[g] = [e EXCEPT !.alone = FALSE] /\ e # Nothing
        BY <1>1, <2>2, <3>2 DEF InFlight
      <4>2. Sound(e)'
        BY <3>1, <4>1 DEF Fine
      <4>3. Sound([e EXCEPT !.alone = FALSE])'
        BY <4>2, AloneSound
      <4> QED
        BY <4>1, <4>3 DEF Fine
    <3>3. CASE g \notin met
      BY <1>1, <2>2, <3>1, <3>3
    <3> QED
      BY <3>2, <3>3
  <2> QED
    BY <2>1, <2>2
<1>5. handler' \in [Handlers -> Calls \cup {Nothing}]
  <2>1. \A g \in Handlers : handler'[g] \in Calls \cup {Nothing}
    BY <1>4 DEF Fine, Sound, Copies
  <2> QED
    BY <1>1, <2>1, Zenon
<1> QED
  BY <1>2, <1>3, <1>4, <1>5 DEF Handled

(* ... with what it brings for the table.                                  *)
LEMMA RequestKeeps ==
  ASSUME OwnInv, Grown, NEW h \in Handlers, NEW c, Sound(c)', Arrive(h, c),
         clusters' \in SUBSET Rows, \A r \in clusters' : Known(r)',
         UNCHANGED <<cache, cordoned, crashes>>
  PROVE  OwnInv'
<1>1. /\ Handled /\ calls' \in 0..MaxCalls
      /\ mishaps' \in [Ids -> SUBSET {"overlap", "unsaved", "halfway"}]
  BY ArriveKeeps
<1>2. TypeOK'
  BY <1>1 DEF OwnInv, TypeOK, Handled, Grown
<1>3. \A i \in Ids : cache'[i] # Nothing => i < nextId' /\ cache'[i] \in submitted'[i]
  BY BoundsAssumption DEF OwnInv, TypeOK, Grown, Ids
<1> QED
  BY <1>1, <1>2, <1>3 DEF OwnInv, Handled

(* A request that brings nothing new for the table.                        *)
LEMMA PlainRequestKeeps ==
  ASSUME OwnInv, NEW h \in Handlers, NEW c, Sound(c), Arrive(h, c),
         UNCHANGED <<clusters, nextId, cache, cordoned, submitted, crashes>>
  PROVE  OwnInv'
<1>1. Grown
  BY BoundsAssumption DEF OwnInv, TypeOK, Grown
<1>2. Sound(c)'
  BY DEF Sound, Copies, Known
<1>3. clusters' \in SUBSET Rows /\ \A r \in clusters' : Known(r)'
  BY DEF OwnInv, TypeOK, Known
<1> QED
  BY <1>1, <1>2, <1>3, RequestKeeps

(* getCluster and listClusters start with copies of rows of the table.     *)
LEMMA ViewKeeps ==
  ASSUME OwnInv, NEW h \in Handlers, View(h)
  PROVE  OwnInv'
<1>1. PICK rows \in {clusters} \cup {{r} : r \in clusters} :
        rows # {} /\ Arrive(h, [Start("view", "next", Newest(rows)) EXCEPT !.rest = rows])
  BY DEF View
<1>2. rows \in SUBSET Rows /\ \A r \in rows : Known(r)
  BY DEF OwnInv, TypeOK
<1>3. Newest(rows) \in rows
  BY <1>1, <1>2, NewestFacts
<1> DEFINE s == Start("view", "next", Newest(rows))
           c == [s EXCEPT !.rest = rows]
<1>4. s \in Calls /\ s.at = "next" /\ s.row = Newest(rows) /\ s.rt = Nothing
  BY <1>2, <1>3, StartFacts DEF Ops, Steps
<1> HIDE DEF s
<1>5. c \in Calls
  BY <1>2, <1>4, Zenon DEF Calls
<1>6. c.at = "next" /\ c.row = s.row /\ c.rt = Nothing /\ c.rest = rows
  BY <1>4 DEF Calls
<1>7. Arrive(h, c)
  BY <1>1 DEF s
<1> HIDE DEF c
<1>8. Sound(c)
  BY <1>1, <1>2, <1>3, <1>4, <1>5, <1>6 DEF Sound, Copies, Uses
<1> QED
  BY <1>7, <1>8, PlainRequestKeeps DEF View

(* createCluster: the id is new, and the kubeconfig is given for it.       *)
LEMMA CreateKeeps ==
  ASSUME OwnInv, NEW h \in Handlers, Create(h)
  PROVE  OwnInv'
<1> SUFFICES ASSUME NEW n, n = nextId
             PROVE  OwnInv'
  OBVIOUS
<1>1. PICK k \in Configs, m \in AskedModes, known \in ProbedVersions :
        LET row == [id |-> n, cfg |-> k, mode |-> m, status |-> "connected",
                    versions |-> known]
            s == Start("create", "fetch", row)
        IN
        /\ nextId <= MaxClusters /\ nextId' = nextId + 1
        /\ clusters' = clusters \cup {row}
        /\ submitted' = [submitted EXCEPT ![nextId] = {k}]
        /\ Arrive(h, FetchFor(s, IF m = "maintenance" THEN "list" ELSE "health"))
        /\ UNCHANGED <<cache, cordoned, crashes>>
  BY DEF Create
<1> DEFINE row == [id |-> n, cfg |-> k, mode |-> m, status |-> "connected",
                   versions |-> known]
           why == IF m = "maintenance" THEN "list" ELSE "health"
           s == Start("create", "fetch", row)
           d == FetchFor(s, why)
<1>2. nextId \in Ids /\ nextId \in Nat /\ m \in Modes /\ known \in BOOLEAN
  BY <1>1, BoundsAssumption DEF OwnInv, TypeOK, Ids, Modes
<1>3. row \in Rows /\ row.id = n /\ row.cfg = k
  BY <1>2 DEF Rows
<1>4. /\ nextId <= MaxClusters /\ nextId' = nextId + 1
      /\ clusters' = clusters \cup {row}
      /\ submitted' = [submitted EXCEPT ![nextId] = {k}]
      /\ Arrive(h, d) /\ UNCHANGED <<cache, cordoned, crashes>>
  BY <1>1
<1> HIDE DEF row
<1>5. Grown /\ submitted'[nextId] = {k}
  BY <1>2, <1>4, BoundsAssumption DEF OwnInv, TypeOK, Grown
<1>6. Known(row)'
  BY <1>2, <1>3, <1>4, <1>5 DEF Known
<1>7. clusters' \in SUBSET Rows /\ \A r \in clusters' : Known(r)'
  <2>1. ASSUME NEW r \in clusters
        PROVE  r \in Rows /\ Known(r)'
    <3>1. r \in Rows /\ Known(r)
      BY DEF OwnInv, TypeOK
    <3> QED
      BY <1>2, <1>4, <1>5, <3>1 DEF Known, Rows, Ids, Grown
  <2> QED
    BY <1>3, <1>4, <1>6, <2>1
<1>8. Sound(d)'
  <2>1. s \in Calls /\ s.row = row /\ s.rt = Nothing /\ s.rest = {}
    <3>1. "create" \in Ops /\ "fetch" \in Steps
      BY DEF Ops, Steps
    <3> QED
      BY <1>3, <3>1, StartFacts
  <2>2. why \in Uses
    BY DEF Uses
  <2> HIDE DEF s, why
  <2>3. d \in Calls /\ d.at = "fetch" /\ d.row = row /\ d.rt = Nothing /\ d.rest = {}
    BY <2>1, <2>2, FetchForFacts
  <2> HIDE DEF d
  <2> QED
    BY <1>6, <2>3 DEF Sound, Copies, Uses
<1> HIDE DEF d
<1> QED
  BY <1>4, <1>5, <1>7, <1>8, RequestKeeps

(* updateCluster: a new kubeconfig is given for the row's id.              *)
LEMMA UpdateKeeps ==
  ASSUME OwnInv, NEW h \in Handlers, Update(h)
  PROVE  OwnInv'
<1>1. PICK r \in clusters, given \in Configs \cup {Nothing}, m \in AskedModes,
           known \in ProbedVersions :
        LET row == IF given = Nothing THEN r
                   ELSE [r EXCEPT !.cfg = given, !.status = "connected", !.versions = known]
            c == [Start("update", "save", row) EXCEPT !.want = m]
        IN
        /\ submitted' = IF given = Nothing THEN submitted
                        ELSE [submitted EXCEPT ![r.id] = @ \cup {given}]
        /\ Arrive(h, Sync(c, given))
        /\ UNCHANGED <<clusters, nextId, cache, cordoned, crashes>>
  BY DEF Update
<1> DEFINE row == IF given = Nothing THEN r
                  ELSE [r EXCEPT !.cfg = given, !.status = "connected", !.versions = known]
           s == Start("update", "save", row)
           c == [s EXCEPT !.want = m]
           d == Sync(c, given)
<1>2. /\ submitted' = IF given = Nothing THEN submitted
                      ELSE [submitted EXCEPT ![r.id] = @ \cup {given}]
      /\ Arrive(h, d) /\ UNCHANGED <<clusters, nextId, cache, cordoned, crashes>>
  BY <1>1
<1>3. r \in Rows /\ Known(r) /\ m \in Modes /\ known \in BOOLEAN
  BY BoundsAssumption DEF OwnInv, TypeOK, Modes
<1>4. /\ row \in Rows /\ row.id = r.id
      /\ row.cfg = IF given = Nothing THEN r.cfg ELSE given
  <2>1. CASE given = Nothing
    BY <1>3, <2>1
  <2>2. CASE given # Nothing
    <3> DEFINE new == [r EXCEPT !.cfg = given, !.status = "connected", !.versions = known]
    <3>1. given \in Configs
      BY <2>2
    <3>2. new \in Rows
      BY <1>3, <3>1, Zenon DEF Rows
    <3>3. new.id = r.id /\ new.cfg = given
      BY <1>3 DEF Rows
    <3> QED
      BY <2>2, <3>2, <3>3
  <2> QED
    BY <2>1, <2>2
<1> HIDE DEF row
<1>5. Grown
  BY <1>2, <1>3, BoundsAssumption DEF OwnInv, TypeOK, Grown, Known, Rows
<1>6. Known(row)'
  BY <1>2, <1>3, <1>4 DEF Known, OwnInv, TypeOK, Rows
<1>7. clusters' \in SUBSET Rows /\ \A q \in clusters' : Known(q)'
  <2>1. ASSUME NEW q \in clusters
        PROVE  q \in Rows /\ Known(q)'
    <3>1. q \in Rows /\ Known(q)
      BY DEF OwnInv, TypeOK
    <3> QED
      BY <1>2, <1>5, <3>1 DEF Known, Rows, Ids, Grown
  <2> QED
    BY <1>2, <2>1
<1>8. Sound(d)'
  <2>1. s \in Calls /\ s.op = "update" /\ s.row = row /\ s.rt = Nothing /\ s.rest = {}
    BY <1>4, StartFacts DEF Ops, Steps
  <2> HIDE DEF s
  <2>2. c \in Calls
    BY <1>3, <2>1, Zenon DEF Calls
  <2>3. c.op = "update" /\ c.row = row /\ c.rt = Nothing /\ c.rest = {}
    BY <2>1 DEF Calls
  <2> HIDE DEF c
  <2>4. /\ d \in Calls /\ d.op = "update" /\ d.at \in {"invalidate", "save", "fetch"}
        /\ d.row = row /\ d.rt = Nothing /\ d.rest = {}
    BY <2>2, <2>3, SyncFacts
  <2> HIDE DEF d
  <2> QED
    BY <1>6, <2>4 DEF Sound, Copies, Uses, Changers
<1> HIDE DEF d
<1> QED
  BY <1>2, <1>5, <1>7, <1>8, RequestKeeps

(* deleteCluster, testCluster and the handlers that only use the runtime.  *)
LEMMA DeleteTestUseKeeps ==
  ASSUME OwnInv, NEW h \in Handlers, DeleteTestUse(h)
  PROVE  OwnInv'
<1>1. PICK r \in clusters :
        \/ Arrive(h, Start("delete", "invalidate", r))
        \/ Arrive(h, Start("test", "invalidate", r))
        \/ Arrive(h, FetchFor(Start("use", "fetch", r), "call"))
  BY DEF DeleteTestUse
<1>2. r \in Rows /\ Known(r)
  BY DEF OwnInv, TypeOK
<1>3. ASSUME NEW op \in {"delete", "test"}
      PROVE  Sound(Start(op, "invalidate", r))
  <2> DEFINE s == Start(op, "invalidate", r)
  <2>1. /\ s \in Calls /\ s.op = op /\ s.at = "invalidate" /\ s.row = r
        /\ s.rt = Nothing /\ s.rest = {}
    <3>1. op \in Ops /\ "invalidate" \in Steps
      BY DEF Ops, Steps
    <3> QED
      BY <1>2, <3>1, StartFacts
  <2> HIDE DEF s
  <2>2. Sound(s)
    BY <1>2, <2>1 DEF Sound, Copies, Uses, Changers
  <2> QED
    BY <2>2 DEF s
<1>4. Sound(FetchFor(Start("use", "fetch", r), "call"))
  <2> DEFINE s == Start("use", "fetch", r)
  <2>1. s \in Calls /\ s.row = r /\ s.rest = {}
    <3>1. "use" \in Ops /\ "fetch" \in Steps
      BY DEF Ops, Steps
    <3> QED
      BY <1>2, <3>1, StartFacts
  <2> HIDE DEF s
  <2>2. Copies(s)
    BY <1>2, <2>1 DEF Copies
  <2>3. Sound(FetchFor(s, "call"))
    BY <2>2, FetchForSound DEF Uses
  <2> QED
    BY <2>3 DEF s
<1>5. UNCHANGED <<clusters, nextId, cache, cordoned, submitted, crashes>>
  BY DEF DeleteTestUse
<1> QED
  BY <1>1, <1>3, <1>4, <1>5, PlainRequestKeeps

(* The cache and the handlers are gone, the table stays.                   *)
LEMMA RestartKeeps ==
  ASSUME OwnInv, Restart
  PROVE  OwnInv'
<1>1. TypeOK'
  BY BoundsAssumption DEF OwnInv, TypeOK, Restart
<1>2. \A r \in clusters' : Known(r)'
  BY DEF OwnInv, Known, Restart
<1>3. \A h \in Handlers : Fine(handler[h])'
  BY DEF Restart, Fine
<1>4. \A i \in Ids : cache'[i] = Nothing
  BY DEF Restart
<1> QED
  BY <1>1, <1>2, <1>3, <1>4 DEF OwnInv

-----------------------------------------------------------------------------
(* Empty tables, an empty cache and idle handlers.                         *)
LEMMA InitOwn == Init => OwnInv
BY BoundsAssumption DEF Init, OwnInv, TypeOK, Fine, Ids

(* Every step keeps the invariant.                                         *)
LEMMA NextOwn == OwnInv /\ [Next]_vars => OwnInv'
<1> SUFFICES ASSUME OwnInv, [Next]_vars
             PROVE  OwnInv'
  OBVIOUS
<1>1. CASE UNCHANGED vars
  <2>1. UNCHANGED <<cache, cordoned, calls, crashes, handler>> /\ Tables
    BY <1>1, TablesKept DEF vars
  <2>2. Handled
    BY <1>1 DEF vars, OwnInv, TypeOK, Handled, Fine, Sound, Copies, Known
  <2> QED
    BY <1>1, <2>1, <2>2, StepKeeps DEF vars, OwnInv, TypeOK
<1>2. CASE Restart
  BY <1>2, RestartKeeps
<1>3. ASSUME NEW h \in Handlers, Request(h)
      PROVE  OwnInv'
  BY <1>3, ViewKeeps, CreateKeeps, UpdateKeeps, DeleteTestUseKeeps DEF Request
<1>4. ASSUME NEW h \in Handlers, Step(h)
      PROVE  OwnInv'
  <2>1. CASE Fetch(h) \/ StoreRuntime(h) \/ Invalidate(h)
    BY <2>1, FetchKeeps, StoreRuntimeKeeps, InvalidateKeeps
  <2>2. CASE ListWorkers(h) \/ PatchWorker(h)
    BY <2>2, ListWorkersKeeps, PatchWorkerKeeps
  <2>3. CASE CallServer(h) \/ CheckHealth(h) \/ DetectVersions(h) \/ NextRow(h)
    BY <2>3, CallServerKeeps, CheckHealthKeeps, DetectVersionsKeeps, NextRowKeeps
  <2>4. CASE SaveRow(h) \/ DeleteRow(h)
    BY <2>4, SaveRowKeeps, DeleteRowKeeps
  <2> QED
    BY <1>4, <2>1, <2>2, <2>3, <2>4 DEF Step
<1> QED
  BY <1>1, <1>2, <1>3, <1>4 DEF Next

(* The invariant is stronger than the property.                            *)
LEMMA OwnImplies == OwnInv => RuntimeIsOwn
BY DEF OwnInv, RuntimeIsOwn, InFlight, Fine, Sound

(* Whatever handlers do to one another, whatever fails and whenever the    *)
(* server restarts: the cached runtime of a cluster, and the one a handler *)
(* of it works with, was built from a kubeconfig given for that cluster.   *)
(* An entry stored after deleteCluster has invalidated it never serves     *)
(* another cluster, because the table gives no id twice.                   *)
THEOREM RuntimeIsOwnHolds == Spec => []RuntimeIsOwn
<1>1. Init => OwnInv
  BY InitOwn
<1>2. OwnInv /\ [Next]_vars => OwnInv'
  BY NextOwn
<1>3. OwnInv => RuntimeIsOwn
  BY OwnImplies
<1> QED
  BY <1>1, <1>2, <1>3, PTL DEF Spec

(* The tables, the cache, the nodes and the handlers' calls have their     *)
(* types in every state.                                                   *)
THEOREM ControlTypesHold == Spec => []TypeOK
<1>1. Init => OwnInv
  BY InitOwn
<1>2. OwnInv /\ [Next]_vars => OwnInv'
  BY NextOwn
<1>3. OwnInv => TypeOK
  BY DEF OwnInv
<1> QED
  BY <1>1, <1>2, <1>3, PTL DEF Spec

(***************************************************************************)
(* What modes, the test and the cache promise.                             *)
(*                                                                         *)
(* The invariant says what an open request may assume of the row it holds: *)
(* unless somebody else was on it, its copy is the table's, and the cache  *)
(* has nothing or the kubeconfig of the copy.  The one exception is a      *)
(* request that still carries a mode or a kubeconfig to the nodes, and     *)
(* that one has the row to itself.                                         *)
(***************************************************************************)
Held(c) == {c.row} \cup c.rest

(* A request that still carries a mode or a kubeconfig to the nodes: what  *)
(* it holds of the row is not yet in the table.                            *)
Switching(c) == c.op \in {"create", "update"} /\ (c.at = "invalidate" \/ c.why = "list")

SwitchedBy(i) == \E h \in InFlight : handler[h].row.id = i /\ Switching(handler[h])

(* Nothing but a request that stopped halfway has gone wrong on id i.      *)
Quiet(i) == mishaps[i] \subseteq {"halfway"}

(* Which request is at which step, and why.                                *)
Shape(c) ==
  /\ c.at \in Uses => c.at = c.why
  /\ c.at = "patch" => c.why = "list"
  /\ c.why = "list" => c.op \in {"create", "update"}
  /\ c.op # "view" => c.rest = {}
  /\ c.at = "delete" => c.op \in {"create", "delete"}
  /\ c.op = "create" /\ c.at \in {"invalidate", "delete"} => c.why = "list"
  /\ c.op = "test" => c.why \in {"call", "health"}
  /\ c.op = "test" /\ c.at \in {"invalidate", "save"} => c.why = "call"

(* The table has x but for what is learnt of the cluster.                  *)
Kept(x) == \E r \in clusters : r.id = x.id /\ r.cfg = x.cfg /\ r.mode = x.mode

CopyOK(c, x) ==
  Quiet(x.id) =>
    /\ (Switching(c) /\ c.at = "invalidate") \/ cache[x.id] \in {Nothing, x.cfg}
    /\ Switching(c) \/ Kept(x)

(* The workers the request has yet to patch include all not as wanted.     *)
SwitchOK(c) ==
  Switching(c) /\ Quiet(c.row.id) =>
    /\ c.at \in {"list", "patch"} => c.rt = c.row.cfg
    /\ Unshared(c.row) =>
         /\ c.at = "patch" => IF c.want = "maintenance"
                              THEN Workers \subseteq cordoned[c.row.cfg] \cup c.nodes
                              ELSE cordoned[c.row.cfg] \subseteq c.nodes
         /\ c.at = "save" => NodesFollow(c.row)

(* testCluster empties the cache and fills it from the row it read.        *)
HealOK(c) ==
  c.op = "test" /\ c.alone /\ c.why = "call" =>
    /\ \E r \in clusters : r.id = c.row.id /\ r.cfg = c.row.cfg
    /\ c.at \in {"fetch", "store"} => cache[c.row.id] = Nothing
    /\ c.at \in {"call", "save"} => c.rt = c.row.cfg /\ cache[c.row.id] = c.row.cfg

CallOK(c) == Shape(c) /\ SwitchOK(c) /\ HealOK(c) /\ \A x \in Held(c) : CopyOK(c, x)

(* Two requests on one row know of each other, and so does its history.    *)
Apart(b, c) ==
  \A i \in On(b) \cap On(c) :
    /\ ~ b.alone /\ ~ c.alone
    /\ {b.op, c.op} \cap Changers # {} => "overlap" \in mishaps[i]

RowOK(r) ==
  /\ Quiet(r.id) => cache[r.id] \in {Nothing, r.cfg} \/ SwitchedBy(r.id)
  /\ r.mode = "maintenance" /\ mishaps[r.id] = {} /\ Unshared(r)
     => NodesFollow(r) \/ SwitchedBy(r.id)

Promised ==
  /\ \A i \in Ids : i >= nextId => submitted[i] = {}
  /\ \A r, s \in clusters : r.id = s.id => r = s
  /\ \A r \in clusters : RowOK(r)
  /\ \A h \in Handlers : handler[h] # Nothing => CallOK(handler[h])
  /\ \A g, h \in Handlers : g # h /\ handler[g] # Nothing /\ handler[h] # Nothing
                            => Apart(handler[g], handler[h])

-----------------------------------------------------------------------------
(* A step of request c touches its own row, entry of the cache and nodes,  *)
(* and one that changes nothing about the row leaves c's copy good.        *)
Touches(c) ==
  /\ nextId' = nextId /\ submitted' = submitted
  /\ \A i \in Ids : i # c.row.id => cache'[i] = cache[i] /\ mishaps'[i] = mishaps[i]
  /\ \A i \in Ids : mishaps[i] \subseteq mishaps'[i]
  /\ \A r \in Rows : r.id # c.row.id => (r \in clusters' <=> r \in clusters)
  /\ \A r, s \in clusters' : r.id = c.row.id /\ s.id = c.row.id => r = s
  /\ \A k \in Configs : cordoned'[k] = cordoned[k] \/ (c.at = "patch" /\ k = c.rt)
  /\ c.op \in Changers \/ CopyOK(c, c.row)'

(* The copies of a row that nobody changes are all alike.                  *)
LEMMA CopyKept ==
  ASSUME OwnInv, Promised, NEW c, Sound(c), Touches(c), CopyOK(c, c.row),
         NEW b, NEW x \in Rows, CopyOK(b, x),
         x.id = c.row.id /\ Quiet(x.id) => c.op \notin Changers /\ b.op \notin Changers
  PROVE  CopyOK(b, x)'
<1>1. x.id \in Ids /\ c.row.id \in Ids /\ clusters \subseteq Rows
  BY DEF OwnInv, TypeOK, Sound, Copies, Known, Rows
<1>2. SUFFICES ASSUME Quiet(x.id)'
               PROVE  /\ (Switching(b) /\ b.at = "invalidate") \/ cache'[x.id] \in {Nothing, x.cfg}
                      /\ Switching(b) \/ Kept(x)'
  BY DEF CopyOK
<1>3. Quiet(x.id)
  BY <1>1, <1>2 DEF Quiet, Touches
<1>4. CASE x.id # c.row.id
  <2>1. cache'[x.id] = cache[x.id]
    BY <1>1, <1>4 DEF Touches
  <2>2. Kept(x) => Kept(x)'
    BY <1>1, <1>4 DEF Kept, Touches
  <2> QED
    BY <1>3, <2>1, <2>2 DEF CopyOK
<1>5. CASE x.id = c.row.id
  <2>1. c.op \notin Changers /\ b.op \notin Changers
    BY <1>3, <1>5
  <2>2. ~ Switching(b) /\ ~ Switching(c)
    BY <2>1 DEF Switching, Changers
  <2>3. Kept(x) /\ Kept(c.row)
    BY <1>3, <1>5, <2>2 DEF CopyOK
  <2>4. x.cfg = c.row.cfg /\ x.mode = c.row.mode
    BY <1>5, <2>3 DEF Kept, Promised
  <2>5. cache'[c.row.id] \in {Nothing, c.row.cfg} /\ Kept(c.row)'
    BY <1>2, <1>5, <2>1, <2>2 DEF Touches, CopyOK
  <2> QED
    BY <1>5, <2>4, <2>5 DEF Kept
<1> QED
  BY <1>4, <1>5

(* Two requests on a row that has no overlap in its history: neither       *)
(* changes it, nor does either have it to itself.                          *)
LEMMA ApartFacts ==
  ASSUME Promised, NEW g \in Handlers, NEW h \in Handlers, g # h,
         handler[g] # Nothing, handler[h] # Nothing,
         NEW i \in On(handler[g]) \cap On(handler[h])
  PROVE  /\ ~ handler[g].alone /\ ~ handler[h].alone
         /\ Quiet(i) => handler[g].op \notin Changers /\ handler[h].op \notin Changers
<1>1. Apart(handler[g], handler[h])
  BY DEF Promised
<1> QED
  BY <1>1 DEF Apart, Quiet

LEMMA HeldOn ==
  ASSUME NEW c, NEW x \in Held(c)
  PROVE  x.id \in On(c)
BY DEF Held, On

(* What the others may rely on survives a step of request c.               *)
LEMMA OthersKept ==
  ASSUME OwnInv, Promised, NEW h \in Handlers, NEW c, c = handler[h], c # Nothing, Touches(c),
         NEW g \in Handlers, g # h, NEW b, b = handler[g], b # Nothing
  PROVE  CallOK(b)'
<1>1. Sound(c) /\ Sound(b) /\ c \in Calls /\ b \in Calls
  BY HandlerSound
<1>2. CallOK(c) /\ CallOK(b)
  BY DEF Promised
<1>3. /\ c.row \in Rows /\ c.row.id \in Ids /\ b.row \in Rows /\ b.row.id \in Ids
      /\ b.row.cfg \in Configs /\ b.rest \subseteq Rows
  BY <1>1 DEF Calls, Rows
<1>4. c.row \in Held(c) /\ b.row \in Held(b) /\ Held(b) \subseteq Rows
  BY <1>3 DEF Held
<1>5. ASSUME NEW i \in On(b), i = c.row.id
      PROVE  ~ b.alone /\ (Quiet(i) => b.op \notin Changers /\ c.op \notin Changers)
  <2>1. i \in On(handler[g]) \cap On(handler[h])
    BY <1>4, <1>5, HeldOn
  <2> QED
    BY <2>1, ApartFacts
<1>6. CopyOK(c, c.row)
  BY <1>2, <1>4 DEF CallOK
<1>7. ASSUME NEW x \in Held(b)
      PROVE  CopyOK(b, x)'
  <2>1. CopyOK(b, x) /\ x.id \in On(b) /\ x \in Rows
    BY <1>2, <1>4, HeldOn DEF CallOK
  <2>2. x.id = c.row.id /\ Quiet(x.id) => c.op \notin Changers /\ b.op \notin Changers
    BY <1>5, <2>1
  <2> QED
    BY <1>1, <1>6, <2>1, <2>2, CopyKept
<1>8. SwitchOK(b)'
  <2> SUFFICES ASSUME Switching(b), Quiet(b.row.id)'
               PROVE  /\ b.at \in {"list", "patch"} => b.rt = b.row.cfg
                      /\ Unshared(b.row)' =>
                         /\ b.at = "patch" => IF b.want = "maintenance"
                                              THEN Workers \subseteq cordoned'[b.row.cfg] \cup b.nodes
                                              ELSE cordoned'[b.row.cfg] \subseteq b.nodes
                         /\ b.at = "save" => NodesFollow(b.row)'
    BY DEF SwitchOK
  <2>1. Quiet(b.row.id)
    BY <1>3 DEF Quiet, Touches
  <2>2. b.row.id # c.row.id
    <3>1. b.op \in Changers /\ b.row.id \in On(b)
      BY <1>4, HeldOn DEF Switching, Changers
    <3> QED
      BY <1>5, <2>1, <3>1
  <2>3. Unshared(b.row)' = Unshared(b.row)
    BY DEF Unshared, Touches
  <2>4. Unshared(b.row) => cordoned'[b.row.cfg] = cordoned[b.row.cfg]
    <3>1. c.at = "patch" => c.rt \in submitted[c.row.id]
      BY <1>1, NothingAssumption DEF Sound
    <3> QED
      BY <1>3, <2>2, <3>1 DEF Touches, Unshared
  <2> QED
    BY <1>2, <2>1, <2>3, <2>4 DEF CallOK, SwitchOK, NodesFollow
<1>9. HealOK(b)'
  <2> SUFFICES ASSUME b.op = "test", b.alone, b.why = "call"
               PROVE  /\ \E r \in clusters' : r.id = b.row.id /\ r.cfg = b.row.cfg
                      /\ b.at \in {"fetch", "store"} => cache'[b.row.id] = Nothing
                      /\ b.at \in {"call", "save"} =>
                            b.rt = b.row.cfg /\ cache'[b.row.id] = b.row.cfg
    BY DEF HealOK
  <2>1. b.row.id # c.row.id
    BY <1>4, <1>5, HeldOn
  <2>2. clusters \subseteq Rows
    BY DEF OwnInv, TypeOK
  <2> QED
    BY <1>2, <1>3, <2>1, <2>2 DEF CallOK, HealOK, Touches
<1>10. Shape(b)'
  BY <1>2 DEF CallOK, Shape
<1> QED
  BY <1>7, <1>8, <1>9, <1>10 DEF CallOK


(* Whoever switches another row goes on doing so.                          *)
LEMMA SwitchedByKept ==
  ASSUME OwnInv, NEW h \in Handlers, NEW c, c = handler[h], NEW d,
         handler' = [handler EXCEPT ![h] = d], NEW i, i # c.row.id, SwitchedBy(i)
  PROVE  SwitchedBy(i)'
<1>1. PICK g \in InFlight : handler[g].row.id = i /\ Switching(handler[g])
  BY DEF SwitchedBy
<1>2. g \in Handlers /\ g # h
  BY <1>1 DEF InFlight
<1>3. handler'[g] = handler[g]
  BY <1>2 DEF OwnInv, TypeOK
<1>4. g \in InFlight'
  BY <1>1, <1>3 DEF InFlight
<1> QED
  BY <1>1, <1>3, <1>4 DEF SwitchedBy, Switching

(* The rows a step does not touch.                                         *)
LEMMA AwayKept ==
  ASSUME OwnInv, Promised, NEW h \in Handlers, NEW c, c = handler[h], c # Nothing, Touches(c),
         NEW d, handler' = [handler EXCEPT ![h] = d],
         NEW r \in clusters, r.id # c.row.id
  PROVE  RowOK(r)'
<1>1. RowOK(r) /\ r.id \in Ids /\ r.cfg \in Configs /\ c.row.id \in Ids
  BY HandlerSound DEF Promised, OwnInv, TypeOK, Rows, Calls
<1>2. cache'[r.id] = cache[r.id] /\ mishaps'[r.id] = mishaps[r.id]
  BY <1>1 DEF Touches
<1>3. SwitchedBy(r.id) => SwitchedBy(r.id)'
  BY SwitchedByKept
<1>4. Unshared(r)' = Unshared(r)
  BY DEF Unshared, Touches
<1>5. Unshared(r) => cordoned'[r.cfg] = cordoned[r.cfg]
  <2>1. c.at = "patch" => c.rt \in submitted[c.row.id]
    BY HandlerSound, NothingAssumption DEF Sound
  <2> QED
    BY <1>1, <2>1 DEF Touches, Unshared
<1>6. Quiet(r.id)' => Quiet(r.id)
  BY <1>2 DEF Quiet
<1> QED
  BY <1>1, <1>2, <1>3, <1>4, <1>5, <1>6 DEF RowOK, NodesFollow

(* What a request goes on with: it never turns to another row.             *)
Goes(c, d) == d.op = c.op /\ d.alone = c.alone /\ On(d) \subseteq On(c)

LEMMA ApartKept ==
  ASSUME OwnInv, Promised, NEW h \in Handlers, NEW c, c = handler[h], c # Nothing, Touches(c),
         NEW d, d = Nothing \/ Goes(c, d), handler' = [handler EXCEPT ![h] = d]
  PROVE  (\A f, g \in Handlers : f # g /\ handler[f] # Nothing /\ handler[g] # Nothing
                                 => Apart(handler[f], handler[g]))'
<1> SUFFICES ASSUME NEW f \in Handlers, NEW g \in Handlers, f # g,
                    NEW a, a = handler'[f], NEW b, b = handler'[g], a # Nothing, b # Nothing
             PROVE  Apart(a, b)'
  OBVIOUS
<1>1. /\ handler[f] # Nothing /\ Goes(handler[f], a)
      /\ handler[g] # Nothing /\ Goes(handler[g], b)
  BY DEF OwnInv, TypeOK, Goes
<1>2. Apart(handler[f], handler[g])
  BY <1>1 DEF Promised
<1> SUFFICES ASSUME NEW i \in On(a) \cap On(b)
             PROVE  /\ ~ a.alone /\ ~ b.alone
                    /\ {a.op, b.op} \cap Changers # {} => "overlap" \in mishaps'[i]
  BY DEF Apart
<1>3. i \in On(handler[f]) \cap On(handler[g])
  BY <1>1 DEF Goes
<1>4. i \in Ids
  BY <1>1, <1>3, HandlerSound DEF On, Calls, Rows
<1> QED
  BY <1>1, <1>2, <1>3, <1>4 DEF Apart, Goes, Touches

(* Enough for a step: what the request itself may rely on, and its row.    *)
LEMMA StepPromised ==
  ASSUME OwnInv, OwnInv', Promised,
         NEW h \in Handlers, NEW c, c = handler[h], c # Nothing, Touches(c),
         NEW d, handler' = [handler EXCEPT ![h] = d],
         d = Nothing \/ (Goes(c, d) /\ CallOK(d)'),
         \A r \in clusters' : r.id = c.row.id => RowOK(r)'
  PROVE  Promised'
<1>1. clusters \subseteq Rows /\ clusters' \subseteq Rows
  BY DEF OwnInv, TypeOK
<1>2. (\A r, s \in clusters : r.id = s.id => r = s)'
  <2> SUFFICES ASSUME NEW r \in clusters', NEW s \in clusters', r.id = s.id
               PROVE  r = s
    OBVIOUS
  <2> QED
    BY <1>1 DEF Touches, Promised
<1>3. (\A r \in clusters : RowOK(r))'
  <2> SUFFICES ASSUME NEW r \in clusters'
               PROVE  RowOK(r)'
    OBVIOUS
  <2>1. CASE r.id = c.row.id
    BY <2>1
  <2>2. CASE r.id # c.row.id
    <3>1. r \in clusters
      BY <1>1, <2>2 DEF Touches
    <3> QED
      BY <2>2, <3>1, AwayKept
  <2> QED
    BY <2>1, <2>2
<1>4. ASSUME NEW g \in Handlers, NEW b, b = handler'[g], b # Nothing
      PROVE  CallOK(b)'
  <2>1. CASE g = h
    BY <1>4, <2>1 DEF OwnInv, TypeOK
  <2>2. CASE g # h
    <3>1. b = handler[g]
      BY <1>4, <2>2 DEF OwnInv, TypeOK
    <3> QED
      BY <1>4, <2>2, <3>1, OthersKept
  <2> QED
    BY <2>1, <2>2
<1>5. (\A f, g \in Handlers : f # g /\ handler[f] # Nothing /\ handler[g] # Nothing
                              => Apart(handler[f], handler[g]))'
  BY ApartKept
<1>6. (\A g \in Handlers : handler[g] # Nothing => CallOK(handler[g]))'
  <2> SUFFICES ASSUME NEW g \in Handlers, NEW b, b = handler'[g], b # Nothing
               PROVE  CallOK(b)'
    OBVIOUS
  <2> QED
    BY <1>4
<1>7. (\A i \in Ids : i >= nextId => submitted[i] = {})'
  BY DEF Promised, Touches
<1> QED
  BY <1>2, <1>3, <1>5, <1>6, <1>7 DEF Promised


-----------------------------------------------------------------------------
Alike(x, y) == x.id = y.id /\ x.cfg = y.cfg /\ x.mode = y.mode

(* The histories of the other rows stay, that of c's may get longer.       *)
Remembers(c) ==
  /\ \A i \in Ids : i # c.row.id => mishaps'[i] = mishaps[i]
  /\ \A i \in Ids : mishaps[i] \subseteq mishaps'[i]

LEMMA RememberFacts ==
  ASSUME OwnInv, NEW c, NEW what, Remember(c.row.id, what)
  PROVE  Remembers(c) /\ (c.row.id \in Ids => mishaps'[c.row.id] = mishaps[c.row.id] \cup what)
BY DEF OwnInv, TypeOK, Remember, Remembers

(* What a request not switching does to the table: nothing, or it saves a  *)
(* row that is like its copy in all that matters here.                     *)
SavesAlike(c) == \/ clusters' = clusters
                 \/ \E row \in Rows : Alike(row, c.row) /\ clusters' = Upsert(clusters, row)

LEMMA UpsertFacts ==
  ASSUME NEW T, NEW x
  PROVE  /\ \A r : r.id # x.id => (r \in Upsert(T, x) <=> r \in T)
         /\ \A r \in Upsert(T, x) : r.id = x.id => r = x
         /\ x \in Upsert(T, x)
BY DEF Upsert

(* A step of a request that is not switching.                              *)
LEMMA PlainStep ==
  ASSUME OwnInv, OwnInv', Promised,
         NEW h \in Handlers, NEW c, c = handler[h], c # Nothing, ~ Switching(c),
         NEW d, handler' = [handler EXCEPT ![h] = d],
         UNCHANGED <<nextId, submitted, cordoned>>, SavesAlike(c), Remembers(c),
         \/ cache' = cache
         \/ \E v \in {Nothing, c.row.cfg} : cache' = [cache EXCEPT ![c.row.id] = v],
         \/ d = Nothing
         \/ /\ Goes(c, d) /\ ~ Switching(d) /\ Shape(d) /\ HealOK(d)'
            /\ \A x \in Held(d) : \E y \in Held(c) : Alike(x, y)
  PROVE  Promised'
<1>1. /\ Sound(c) /\ c \in Calls /\ CallOK(c)
      /\ c.row \in Rows /\ c.row.id \in Ids /\ c.rest \subseteq Rows
  BY HandlerSound DEF Promised, Calls, Rows
<1>2. c.row \in Held(c) /\ Held(c) \subseteq Rows
  BY <1>1 DEF Held
<1>3. CopyOK(c, c.row) /\ Shape(c)
  BY <1>1, <1>2 DEF CallOK
<1>4. clusters \subseteq Rows
  BY DEF OwnInv, TypeOK
<1>5. Quiet(c.row.id)' => Quiet(c.row.id)
  BY <1>1 DEF Quiet, Remembers
<1>6. CopyOK(c, c.row)'
  <2> SUFFICES ASSUME Quiet(c.row.id)'
               PROVE  cache'[c.row.id] \in {Nothing, c.row.cfg} /\ Kept(c.row)'
    BY DEF CopyOK
  <2>1. cache[c.row.id] \in {Nothing, c.row.cfg} /\ Kept(c.row)
    BY <1>3, <1>5 DEF CopyOK
  <2>2. cache'[c.row.id] \in {Nothing, c.row.cfg}
    BY <1>1, <2>1 DEF OwnInv, TypeOK
  <2>3. Kept(c.row)'
    BY <2>1, UpsertFacts DEF SavesAlike, Kept, Alike
  <2> QED
    BY <2>2, <2>3
<1>7. Touches(c)
  <2>1. \A i \in Ids : i # c.row.id => cache'[i] = cache[i]
    BY DEF OwnInv, TypeOK
  <2>2. \A r \in Rows : r.id # c.row.id => (r \in clusters' <=> r \in clusters)
    BY UpsertFacts DEF SavesAlike, Alike
  <2>3. \A r, s \in clusters' : r.id = c.row.id /\ s.id = c.row.id => r = s
    BY UpsertFacts DEF SavesAlike, Alike, Promised
  <2> QED
    BY <1>6, <2>1, <2>2, <2>3 DEF Touches, Remembers
<1>8. ASSUME NEW y \in Held(c)
      PROVE  CopyOK(c, y)'
  <2>1. CASE c.op \in Changers
    <3>1. y = c.row
      BY <1>3, <2>1 DEF Held, Shape, Changers
    <3> QED
      BY <1>6, <3>1
  <2>2. CASE c.op \notin Changers
    <3>1. CopyOK(c, y) /\ y \in Rows
      BY <1>1, <1>2 DEF CallOK
    <3> QED
      BY <1>1, <1>3, <1>7, <2>2, <3>1, CopyKept
  <2> QED
    BY <2>1, <2>2
<1>9. ASSUME d # Nothing
      PROVE  Goes(c, d) /\ CallOK(d)'
  <2>1. /\ Goes(c, d) /\ ~ Switching(d) /\ Shape(d) /\ HealOK(d)'
        /\ \A x \in Held(d) : \E y \in Held(c) : Alike(x, y)
    BY <1>9
  <2>2. SwitchOK(d)' /\ Shape(d)'
    BY <2>1 DEF SwitchOK, Switching, Shape
  <2>3. ASSUME NEW x \in Held(d)
        PROVE  CopyOK(d, x)'
    <3>1. PICK y \in Held(c) : Alike(x, y)
      BY <2>1
    <3>2. CopyOK(c, y)'
      BY <1>8
    <3> QED
      BY <3>1, <3>2 DEF CopyOK, Alike, Quiet, Kept, Switching
  <2> QED
    BY <2>1, <2>2, <2>3 DEF CallOK
<1>10. ASSUME NEW r \in clusters', r.id = c.row.id
       PROVE  RowOK(r)'
  <2>1. Quiet(r.id)' => cache'[r.id] \in {Nothing, r.cfg} /\ Kept(c.row)
    <3> SUFFICES ASSUME Quiet(r.id)'
                 PROVE  cache'[r.id] \in {Nothing, r.cfg} /\ Kept(c.row)
      OBVIOUS
    <3>1. cache'[c.row.id] \in {Nothing, c.row.cfg} /\ Kept(c.row)'
      BY <1>6, <1>10 DEF CopyOK, Switching
    <3>2. r.cfg = c.row.cfg
      BY <1>7, <1>10, <3>1 DEF Touches, Kept
    <3> QED
      BY <1>3, <1>5, <1>10, <3>1, <3>2 DEF CopyOK
  <2>2. ASSUME r.mode = "maintenance", mishaps'[r.id] = {}, Unshared(r)'
        PROVE  NodesFollow(r)'
    <3>1. Quiet(r.id)' /\ mishaps[r.id] = {}
      BY <1>1, <1>10, <2>2 DEF Quiet, Remembers
    <3>2. PICK s \in clusters : s.id = c.row.id /\ s.cfg = c.row.cfg /\ s.mode = c.row.mode
      BY <2>1, <3>1 DEF Kept
    <3>3. Kept(c.row)'
      BY <1>6, <1>10, <3>1 DEF CopyOK, Switching
    <3>4. r.cfg = s.cfg /\ r.mode = s.mode
      BY <1>7, <1>10, <3>2, <3>3 DEF Touches, Kept
    <3>5. Unshared(s)
      BY <1>10, <2>2, <3>2, <3>4 DEF Unshared
    <3>6. ~ SwitchedBy(c.row.id)
      <4> SUFFICES ASSUME NEW g \in InFlight, handler[g].row.id = c.row.id, Switching(handler[g])
                   PROVE  FALSE
        BY DEF SwitchedBy
      <4>1. g \in Handlers /\ handler[g] # Nothing /\ g # h
        BY DEF InFlight
      <4>2. c.row.id \in On(handler[g]) \cap On(handler[h])
        BY DEF On
      <4>3. Quiet(c.row.id) => handler[g].op \notin Changers
        BY <4>1, <4>2, ApartFacts
      <4> QED
        BY <1>10, <3>1, <4>3 DEF Quiet, Switching, Changers
    <3>7. NodesFollow(s)
      BY <1>10, <2>2, <3>1, <3>2, <3>4, <3>5, <3>6 DEF Promised, RowOK
    <3> QED
      BY <3>4, <3>7 DEF NodesFollow
  <2> QED
    BY <2>1, <2>2 DEF RowOK
<1> QED
  BY <1>7, <1>9, <1>10, StepPromised


(* A step of a request that goes on switching.                             *)
LEMMA SwitchStep ==
  ASSUME OwnInv, OwnInv', Promised,
         NEW h \in Handlers, NEW c, c = handler[h], c # Nothing, Switching(c),
         NEW d, d # Nothing, handler' = [handler EXCEPT ![h] = d],
         UNCHANGED <<nextId, submitted, clusters, mishaps>>,
         cache' = cache \/ \E v : cache' = [cache EXCEPT ![c.row.id] = v],
         \A k \in Configs : cordoned'[k] = cordoned[k] \/ (c.at = "patch" /\ k = c.rt),
         Goes(c, d), Switching(d), Shape(d), d.row.id = c.row.id,
         SwitchOK(d)', CopyOK(d, d.row)'
  PROVE  Promised'
<1>1. c.op \in Changers
  BY DEF Switching, Changers
<1>2. Touches(c)
  <2>1. \A i \in Ids : i # c.row.id => cache'[i] = cache[i]
    BY DEF OwnInv, TypeOK
  <2> QED
    BY <1>1, <2>1 DEF Touches, Promised
<1>3. CallOK(d)'
  <2>1. Shape(d)' /\ HealOK(d)'
    BY DEF Shape, HealOK, Switching
  <2>2. Held(d) = {d.row}
    BY DEF Held, Shape, Switching
  <2> QED
    BY <2>1, <2>2 DEF CallOK
<1>4. ASSUME NEW r \in clusters', r.id = c.row.id
      PROVE  RowOK(r)'
  <2>1. h \in InFlight' /\ handler'[h] = d
    BY DEF InFlight, OwnInv, TypeOK
  <2>2. SwitchedBy(r.id)'
    BY <1>4, <2>1 DEF SwitchedBy, Switching
  <2> QED
    BY <2>2 DEF RowOK
<1> QED
  BY <1>2, <1>3, <1>4, StepPromised

(* The step with which a request changes the row, or fails to.             *)
LEMMA EndStep ==
  ASSUME OwnInv, OwnInv', Promised,
         NEW h \in Handlers, NEW c, c = handler[h], c # Nothing, c.op \in Changers,
         NEW row \in Rows, Alike(row, c.row),
         NEW d, handler' = [handler EXCEPT ![h] = d],
         UNCHANGED <<nextId, submitted, cache, cordoned>>, Remembers(c),
         \/ clusters' = clusters /\ "unsaved" \in mishaps'[c.row.id]
         \/ clusters' = Without(clusters, c.row.id)
         \/ /\ clusters' = Upsert(clusters, row) /\ c.at # "invalidate"
            /\ mishaps'[row.id] = {} /\ Unshared(row) => NodesFollow(row),
         \/ d = Nothing
         \/ /\ Goes(c, d) /\ Shape(d) /\ d.rest = {} /\ d.op # "test" /\ d.row = row
            /\ \/ Switching(d) /\ d.at = "invalidate"
               \/ /\ ~ Switching(d) /\ c.at # "invalidate"
                  /\ clusters' = Upsert(clusters, row)
  PROVE  Promised'
<1>1. /\ Sound(c) /\ c \in Calls /\ CallOK(c)
      /\ c.row \in Rows /\ c.row.id \in Ids /\ row.id = c.row.id
  BY HandlerSound DEF Promised, Calls, Rows, Alike
<1>2. CopyOK(c, c.row)
  BY <1>1 DEF CallOK, Held
<1>3. Touches(c)
  <2>1. \A r \in Rows : r.id # c.row.id => (r \in clusters' <=> r \in clusters)
    BY <1>1, UpsertFacts DEF Without
  <2>2. \A r, s \in clusters' : r.id = c.row.id /\ s.id = c.row.id => r = s
    BY <1>1, UpsertFacts DEF Without, Promised
  <2> QED
    BY <2>1, <2>2 DEF Touches, Remembers
<1>4. Quiet(c.row.id)' => Quiet(c.row.id)
  BY <1>1 DEF Quiet, Remembers
<1>5. c.at # "invalidate" /\ Quiet(c.row.id)' => cache'[row.id] \in {Nothing, row.cfg}
  BY <1>1, <1>2, <1>4 DEF CopyOK, Alike
<1>6. ASSUME d # Nothing
      PROVE  Goes(c, d) /\ CallOK(d)'
  <2>1. Goes(c, d) /\ Shape(d) /\ d.rest = {} /\ d.op # "test" /\ d.row = row
    BY <1>6
  <2>2. CASE Switching(d) /\ d.at = "invalidate"
    <3>1. SwitchOK(d)' /\ CopyOK(d, d.row)'
      BY <2>2 DEF SwitchOK, CopyOK, Switching
    <3> QED
      BY <2>1, <3>1 DEF CallOK, Shape, HealOK, Held
  <2>3. CASE ~ Switching(d) /\ c.at # "invalidate" /\ clusters' = Upsert(clusters, row)
    <3>1. SwitchOK(d)'
      BY <2>3 DEF SwitchOK, Switching
    <3>2. Kept(row)'
      BY <2>3, UpsertFacts DEF Kept
    <3>3. CopyOK(d, d.row)'
      BY <1>1, <1>5, <2>1, <2>3, <3>2 DEF CopyOK
    <3> QED
      BY <2>1, <3>1, <3>3 DEF CallOK, Shape, HealOK, Held
  <2> QED
    BY <1>6, <2>2, <2>3
<1>7. ASSUME NEW r \in clusters', r.id = c.row.id
      PROVE  RowOK(r)'
  <2>1. CASE clusters' = clusters /\ "unsaved" \in mishaps'[c.row.id]
    BY <1>7, <2>1 DEF RowOK, Quiet
  <2>2. CASE clusters' = Without(clusters, c.row.id)
    BY <1>7, <2>2 DEF Without
  <2>3. CASE /\ clusters' = Upsert(clusters, row) /\ c.at # "invalidate"
             /\ mishaps'[row.id] = {} /\ Unshared(row) => NodesFollow(row)
    <3>1. r = row
      BY <1>1, <1>7, <2>3, UpsertFacts
    <3> QED
      BY <1>1, <1>5, <2>3, <3>1 DEF RowOK, Unshared, NodesFollow
  <2> QED
    BY <2>1, <2>2, <2>3
<1> QED
  BY <1>3, <1>6, <1>7, StepPromised


-----------------------------------------------------------------------------
(* What a handler makes of its call.                                       *)

(* b is c but for the place, the runtime and what is learnt of the row.    *)
Like(c, b) == /\ b \in Calls /\ b.op = c.op /\ b.why = c.why /\ b.rest = c.rest
              /\ b.alone = c.alone /\ Alike(b.row, c.row)

PlainGoes(c, d) ==
  /\ Goes(c, d) /\ ~ Switching(d) /\ Shape(d) /\ HealOK(d)'
  /\ \A x \in Held(d) : \E y \in Held(c) : Alike(x, y)

(* The same row and the rows to come: the same requests are met.           *)
LEMMA SameRows ==
  ASSUME NEW c, NEW d, d.op = c.op, d.alone = c.alone, d.rest = c.rest, Alike(d.row, c.row)
  PROVE  Goes(c, d) /\ \A x \in Held(d) : \E y \in Held(c) : Alike(x, y)
<1>1. \A y : Alike(y, y)
  BY DEF Alike
<1> QED
  BY <1>1 DEF Goes, On, Held, Alike

LEMMA FetchForGoes ==
  ASSUME NEW c \in Calls, NEW why \in Uses
  PROVE  LET d == FetchFor(c, why)
         IN /\ d.op = c.op /\ d.at = "fetch" /\ d.why = why /\ d.row = c.row
            /\ d.rest = c.rest /\ d.alone = c.alone /\ d.nodes = c.nodes /\ d.want = c.want
BY DEF Calls, FetchFor

LEMMA OverGoes ==
  ASSUME NEW c \in Calls, c.rest # {}
  PROVE  LET d == Over(c)
         IN /\ d.op = c.op /\ d.at = "next" /\ d.why = c.why /\ d.row = c.row
            /\ d.rest = c.rest /\ d.alone = c.alone
BY DEF Calls, Over

LEMMA FailedGoes ==
  ASSUME NEW c \in Calls
  PROVE  LET d == [c EXCEPT !.row.status = "error"]
         IN Like(c, d) /\ d.at = c.at /\ d.row \in Rows
<1> DEFINE row == [c.row EXCEPT !.status = "error"]
           d == [c EXCEPT !.row = row]
<1>1. c.row \in Rows
  BY DEF Calls
<1>2. row \in Rows
  BY <1>1, Zenon DEF Rows
<1>3. Alike(row, c.row)
  BY <1>1 DEF Rows, Alike
<1>4. [c EXCEPT !.row.status = "error"] = d
  BY DEF Calls
<1> HIDE DEF row
<1>5. d \in Calls
  BY <1>2, Zenon DEF Calls
<1>6. /\ d.row = row /\ d.op = c.op /\ d.why = c.why /\ d.rest = c.rest
      /\ d.alone = c.alone /\ d.at = c.at
  BY DEF Calls
<1> HIDE DEF d
<1>7. Like(c, d) /\ d.at = c.at /\ d.row \in Rows
  BY <1>2, <1>3, <1>5, <1>6 DEF Like
<1> QED
  BY <1>4, <1>7

(* A request that is not switching is over with a row.                     *)
LEMMA PlainOver ==
  ASSUME NEW c, Shape(c), ~ Switching(c), NEW b, Like(c, b), NEW d, d = Over(b), d # Nothing
  PROVE  PlainGoes(c, d)
<1>1. b.rest # {}
  BY DEF Over
<1>2. /\ d.op = c.op /\ d.at = "next" /\ d.why = c.why /\ d.row = b.row
      /\ d.rest = c.rest /\ d.alone = c.alone
  BY <1>1, OverGoes DEF Like
<1>3. c.op = "view"
  BY <1>1 DEF Like, Shape
<1>4. Goes(c, d) /\ \A x \in Held(d) : \E y \in Held(c) : Alike(x, y)
  BY <1>2, SameRows DEF Like
<1>5. ~ Switching(d) /\ Shape(d) /\ HealOK(d)'
  BY <1>2, <1>3 DEF Shape, HealOK, Switching, Uses
<1> QED
  BY <1>4, <1>5 DEF PlainGoes

(* ... or asks for its nodes' health first.                                *)
LEMMA PlainHealth ==
  ASSUME NEW c, Shape(c), ~ Switching(c), c.at # "invalidate",
         NEW b, Like(c, b), NEW d, d = Health(b), d # Nothing
  PROVE  PlainGoes(c, d)
<1>1. CASE b.row.status = "connected"
  <2>1. d = FetchFor(b, "health") /\ "health" \in Uses
    BY <1>1 DEF Health, Uses
  <2>2. /\ d.op = c.op /\ d.at = "fetch" /\ d.why = "health" /\ d.row = b.row
        /\ d.rest = c.rest /\ d.alone = c.alone
    BY <2>1, FetchForGoes DEF Like
  <2>3. Goes(c, d) /\ \A x \in Held(d) : \E y \in Held(c) : Alike(x, y)
    BY <2>2, SameRows DEF Like
  <2>4. ~ Switching(d) /\ Shape(d) /\ HealOK(d)'
    BY <2>2 DEF Shape, HealOK, Switching, Uses
  <2> QED
    BY <2>3, <2>4 DEF PlainGoes
<1>2. CASE b.row.status # "connected"
  BY <1>2, PlainOver DEF Health
<1> QED
  BY <1>1, <1>2

(* Become and what a request may do beside it.                             *)
LEMMA CallFacts ==
  ASSUME OwnInv, Promised, NEW h \in Handlers, NEW c, c = handler[h], c # Nothing
  PROVE  /\ Sound(c) /\ c \in Calls /\ CallOK(c) /\ Shape(c) /\ Like(c, c)
         /\ c.row \in Rows /\ c.row.id \in Ids
<1>1. Sound(c) /\ c \in Calls /\ CallOK(c)
  BY HandlerSound DEF Promised
<1>2. c.row \in Rows
  BY <1>1 DEF Calls
<1> QED
  BY <1>1, <1>2 DEF Like, Alike, CallOK, Rows

LEMMA LikeCopy ==
  ASSUME NEW c, NEW b, Like(c, b)
  PROVE  b.row \in Rows /\ Alike(b.row, c.row)
BY DEF Like, Calls

(* A step of a request that is not switching, as the handlers take it.     *)
LEMMA PlainBecomes ==
  ASSUME OwnInv, OwnInv', Promised, NEW h \in Handlers, NEW c, c = handler[h], c # Nothing,
         ~ Switching(c), NEW d, Become(h, d), d = Nothing \/ PlainGoes(c, d),
         UNCHANGED <<submitted, cordoned>>,
         \/ UNCHANGED <<clusters, mishaps>>
         \/ \E row \in Rows, what \in SUBSET {"halfway"} :
              Alike(row, c.row) /\ (Saved(row, what) \/ NotSaved(row, what)),
         \/ cache' = cache
         \/ \E v \in {Nothing, c.row.cfg} : cache' = [cache EXCEPT ![c.row.id] = v]
  PROVE  Promised'
<1>1. handler' = [handler EXCEPT ![h] = d] /\ nextId' = nextId
  BY DEF Become
<1>2. SavesAlike(c) /\ Remembers(c)
  <2>1. CASE UNCHANGED <<clusters, mishaps>>
    BY <2>1 DEF SavesAlike, Remembers
  <2>2. CASE \E row \in Rows, what \in SUBSET {"halfway"} :
               Alike(row, c.row) /\ (Saved(row, what) \/ NotSaved(row, what))
    <3>1. PICK row \in Rows, what \in SUBSET {"halfway"} :
            Alike(row, c.row) /\ (Saved(row, what) \/ NotSaved(row, what))
      BY <2>2
    <3>2. SavesAlike(c)
      BY <3>1 DEF Saved, NotSaved, SavesAlike
    <3>3. \E lost : Remember(c.row.id, lost)
      BY <3>1 DEF Saved, NotSaved, Alike
    <3> QED
      BY <3>2, <3>3, RememberFacts
  <2> QED
    BY <2>1, <2>2
<1>3. d = Nothing \/ (/\ Goes(c, d) /\ ~ Switching(d) /\ Shape(d) /\ HealOK(d)'
                      /\ \A x \in Held(d) : \E y \in Held(c) : Alike(x, y))
  BY DEF PlainGoes
<1> QED
  BY <1>1, <1>2, <1>3, PlainStep

(* markClusterError ends a switch halfway, and is plain for the others.    *)
LEMMA FailPromised ==
  ASSUME OwnInv, OwnInv', Promised, NEW h \in Handlers, NEW c, c = handler[h], c # Nothing,
         c.at # "invalidate", Fail(h)
  PROVE  Promised'
<1> DEFINE failed == [c EXCEPT !.row.status = "error"]
           lost == IF c.why = "list" THEN {"halfway"} ELSE {}
           back == [failed EXCEPT !.at = "invalidate"]
           d == IF c.op = "create" /\ c.why = "list" THEN back ELSE Over(failed)
<1>1. /\ Sound(c) /\ c \in Calls /\ Shape(c) /\ c.row.id \in Ids
  BY CallFacts
<1>2. /\ Saved(failed.row, lost) \/ NotSaved(failed.row, lost)
      /\ Become(h, d) /\ UNCHANGED <<cache, cordoned, submitted>>
  BY DEF Fail
<1>3. Like(c, failed) /\ failed.row \in Rows
  BY <1>1, FailedGoes
<1>4. lost \in SUBSET {"halfway"}
  OBVIOUS
<1> HIDE DEF failed
<1>5. CASE ~ Switching(c)
  <2>1. d = Over(failed)
    BY <1>5 DEF Switching
  <2>2. d = Nothing \/ PlainGoes(c, d)
    BY <1>1, <1>3, <1>5, <2>1, PlainOver
  <2> HIDE DEF d, lost
  <2>3. \E row \in Rows, what \in SUBSET {"halfway"} :
          Alike(row, c.row) /\ (Saved(row, what) \/ NotSaved(row, what))
    BY <1>2, <1>3, <1>4 DEF Like
  <2> QED
    BY <1>2, <1>5, <2>2, <2>3, PlainBecomes
<1>6. CASE Switching(c)
  <2>1. c.op \in Changers /\ c.rest = {} /\ c.why = "list" /\ c.op \in {"create", "update"}
    BY <1>1, <1>6 DEF Switching, Changers, Shape
  <2>2. lost = {"halfway"} /\ failed.row.id = c.row.id
    BY <1>3, <2>1 DEF Like, Alike
  <2> HIDE DEF lost
  <2>3. Remembers(c) /\ "halfway" \in mishaps'[c.row.id]
    <3>1. PICK what \in {lost, lost \cup {"unsaved"}} : Remember(c.row.id, what)
      BY <1>2, <2>2 DEF Saved, NotSaved
    <3>2. "halfway" \in what
      BY <2>2
    <3> QED
      BY <1>1, <3>1, <3>2, RememberFacts
  <2>4. \/ clusters' = clusters /\ "unsaved" \in mishaps'[c.row.id]
        \/ clusters' = Upsert(clusters, failed.row)
    <3>1. ASSUME NotSaved(failed.row, lost)
          PROVE  clusters' = clusters /\ "unsaved" \in mishaps'[c.row.id]
      <4>1. clusters' = clusters /\ Remember(c.row.id, lost \cup {"unsaved"})
        BY <2>2, <3>1 DEF NotSaved
      <4> QED
        BY <1>1, <4>1, RememberFacts
    <3> QED
      BY <1>2, <3>1 DEF Saved
  <2>5. d # Nothing =>
          /\ Goes(c, d) /\ Shape(d) /\ d.rest = {} /\ d.op # "test" /\ d.row = failed.row
          /\ Switching(d) /\ d.at = "invalidate"
    <3>1. CASE c.op = "create"
      <4>1. d = back
        BY <2>1, <3>1
      <4>2. /\ back.op = c.op /\ back.at = "invalidate" /\ back.why = "list"
            /\ back.row = failed.row /\ back.rest = {} /\ back.alone = c.alone
        BY <1>3, <2>1 DEF Like, Calls
      <4> HIDE DEF back, d
      <4>3. Goes(c, d)
        BY <1>3, <2>1, <4>1, <4>2, SameRows DEF Like
      <4> QED
        BY <3>1, <4>1, <4>2, <4>3 DEF Shape, Switching, Uses, Changers
    <3>2. CASE c.op # "create"
      BY <1>3, <2>1, <3>2 DEF Over, Like
    <3> QED
      BY <3>1, <3>2
  <2> HIDE DEF d
  <2>6. handler' = [handler EXCEPT ![h] = d] /\ UNCHANGED <<nextId, submitted, cache, cordoned>>
    BY <1>2 DEF Become
  <2>7. Alike(failed.row, c.row)
    BY <1>3 DEF Like
  <2>8. mishaps'[failed.row.id] # {}
    BY <2>2, <2>3
  <2> QED
    BY <1>3, <2>1, <2>3, <2>4, <2>5, <2>6, <2>7, <2>8, EndStep
<1> QED
  BY <1>5, <1>6


(* A step of a request that goes on switching, as the handlers take it.    *)
LEMMA SwitchBecomes ==
  ASSUME OwnInv, OwnInv', Promised, NEW h \in Handlers, NEW c, c = handler[h], c # Nothing,
         Switching(c), NEW d \in Calls, d # Nothing, Become(h, d),
         UNCHANGED <<submitted, clusters, mishaps>>,
         cache' = cache \/ \E v : cache' = [cache EXCEPT ![c.row.id] = v],
         \A k \in Configs : cordoned'[k] = cordoned[k] \/ (c.at = "patch" /\ k = c.rt),
         d.op = c.op, d.alone = c.alone, d.rest = c.rest, d.row.id = c.row.id,
         Switching(d), Shape(d), SwitchOK(d)', CopyOK(d, d.row)'
  PROVE  Promised'
<1>1. Goes(c, d)
  BY DEF Goes, On
<1>2. handler' = [handler EXCEPT ![h] = d] /\ nextId' = nextId
  BY DEF Become
<1> QED
  BY <1>1, <1>2, SwitchStep

(* The same request on the same rows, and no other.                        *)
Same(c, d) ==
  /\ d \in Calls /\ d # Nothing
  /\ d.op = c.op /\ d.row = c.row /\ d.rest = c.rest /\ d.alone = c.alone
  /\ Alike(d.row, c.row) /\ Goes(c, d)
  /\ \A x \in Held(d) : \E y \in Held(c) : Alike(x, y)

LEMMA SameIs ==
  ASSUME NEW c, NEW d \in Calls,
         d.op = c.op, d.row = c.row, d.rest = c.rest, d.alone = c.alone
  PROVE  Same(c, d)
BY SameRows, NothingAssumption DEF Same, Alike

(* The step a runtime was fetched for.                                     *)
TakesUp(c, d, v) ==
  /\ d.at = c.why /\ d.why = c.why /\ d.rt = v /\ d.at \in Uses
  /\ Shape(d) /\ (Switching(d) => Switching(c)) /\ (Switching(c) => Switching(d))

LEMMA TakesUpIs ==
  ASSUME NEW c \in Calls, Shape(c), c.at \in {"fetch", "store"},
         NEW v \in Configs \cup {Nothing}, NEW d, d = [c EXCEPT !.at = c.why, !.rt = v]
  PROVE  Same(c, d) /\ TakesUp(c, d, v)
<1>1. c.why \in Uses /\ c.why \in Steps
  BY DEF Steps, Calls
<1>2. d \in Calls
  BY <1>1, Zenon DEF Calls, Steps
<1>3. /\ d.op = c.op /\ d.at = c.why /\ d.why = c.why /\ d.row = c.row /\ d.rt = v
      /\ d.rest = c.rest /\ d.alone = c.alone
  BY DEF Calls
<1>4. Same(c, d)
  BY <1>2, <1>3, SameIs
<1>5. Shape(d) /\ (Switching(d) <=> Switching(c))
  BY <1>1, <1>3 DEF Shape, Switching, Uses
<1> QED
  BY <1>1, <1>3, <1>4, <1>5 DEF TakesUp

(* To a step that asks nothing of the runtime.                             *)
LEMMA MovesTo ==
  ASSUME NEW c \in Calls, NEW at \in {"invalidate", "store", "delete"},
         NEW d, d = [c EXCEPT !.at = at]
  PROVE  Same(c, d) /\ d.at = at /\ d.why = c.why
<1>1. at \in Steps
  BY DEF Steps
<1>2. d \in Calls
  BY <1>1, Zenon DEF Calls, Steps
<1>3. /\ d.op = c.op /\ d.at = at /\ d.why = c.why /\ d.row = c.row
      /\ d.rest = c.rest /\ d.alone = c.alone
  BY DEF Calls
<1> QED
  BY <1>2, <1>3, SameIs

(* Factory.Runtime: what is cached is what the request expects.            *)
LEMMA FetchPromised ==
  ASSUME OwnInv, OwnInv', Promised, NEW h \in Handlers, Fetch(h)
  PROVE  Promised'
<1> SUFFICES ASSUME NEW c, c = handler[h]
             PROVE  Promised'
  OBVIOUS
<1> DEFINE cached == cache[c.row.id]
<1>1. c # Nothing /\ c.at = "fetch"
  BY DEF Fetch, At
<1>2. /\ Sound(c) /\ c \in Calls /\ CallOK(c) /\ Shape(c) /\ Like(c, c)
      /\ c.row \in Rows /\ c.row.id \in Ids
  BY <1>1, CallFacts
<1>3. /\ CopyOK(c, c.row) /\ SwitchOK(c) /\ HealOK(c)
      /\ cached \in Configs \cup {Nothing}
  BY <1>2 DEF CallOK, Held, OwnInv, TypeOK
<1>4. CASE /\ cached # Nothing
           /\ Become(h, [c EXCEPT !.at = c.why, !.rt = cached])
           /\ UNCHANGED <<clusters, cache, cordoned, submitted, mishaps>>
  <2> SUFFICES ASSUME NEW d, d = [c EXCEPT !.at = c.why, !.rt = cached]
               PROVE  Promised'
    OBVIOUS
  <2>0. Same(c, d) /\ TakesUp(c, d, cached)
    BY <1>1, <1>2, <1>3, TakesUpIs
  <2>1. /\ d \in Calls /\ d # Nothing
        /\ d.op = c.op /\ d.at = c.why /\ d.why = c.why /\ d.row = c.row /\ d.rt = cached
        /\ d.rest = c.rest /\ d.alone = c.alone /\ Alike(d.row, c.row) /\ d.at \in Uses
        /\ Goes(c, d) /\ \A x \in Held(d) : \E y \in Held(c) : Alike(x, y)
        /\ Shape(d) /\ (Switching(d) => Switching(c)) /\ (Switching(c) => Switching(d))
    BY <2>0 DEF Same, TakesUp
  <2>2. HealOK(d)'
    BY <1>1, <1>3, <1>4, <2>1 DEF HealOK
  <2>3. CASE ~ Switching(c)
    <3>1. PlainGoes(c, d)
      BY <2>1, <2>2, <2>3 DEF PlainGoes
    <3> QED
      BY <1>1, <1>4, <2>3, <3>1, PlainBecomes
  <2>4. CASE Switching(c)
    <3>1. CopyOK(d, d.row)'
      BY <1>1, <1>3, <1>4, <2>1, <2>4 DEF CopyOK, Quiet, Switching
    <3>2. d.at = "list"
      BY <1>1, <2>1, <2>4 DEF Switching
    <3>3. SwitchOK(d)'
      BY <1>1, <1>3, <1>4, <2>1, <3>2 DEF SwitchOK, CopyOK, Quiet
    <3> QED
      BY <1>1, <1>4, <2>1, <2>4, <3>1, <3>3, SwitchBecomes
  <2> QED
    BY <2>3, <2>4
<1>5. CASE /\ cached = Nothing
           /\ Become(h, [c EXCEPT !.at = "store"])
           /\ UNCHANGED <<clusters, cache, cordoned, submitted, mishaps>>
  <2> SUFFICES ASSUME NEW d, d = [c EXCEPT !.at = "store"]
               PROVE  Promised'
    OBVIOUS
  <2>0. Same(c, d) /\ d.at = "store" /\ d.why = c.why
    BY <1>2, MovesTo
  <2>1. /\ d \in Calls /\ d # Nothing
        /\ d.op = c.op /\ d.at = "store" /\ d.why = c.why /\ d.row = c.row
        /\ d.rest = c.rest /\ d.alone = c.alone /\ Alike(d.row, c.row)
        /\ Goes(c, d) /\ \A x \in Held(d) : \E y \in Held(c) : Alike(x, y)
    BY <2>0 DEF Same
  <2>2. Shape(d) /\ (Switching(d) <=> Switching(c))
    BY <1>1, <1>2, <2>1 DEF Shape, Switching, Uses
  <2>3. HealOK(d)'
    BY <1>1, <1>3, <1>5, <2>1 DEF HealOK
  <2>4. CASE ~ Switching(c)
    <3>1. PlainGoes(c, d)
      BY <2>1, <2>2, <2>3, <2>4 DEF PlainGoes
    <3> QED
      BY <1>1, <1>5, <2>4, <3>1, PlainBecomes
  <2>5. CASE Switching(c)
    <3>1. CopyOK(d, d.row)' /\ SwitchOK(d)'
      BY <1>1, <1>3, <1>5, <2>1, <2>2, <2>5 DEF CopyOK, SwitchOK, Quiet, Switching
    <3> QED
      BY <1>1, <1>5, <2>1, <2>2, <2>5, <3>1, SwitchBecomes
  <2> QED
    BY <2>4, <2>5
<1>6. CASE Fail(h)
  BY <1>1, <1>6, FailPromised
<1>7. CASE /\ cached = Nothing /\ c.why = "detect"
           /\ Become(h, Health(c))
           /\ UNCHANGED <<clusters, cache, cordoned, submitted, mishaps>>
  <2> SUFFICES ASSUME NEW d, d = Health(c)
               PROVE  Promised'
    OBVIOUS
  <2>1. ~ Switching(c)
    BY <1>1, <1>7 DEF Switching
  <2>2. d = Nothing \/ PlainGoes(c, d)
    BY <1>1, <1>2, <2>1, PlainHealth
  <2> QED
    BY <1>1, <1>7, <2>1, <2>2, PlainBecomes
<1> QED
  BY <1>4, <1>5, <1>6, <1>7 DEF Fetch


(* ... and a new one is built from the row in hand.                        *)
LEMMA StoreRuntimePromised ==
  ASSUME OwnInv, OwnInv', Promised, NEW h \in Handlers, StoreRuntime(h)
  PROVE  Promised'
<1> SUFFICES ASSUME NEW c, c = handler[h]
             PROVE  Promised'
  OBVIOUS
<1> SUFFICES ASSUME NEW d, d = [c EXCEPT !.at = c.why, !.rt = c.row.cfg]
             PROVE  Promised'
  OBVIOUS
<1>1. /\ c # Nothing /\ c.at = "store" /\ Become(h, d)
      /\ cache' = [cache EXCEPT ![c.row.id] = c.row.cfg]
      /\ UNCHANGED <<clusters, cordoned, submitted, mishaps>>
  BY DEF StoreRuntime, At
<1>2. /\ Sound(c) /\ c \in Calls /\ CallOK(c) /\ Shape(c) /\ Like(c, c)
      /\ c.row \in Rows /\ c.row.id \in Ids
  BY <1>1, CallFacts
<1>3. CopyOK(c, c.row) /\ HealOK(c) /\ c.row.cfg \in Configs \cup {Nothing}
  BY <1>2 DEF CallOK, Held, Rows
<1>0. Same(c, d) /\ TakesUp(c, d, c.row.cfg)
  BY <1>1, <1>2, <1>3, TakesUpIs
<1>4. /\ d \in Calls /\ d # Nothing
      /\ d.op = c.op /\ d.at = c.why /\ d.why = c.why /\ d.row = c.row /\ d.rt = c.row.cfg
      /\ d.rest = c.rest /\ d.alone = c.alone /\ Alike(d.row, c.row) /\ d.at \in Uses
      /\ Goes(c, d) /\ \A x \in Held(d) : \E y \in Held(c) : Alike(x, y)
      /\ Shape(d) /\ (Switching(d) => Switching(c)) /\ (Switching(c) => Switching(d))
  BY <1>0 DEF Same, TakesUp
<1>5. cache'[c.row.id] = c.row.cfg
  BY <1>1, <1>2 DEF OwnInv, TypeOK
<1>6. HealOK(d)'
  BY <1>1, <1>3, <1>4, <1>5 DEF HealOK, Uses
<1>7. CASE ~ Switching(c)
  <2>1. PlainGoes(c, d)
    BY <1>4, <1>6, <1>7 DEF PlainGoes
  <2> QED
    BY <1>1, <1>7, <2>1, PlainBecomes
<1>8. CASE Switching(c)
  <2>1. CopyOK(d, d.row)'
    BY <1>4, <1>5, <1>8 DEF CopyOK
  <2>2. SwitchOK(d)'
    BY <1>4 DEF SwitchOK, Uses
  <2> QED
    BY <1>1, <1>4, <1>8, <2>1, <2>2, SwitchBecomes
<1> QED
  BY <1>7, <1>8

(* Factory.Invalidate leaves nothing that could be out of date.            *)
LEMMA InvalidatePromised ==
  ASSUME OwnInv, OwnInv', Promised, NEW h \in Handlers, Invalidate(h)
  PROVE  Promised'
<1> SUFFICES ASSUME NEW c, c = handler[h]
             PROVE  Promised'
  OBVIOUS
<1> SUFFICES ASSUME NEW d,
                    d = (CASE c.op \in {"create", "delete"} -> [c EXCEPT !.at = "delete"]
                           [] c.op = "update" -> FetchFor(c, "list")
                           [] c.op = "test"   -> FetchFor(c, "call"))
             PROVE  Promised'
  OBVIOUS
<1>1. /\ c # Nothing /\ c.at = "invalidate" /\ Become(h, d)
      /\ cache' = [cache EXCEPT ![c.row.id] = Nothing]
      /\ UNCHANGED <<clusters, cordoned, submitted, mishaps>>
  BY DEF Invalidate, At
<1>2. /\ Sound(c) /\ c \in Calls /\ CallOK(c) /\ Shape(c) /\ Like(c, c)
      /\ c.row \in Rows /\ c.row.id \in Ids
  BY <1>1, CallFacts
<1>3. c.op \in {"create", "delete", "update", "test"}
  BY <1>1, <1>2 DEF Sound, Changers
<1>4. cache'[c.row.id] = Nothing
  BY <1>1, <1>2 DEF OwnInv, TypeOK
<1>5. /\ Same(c, d)
      /\ d.at = IF c.op \in {"create", "delete"} THEN "delete" ELSE "fetch"
      /\ d.why = IF c.op = "update" THEN "list" ELSE IF c.op = "test" THEN "call" ELSE c.why
  <2>1. CASE c.op \in {"create", "delete"}
    <3>1. d = [c EXCEPT !.at = "delete"]
      BY <2>1
    <3> QED
      BY <1>2, <2>1, <3>1, MovesTo
  <2>2. ASSUME NEW why \in {"list", "call"}, d = FetchFor(c, why)
        PROVE  Same(c, d) /\ d.at = "fetch" /\ d.why = why
    <3>1. why \in Uses
      BY DEF Uses
    <3>2. d \in Calls
      BY <1>2, <2>2, <3>1, FetchForFacts
    <3>3. c \in Calls
      BY <1>2
    <3>4. /\ d.op = c.op /\ d.at = "fetch" /\ d.why = why /\ d.row = c.row
          /\ d.rest = c.rest /\ d.alone = c.alone
      BY ONLY <2>2, <3>1, <3>3, FetchForGoes
    <3> QED
      BY <3>2, <3>4, SameIs
  <2>3. CASE c.op = "update"
    BY <2>2, <2>3
  <2>4. CASE c.op = "test"
    BY <2>2, <2>4
  <2> QED
    BY <1>3, <2>1, <2>3, <2>4
<1>6. /\ d \in Calls /\ d # Nothing /\ d.op = c.op /\ d.row = c.row /\ d.rest = c.rest
      /\ d.alone = c.alone /\ Alike(d.row, c.row)
      /\ Goes(c, d) /\ \A x \in Held(d) : \E y \in Held(c) : Alike(x, y)
  BY <1>5 DEF Same
<1>7. Shape(d)
  BY <1>1, <1>2, <1>3, <1>5, <1>6 DEF Shape, Uses
<1>8. CASE c.op \in {"create", "update"}
  <2>1. Switching(c)
    BY <1>1, <1>8 DEF Switching
  <2>2. Switching(d) /\ d.at \notin {"list", "patch", "save"}
    <3>1. d.at = (IF c.op = "create" THEN "delete" ELSE "fetch") /\ d.op = c.op
      BY <1>5, <1>6, <1>8
    <3>2. d.why = "list"
      BY <1>1, <1>2, <1>5, <1>8 DEF Shape
    <3> QED
      BY <1>8, <3>1, <3>2 DEF Switching
  <2>3. CopyOK(d, d.row)' /\ SwitchOK(d)'
    BY <1>4, <1>6, <2>2 DEF CopyOK, SwitchOK, Switching
  <2> QED
    BY <1>1, <1>6, <1>7, <2>1, <2>2, <2>3, SwitchBecomes
<1>9. CASE c.op \in {"delete", "test"}
  <2>1. ~ Switching(c) /\ ~ Switching(d)
    <3>1. d.op = c.op
      BY <1>6
    <3> QED
      BY <1>9, <3>1 DEF Switching
  <2>2. HealOK(d)'
    <3>1. c.op = "test" => c.why = "call"
      BY <1>1, <1>2 DEF Shape
    <3>2. HealOK(c)
      BY <1>2 DEF CallOK
    <3> QED
      BY <1>1, <1>4, <1>5, <1>6, <3>1, <3>2 DEF HealOK
  <2>3. PlainGoes(c, d)
    BY <1>6, <1>7, <2>1, <2>2 DEF PlainGoes
  <2> QED
    BY <1>1, <2>1, <2>3, PlainBecomes
<1> QED
  BY <1>3, <1>8, <1>9


-----------------------------------------------------------------------------
(* applyClusterMode.                                                       *)
LEMMA SwitchedIs ==
  ASSUME NEW c \in Calls, NEW nodes \in SUBSET Workers,
         NEW d, d = Switched([c EXCEPT !.nodes = nodes])
  PROVE  /\ d \in Calls /\ d # Nothing /\ d.op = c.op /\ d.why = c.why /\ d.rt = c.rt
         /\ d.want = c.want /\ d.nodes = nodes /\ d.rest = c.rest /\ d.alone = c.alone
         /\ d.row.id = c.row.id /\ d.row.cfg = c.row.cfg
         /\ \/ d.at = "patch"
            \/ d.at = "save" /\ nodes = {} /\ d.row.mode = c.want
<1> DEFINE b == [c EXCEPT !.nodes = nodes]
           row == [c.row EXCEPT !.status = "connected", !.mode = c.want]
<1>1. c.row \in Rows /\ c.want \in Modes
  BY DEF Calls
<1>2. row \in Rows
  BY <1>1, Zenon DEF Rows
<1>3. row.id = c.row.id /\ row.cfg = c.row.cfg /\ row.mode = c.want
  BY <1>1 DEF Rows
<1>4. b \in Calls
  BY Zenon DEF Calls
<1>5. /\ b.op = c.op /\ b.why = c.why /\ b.rt = c.rt /\ b.want = c.want /\ b.nodes = nodes
      /\ b.rest = c.rest /\ b.alone = c.alone /\ b.row = c.row
  BY DEF Calls
<1> HIDE DEF b, row
<1>6. CASE nodes # {}
  <2>1. d = [b EXCEPT !.at = "patch"] /\ "patch" \in Steps
    BY <1>5, <1>6 DEF Switched, b, Steps
  <2>2. d \in Calls
    BY <1>4, <2>1, Zenon DEF Calls, Steps
  <2>3. /\ d.op = b.op /\ d.why = b.why /\ d.rt = b.rt /\ d.want = b.want /\ d.nodes = b.nodes
        /\ d.rest = b.rest /\ d.alone = b.alone /\ d.row = b.row /\ d.at = "patch"
    BY <1>4, <2>1 DEF Calls
  <2> QED
    BY <1>5, <2>2, <2>3, NothingAssumption
<1>7. CASE nodes = {}
  <2>1. d = [b EXCEPT !.at = "save", !.row = row] /\ "save" \in Steps
    BY <1>4, <1>5, <1>7 DEF Switched, b, row, Steps, Calls
  <2>2. d \in Calls
    BY <1>2, <1>4, <2>1, Zenon DEF Calls, Steps
  <2>3. /\ d.op = b.op /\ d.why = b.why /\ d.rt = b.rt /\ d.want = b.want /\ d.nodes = b.nodes
        /\ d.rest = b.rest /\ d.alone = b.alone /\ d.row = row /\ d.at = "save"
    BY <1>4, <2>1 DEF Calls
  <2> QED
    BY <1>3, <1>5, <1>7, <2>2, <2>3, NothingAssumption
<1> QED
  BY <1>6, <1>7

LEMMA SwitchedPromised ==
  ASSUME OwnInv, OwnInv', Promised, NEW h \in Handlers, NEW c, c = handler[h], c # Nothing,
         c.at \in {"list", "patch"}, NEW nodes \in SUBSET Workers,
         Become(h, Switched([c EXCEPT !.nodes = nodes])),
         UNCHANGED <<clusters, cache, submitted, mishaps>>,
         \A k \in Configs : cordoned'[k] = cordoned[k] \/ (c.at = "patch" /\ k = c.rt),
         Quiet(c.row.id) /\ Unshared(c.row) =>
           IF c.want = "maintenance" THEN Workers \subseteq cordoned'[c.row.cfg] \cup nodes
                                     ELSE cordoned'[c.row.cfg] \subseteq nodes
  PROVE  Promised'
<1> SUFFICES ASSUME NEW d, d = Switched([c EXCEPT !.nodes = nodes]), Become(h, d)
             PROVE  Promised'
  OBVIOUS
<1>1. /\ c \in Calls /\ CallOK(c) /\ Shape(c) /\ c.row \in Rows /\ c.row.id \in Ids
      /\ c.want \in Modes /\ c.row.cfg \in Configs
  BY CallFacts DEF Calls, Rows
<1>2. /\ d \in Calls /\ d # Nothing /\ d.op = c.op /\ d.why = c.why /\ d.rt = c.rt
      /\ d.want = c.want /\ d.nodes = nodes /\ d.rest = c.rest /\ d.alone = c.alone
      /\ d.row.id = c.row.id /\ d.row.cfg = c.row.cfg
      /\ \/ d.at = "patch"
         \/ d.at = "save" /\ nodes = {} /\ d.row.mode = c.want
  BY <1>1, SwitchedIs
<1>3. c.why = "list" /\ Switching(c)
  BY <1>1 DEF Shape, Uses, Switching
<1>4. Switching(d) /\ Shape(d)
  BY <1>1, <1>2, <1>3 DEF Switching, Shape, Uses
<1>5. CopyOK(c, c.row) /\ SwitchOK(c)
  BY <1>1 DEF CallOK, Held
<1>6. CopyOK(d, d.row)'
  <2>1. Quiet(d.row.id)' => Quiet(c.row.id)
    BY <1>2 DEF Quiet
  <2>2. Quiet(c.row.id) => cache'[d.row.id] \in {Nothing, d.row.cfg}
    BY <1>2, <1>5 DEF CopyOK
  <2>3. Switching(d)'
    BY <1>4 DEF Switching
  <2> QED
    BY <2>1, <2>2, <2>3 DEF CopyOK
<1>7. SwitchOK(d)'
  <2> SUFFICES ASSUME Quiet(c.row.id)
               PROVE  /\ d.at \in {"list", "patch"} => d.rt = d.row.cfg
                      /\ Unshared(d.row)' =>
                         /\ d.at = "patch" => IF d.want = "maintenance"
                                              THEN Workers \subseteq cordoned'[d.row.cfg] \cup d.nodes
                                              ELSE cordoned'[d.row.cfg] \subseteq d.nodes
                         /\ d.at = "save" => NodesFollow(d.row)'
    BY <1>2 DEF SwitchOK, Quiet
  <2>1. d.rt = d.row.cfg
    BY <1>2, <1>3, <1>5 DEF SwitchOK
  <2>2. Unshared(d.row)' => Unshared(c.row)
    BY <1>2 DEF Unshared
  <2>3. ASSUME Unshared(c.row), d.at = "save"
        PROVE  NodesFollow(d.row)'
    <3>1. cordoned'[c.row.cfg] \subseteq Workers
      BY <1>1 DEF OwnInv, TypeOK
    <3>2. nodes = {} /\ d.row.mode = c.want
      BY <1>2, <2>3
    <3>3. cordoned'[c.row.cfg] = IF c.want = "maintenance" THEN Workers ELSE {}
      BY <2>3, <3>1, <3>2
    <3> QED
      BY <1>2, <3>2, <3>3 DEF NodesFollow
  <2> QED
    BY <1>2, <2>1, <2>2, <2>3
<1> QED
  BY <1>2, <1>3, <1>4, <1>6, <1>7, SwitchBecomes

(* The list of the nodes: all that are not as wanted are to be patched,    *)
(* with ready the others too.                                              *)
LEMMA ListWorkersPromised ==
  ASSUME OwnInv, OwnInv', Promised, NEW h \in Handlers, ListWorkers(h)
  PROVE  Promised'
<1> SUFFICES ASSUME NEW c, c = handler[h]
             PROVE  Promised'
  OBVIOUS
<1> DEFINE other == IF c.want = "maintenance" THEN Workers \ cordoned[c.rt] ELSE Workers
<1>1. /\ c # Nothing /\ c.at = "list"
      /\ \/ /\ Become(h, Switched([c EXCEPT !.nodes = other]))
            /\ UNCHANGED <<clusters, cache, cordoned, submitted, mishaps>>
         \/ Fail(h)
  BY DEF ListWorkers, At
<1>2. /\ Sound(c) /\ c \in Calls /\ CallOK(c) /\ Shape(c) /\ Like(c, c)
      /\ c.row \in Rows /\ c.row.id \in Ids
  BY <1>1, CallFacts
<1>3. c.rt \in Configs /\ other \in SUBSET Workers /\ cordoned[c.rt] \in SUBSET Workers
  BY <1>1, <1>2 DEF Sound, Uses, OwnInv, TypeOK
<1>4. Quiet(c.row.id) => c.rt = c.row.cfg
  <2>1. Switching(c)
    BY <1>1, <1>2 DEF Shape, Uses, Switching
  <2> QED
    BY <1>1, <1>2, <2>1 DEF CallOK, SwitchOK
<1>5. CASE /\ Become(h, Switched([c EXCEPT !.nodes = other]))
           /\ UNCHANGED <<clusters, cache, cordoned, submitted, mishaps>>
  <2>1. Quiet(c.row.id) /\ Unshared(c.row) =>
          IF c.want = "maintenance" THEN Workers \subseteq cordoned'[c.row.cfg] \cup other
                                    ELSE cordoned'[c.row.cfg] \subseteq other
    BY <1>3, <1>4, <1>5
  <2> HIDE DEF other
  <2> QED
    BY <1>1, <1>3, <1>5, <2>1, SwitchedPromised
<1> QED
  BY <1>1, <1>5, FailPromised

(* One PATCH brings one of them in line.                                   *)
LEMMA PatchWorkerPromised ==
  ASSUME OwnInv, OwnInv', Promised, NEW h \in Handlers, PatchWorker(h)
  PROVE  Promised'
<1> SUFFICES ASSUME NEW c, c = handler[h]
             PROVE  Promised'
  OBVIOUS
<1>1. c # Nothing /\ c.at = "patch"
  BY DEF PatchWorker, At
<1>2. /\ Sound(c) /\ c \in Calls /\ CallOK(c) /\ Shape(c) /\ Like(c, c)
      /\ c.row \in Rows /\ c.row.id \in Ids
  BY <1>1, CallFacts
<1>3. c.rt \in Configs /\ c.nodes \in SUBSET Workers
  BY <1>1, <1>2 DEF Sound, Calls
<1>4. Switching(c) /\ SwitchOK(c)
  BY <1>1, <1>2 DEF Shape, Switching, CallOK
<1>5. ASSUME NEW w \in c.nodes,
             cordoned' = [cordoned EXCEPT ![c.rt] =
                            IF c.want = "maintenance" THEN @ \cup {w} ELSE @ \ {w}],
             Become(h, Switched([c EXCEPT !.nodes = @ \ {w}])),
             UNCHANGED <<clusters, cache, submitted, mishaps>>
      PROVE  Promised'
  <2> SUFFICES ASSUME NEW left, left = c.nodes \ {w}
               PROVE  Promised'
    OBVIOUS
  <2>1. left \in SUBSET Workers /\ Become(h, Switched([c EXCEPT !.nodes = left]))
    BY <1>3, <1>5
  <2>2. \A k \in Configs : cordoned'[k] = cordoned[k] \/ (c.at = "patch" /\ k = c.rt)
    BY <1>1, <1>5 DEF OwnInv, TypeOK
  <2>3. cordoned'[c.rt] = IF c.want = "maintenance" THEN cordoned[c.rt] \cup {w}
                                                    ELSE cordoned[c.rt] \ {w}
    BY <1>3, <1>5 DEF OwnInv, TypeOK
  <2>4. Quiet(c.row.id) /\ Unshared(c.row) =>
          IF c.want = "maintenance" THEN Workers \subseteq cordoned'[c.row.cfg] \cup left
                                    ELSE cordoned'[c.row.cfg] \subseteq left
    BY <1>1, <1>4, <2>3 DEF SwitchOK
  <2> QED
    BY <1>1, <1>5, <2>1, <2>2, <2>4, SwitchedPromised
<1>6. CASE Fail(h)
  BY <1>1, <1>6, FailPromised
<1> QED
  BY <1>5, <1>6 DEF PatchWorker


-----------------------------------------------------------------------------
(* The calls to the API server, and the database.                          *)

(* testCluster got its answer.                                             *)
LEMMA AnsweredGoes ==
  ASSUME NEW c \in Calls, NEW known \in BOOLEAN,
         NEW d, d = [c EXCEPT !.at = "save", !.row.status = "connected", !.row.versions = known]
  PROVE  Like(c, d) /\ d.at = "save" /\ d.rt = c.rt
<1> DEFINE row == [c.row EXCEPT !.status = "connected", !.versions = known]
<1>1. c.row \in Rows /\ "save" \in Steps
  BY DEF Calls, Steps
<1>2. row \in Rows
  BY <1>1, Zenon DEF Rows
<1>3. Alike(row, c.row)
  BY <1>1 DEF Rows, Alike
<1>4. d = [c EXCEPT !.at = "save", !.row = row]
  BY DEF Calls
<1> HIDE DEF row
<1>5. d \in Calls
  BY <1>1, <1>2, <1>4, Zenon DEF Calls, Steps
<1>6. /\ d.row = row /\ d.op = c.op /\ d.why = c.why /\ d.rest = c.rest
      /\ d.alone = c.alone /\ d.at = "save" /\ d.rt = c.rt
  BY <1>4 DEF Calls
<1> QED
  BY <1>3, <1>5, <1>6 DEF Like

LEMMA CallServerPromised ==
  ASSUME OwnInv, OwnInv', Promised, NEW h \in Handlers, CallServer(h)
  PROVE  Promised'
<1> SUFFICES ASSUME NEW c, c = handler[h]
             PROVE  Promised'
  OBVIOUS
<1>1. c # Nothing /\ c.at = "call"
  BY DEF CallServer, At
<1>2. /\ Sound(c) /\ c \in Calls /\ CallOK(c) /\ Shape(c) /\ Like(c, c)
      /\ c.row \in Rows /\ c.row.id \in Ids
  BY <1>1, CallFacts
<1>3. c.why = "call" /\ ~ Switching(c) /\ HealOK(c) /\ c.row.versions \in BOOLEAN
  BY <1>1, <1>2 DEF Shape, Uses, Switching, CallOK, Rows
<1>4. ASSUME NEW known \in {TRUE, c.row.versions},
             Become(h, IF c.op = "use" THEN Nothing
                       ELSE [c EXCEPT !.at = "save", !.row.status = "connected",
                                      !.row.versions = known]),
             UNCHANGED <<clusters, cache, cordoned, submitted, mishaps>>
      PROVE  Promised'
  <2> SUFFICES ASSUME NEW d, d = [c EXCEPT !.at = "save", !.row.status = "connected",
                                           !.row.versions = known],
                      NEW e, e = IF c.op = "use" THEN Nothing ELSE d,
                      Become(h, e)
               PROVE  Promised'
    BY <1>4
  <2>1. known \in BOOLEAN
    BY <1>3
  <2>2. Like(c, d) /\ d.at = "save" /\ d.rt = c.rt
    BY <1>2, <2>1, AnsweredGoes
  <2>3. Goes(c, d) /\ \A x \in Held(d) : \E y \in Held(c) : Alike(x, y)
    BY <2>2, SameRows DEF Like
  <2>4. ~ Switching(d) /\ Shape(d)
    BY <1>2, <1>3, <2>2 DEF Switching, Shape, Like, Uses
  <2>5. HealOK(d)'
    BY <1>1, <1>3, <1>4, <2>2 DEF HealOK, Like, Alike
  <2>6. e = Nothing \/ PlainGoes(c, e)
    BY <2>3, <2>4, <2>5 DEF PlainGoes
  <2> QED
    BY <1>1, <1>3, <1>4, <2>6, PlainBecomes
<1>5. CASE Fail(h)
  BY <1>1, <1>5, FailPromised
<1> QED
  BY <1>4, <1>5 DEF CallServer

LEMMA CheckHealthPromised ==
  ASSUME OwnInv, OwnInv', Promised, NEW h \in Handlers, CheckHealth(h)
  PROVE  Promised'
<1> SUFFICES ASSUME NEW c, c = handler[h]
             PROVE  Promised'
  OBVIOUS
<1>1. c # Nothing /\ c.at = "health"
  BY DEF CheckHealth, At
<1>2. /\ Sound(c) /\ c \in Calls /\ CallOK(c) /\ Shape(c) /\ Like(c, c)
      /\ c.row \in Rows /\ c.row.id \in Ids
  BY <1>1, CallFacts
<1>3. ~ Switching(c)
  BY <1>1, <1>2 DEF Shape, Uses, Switching
<1>4. CASE /\ Become(h, Over(c))
           /\ UNCHANGED <<clusters, cache, cordoned, submitted, mishaps>>
  <2> SUFFICES ASSUME NEW d, d = Over(c)
               PROVE  Promised'
    OBVIOUS
  <2>1. d = Nothing \/ PlainGoes(c, d)
    BY <1>2, <1>3, PlainOver
  <2> QED
    BY <1>1, <1>3, <1>4, <2>1, PlainBecomes
<1>5. CASE Fail(h)
  BY <1>1, <1>5, FailPromised
<1> QED
  BY <1>4, <1>5 DEF CheckHealth

(* refreshClusterRuntimeMetadata saves a copy that is the table's but for  *)
(* the versions.                                                           *)
LEMMA DetectVersionsPromised ==
  ASSUME OwnInv, OwnInv', Promised, NEW h \in Handlers, DetectVersions(h)
  PROVE  Promised'
<1> SUFFICES ASSUME NEW c, c = handler[h]
             PROVE  Promised'
  OBVIOUS
<1>1. PICK known \in ProbedVersions :
        LET b == [c EXCEPT !.row.versions = known] IN
        /\ At(h, "detect")
        /\ Saved(b.row, {}) \/ NotSaved(b.row, {})
        /\ Become(h, Health(b))
        /\ UNCHANGED <<cache, cordoned, submitted>>
  BY DEF DetectVersions
<1> SUFFICES ASSUME NEW b, b = [c EXCEPT !.row.versions = known],
                    NEW d, d = Health(b)
             PROVE  Promised'
  OBVIOUS
<1>2. c # Nothing /\ c.at = "detect"
  BY <1>1 DEF At
<1>3. /\ Sound(c) /\ c \in Calls /\ CallOK(c) /\ Shape(c) /\ Like(c, c)
      /\ c.row \in Rows /\ c.row.id \in Ids
  BY <1>2, CallFacts
<1>4. ~ Switching(c) /\ known \in BOOLEAN
  BY <1>2, <1>3, BoundsAssumption DEF Shape, Uses, Switching
<1>5. Like(c, b)
  <2> DEFINE row == [c.row EXCEPT !.versions = known]
  <2>1. row \in Rows
    BY <1>3, <1>4, Zenon DEF Rows
  <2>2. Alike(row, c.row)
    BY <1>3 DEF Rows, Alike
  <2>3. b = [c EXCEPT !.row = row]
    BY <1>3 DEF Calls
  <2> HIDE DEF row
  <2>4. b \in Calls
    BY <1>3, <2>1, <2>3, Zenon DEF Calls
  <2>5. /\ b.row = row /\ b.op = c.op /\ b.why = c.why /\ b.rest = c.rest
        /\ b.alone = c.alone
    BY <1>3, <2>3 DEF Calls
  <2> QED
    BY <2>2, <2>4, <2>5 DEF Like
<1>6. d = Nothing \/ PlainGoes(c, d)
  BY <1>2, <1>3, <1>4, <1>5, PlainHealth
<1>7. \E row \in Rows, what \in SUBSET {"halfway"} :
        Alike(row, c.row) /\ (Saved(row, what) \/ NotSaved(row, what))
  <2>1. b.row \in Rows /\ Alike(b.row, c.row)
    BY <1>5, LikeCopy
  <2>2. {} \in SUBSET {"halfway"} /\ (Saved(b.row, {}) \/ NotSaved(b.row, {}))
    BY <1>1
  <2> QED
    BY <2>1, <2>2
<1>8. Become(h, d) /\ UNCHANGED <<cache, cordoned, submitted>>
  BY <1>1
<1> QED
  BY <1>2, <1>4, <1>6, <1>7, <1>8, PlainBecomes

(* listClusters turns to the next of the rows it loaded.                   *)
LEMMA NextRowPromised ==
  ASSUME OwnInv, OwnInv', Promised, NEW h \in Handlers, NextRow(h)
  PROVE  Promised'
<1> SUFFICES ASSUME NEW c, c = handler[h]
             PROVE  Promised'
  OBVIOUS
<1> SUFFICES ASSUME NEW r, r = Newest(c.rest),
                    NEW b, b = [c EXCEPT !.row = r, !.rest = @ \ {r}],
                    NEW d, d = IF r.versions THEN Health(b) ELSE FetchFor(b, "detect")
             PROVE  Promised'
  OBVIOUS
<1>1. /\ c # Nothing /\ c.at = "next" /\ Become(h, d)
      /\ UNCHANGED <<clusters, cache, cordoned, submitted, mishaps>>
  BY DEF NextRow, At
<1>2. /\ Sound(c) /\ c \in Calls /\ CallOK(c) /\ Shape(c) /\ Like(c, c)
      /\ c.row \in Rows /\ c.row.id \in Ids
  BY <1>1, CallFacts
<1>3. c.rest \in SUBSET Rows /\ c.rest # {}
  BY <1>1, <1>2 DEF Sound, Calls
<1>4. r \in c.rest /\ r \in Rows
  BY <1>3, NewestFacts
<1>5. c.op = "view" /\ ~ Switching(c)
  BY <1>2, <1>3 DEF Shape, Switching
<1>6. /\ b \in Calls /\ b.row = r /\ b.rest = c.rest \ {r} /\ b.op = c.op /\ b.at = "next"
      /\ b.why = c.why /\ b.alone = c.alone
  <2> SUFFICES ASSUME NEW rest, rest = c.rest \ {r}, b = [c EXCEPT !.row = r, !.rest = rest]
               PROVE  /\ b \in Calls /\ b.row = r /\ b.rest = rest /\ b.op = c.op
                      /\ b.at = "next" /\ b.why = c.why /\ b.alone = c.alone
    BY <1>2 DEF Calls
  <2>1. rest \in SUBSET Rows
    BY <1>3
  <2>2. b \in Calls
    BY <1>2, <1>4, <2>1, Zenon DEF Calls
  <2>3. /\ b.row = r /\ b.rest = rest /\ b.op = c.op
        /\ b.at = "next" /\ b.why = c.why /\ b.alone = c.alone
    BY <1>1, <1>2 DEF Calls
  <2> QED
    BY <2>2, <2>3
<1>7. Like(b, b) /\ Shape(b) /\ ~ Switching(b)
  BY <1>2, <1>5, <1>6 DEF Like, Alike, Shape, Switching, Uses
<1>8. Goes(c, b) /\ Held(b) \subseteq Held(c)
  BY <1>4, <1>6 DEF Goes, On, Held
<1>9. d = Nothing \/ PlainGoes(b, d)
  <2>1. CASE r.versions
    <3>1. d = Health(b)
      BY <2>1
    <3> QED
      BY <1>6, <1>7, <3>1, PlainHealth
  <2>2. CASE ~ r.versions
    <3>1. d = FetchFor(b, "detect") /\ "detect" \in Uses
      BY <2>2 DEF Uses
    <3>2. /\ d.op = b.op /\ d.at = "fetch" /\ d.why = "detect" /\ d.row = b.row
          /\ d.rest = b.rest /\ d.alone = b.alone
      BY ONLY <1>6, <3>1, FetchForGoes
    <3>3. Alike(d.row, b.row)
      BY <3>2 DEF Alike
    <3>4. Goes(b, d) /\ \A x \in Held(d) : \E y \in Held(b) : Alike(x, y)
      BY <3>2, <3>3, SameRows
    <3>5. ~ Switching(d) /\ Shape(d) /\ HealOK(d)'
      BY <1>5, <1>6, <3>2 DEF Switching, Shape, HealOK, Uses
    <3> QED
      BY <3>4, <3>5 DEF PlainGoes
  <2> QED
    BY <2>1, <2>2
<1>10. PlainGoes(b, d) => PlainGoes(c, d)
  BY <1>8 DEF PlainGoes, Goes
<1> QED
  BY <1>1, <1>5, <1>9, <1>10, PlainBecomes

(* db.Save: the row in the table is what the request has brought about.    *)
LEMMA SaveRowPromised ==
  ASSUME OwnInv, OwnInv', Promised, NEW h \in Handlers, SaveRow(h)
  PROVE  Promised'
<1> SUFFICES ASSUME NEW c, c = handler[h], NEW e, e = Health(c)
             PROVE  Promised'
  OBVIOUS
<1>1. /\ c # Nothing /\ c.at = "save"
      /\ \/ Saved(c.row, {}) /\ Become(h, e)
         \/ NotSaved(c.row, {}) /\ Become(h, Nothing)
      /\ UNCHANGED <<cache, cordoned, submitted>>
  BY DEF SaveRow, At
<1>2. /\ Sound(c) /\ c \in Calls /\ CallOK(c) /\ Shape(c) /\ Like(c, c)
      /\ c.row \in Rows /\ c.row.id \in Ids
  BY <1>1, CallFacts
<1>3. Alike(c.row, c.row) /\ {} \in SUBSET {"halfway"}
  BY DEF Alike
<1>4. CASE ~ Switching(c)
  <2>1. e = Nothing \/ PlainGoes(c, e)
    BY <1>1, <1>2, <1>4, PlainHealth
  <2>2. \E row \in Rows, what \in SUBSET {"halfway"} :
          Alike(row, c.row) /\ (Saved(row, what) \/ NotSaved(row, what))
    BY <1>1, <1>2, <1>3
  <2>3. PICK d \in {e, Nothing} : Become(h, d)
    BY <1>1
  <2>4. d = Nothing \/ PlainGoes(c, d)
    BY <2>1
  <2> QED
    BY <1>1, <1>4, <2>2, <2>3, <2>4, PlainBecomes
<1>5. CASE Switching(c)
  <2>1. c.op \in Changers /\ c.rest = {} /\ c.op \in {"create", "update"} /\ c.why = "list"
    BY <1>1, <1>2, <1>5 DEF Switching, Changers, Shape
  <2>2. CASE Saved(c.row, {}) /\ Become(h, e)
    <3>1. Remembers(c) /\ mishaps'[c.row.id] = mishaps[c.row.id] \cup {}
      BY <1>2, <2>2, RememberFacts DEF Saved
    <3>2. mishaps'[c.row.id] = {} /\ Unshared(c.row) => NodesFollow(c.row)
      <4>1. SwitchOK(c)
        BY <1>2 DEF CallOK
      <4> QED
        BY <1>1, <1>5, <3>1, <4>1 DEF SwitchOK, Quiet
    <3>3. e = Nothing \/ (/\ Goes(c, e) /\ Shape(e) /\ e.rest = {} /\ e.op # "test"
                          /\ e.row = c.row /\ ~ Switching(e))
      <4>1. CASE c.row.status = "connected"
        <5>1. e = FetchFor(c, "health") /\ "health" \in Uses
          BY <4>1 DEF Health, Uses
        <5>2. /\ e.op = c.op /\ e.at = "fetch" /\ e.why = "health" /\ e.row = c.row
              /\ e.rest = c.rest /\ e.alone = c.alone
          BY ONLY <1>2, <5>1, FetchForGoes
        <5>3. Goes(c, e)
          BY <1>3, <5>2, SameRows
        <5> QED
          BY <2>1, <5>2, <5>3 DEF Shape, Switching, Uses
      <4>2. CASE c.row.status # "connected"
        BY <2>1, <4>2 DEF Health, Over
      <4> QED
        BY <4>1, <4>2
    <3>4. /\ handler' = [handler EXCEPT ![h] = e] /\ UNCHANGED <<nextId, submitted, cache, cordoned>>
          /\ clusters' = Upsert(clusters, c.row) /\ c.at # "invalidate"
      BY <1>1, <2>2 DEF Become, Saved
    <3> QED
      BY <1>1, <1>2, <1>3, <2>1, <3>1, <3>2, <3>3, <3>4, EndStep
  <2>3. CASE NotSaved(c.row, {}) /\ Become(h, Nothing)
    <3>1. Remember(c.row.id, {} \cup {"unsaved"})
      BY <2>3 DEF NotSaved
    <3>2. Remembers(c) /\ "unsaved" \in mishaps'[c.row.id]
      BY <1>2, <3>1, RememberFacts
    <3>3. /\ handler' = [handler EXCEPT ![h] = Nothing] /\ clusters' = clusters
          /\ UNCHANGED <<nextId, submitted, cache, cordoned>>
      BY <1>1, <2>3 DEF Become, NotSaved
    <3> QED
      BY <1>1, <1>2, <1>3, <2>1, <3>2, <3>3, EndStep
  <2> QED
    BY <1>1, <2>2, <2>3
<1> QED
  BY <1>4, <1>5

(* deleteCluster, and createCluster taking its row back.                   *)
LEMMA DeleteRowPromised ==
  ASSUME OwnInv, OwnInv', Promised, NEW h \in Handlers, DeleteRow(h)
  PROVE  Promised'
<1> SUFFICES ASSUME NEW c, c = handler[h]
             PROVE  Promised'
  OBVIOUS
<1>1. /\ c # Nothing /\ c.at = "delete" /\ Become(h, Nothing)
      /\ \/ clusters' = Without(clusters, c.row.id) /\ UNCHANGED mishaps
         \/ NotSaved(c.row, {})
      /\ UNCHANGED <<cache, cordoned, submitted>>
  BY DEF DeleteRow, At
<1>2. /\ Sound(c) /\ c \in Calls /\ CallOK(c) /\ Shape(c) /\ Like(c, c)
      /\ c.row \in Rows /\ c.row.id \in Ids
  BY <1>1, CallFacts
<1>3. c.op \in Changers /\ Alike(c.row, c.row)
  BY <1>1, <1>2 DEF Shape, Changers, Alike
<1>4. /\ handler' = [handler EXCEPT ![h] = Nothing]
      /\ UNCHANGED <<nextId, submitted, cache, cordoned>>
  BY <1>1 DEF Become
<1>5. CASE clusters' = Without(clusters, c.row.id) /\ UNCHANGED mishaps
  <2>1. Remembers(c)
    BY <1>5 DEF Remembers
  <2> QED
    BY <1>1, <1>2, <1>3, <1>4, <1>5, <2>1, EndStep
<1>6. CASE NotSaved(c.row, {})
  <2>1. Remember(c.row.id, {} \cup {"unsaved"}) /\ clusters' = clusters
    BY <1>6 DEF NotSaved
  <2>2. Remembers(c) /\ "unsaved" \in mishaps'[c.row.id]
    BY <1>2, <2>1, RememberFacts
  <2> QED
    BY <1>1, <1>2, <1>3, <1>4, <2>1, <2>2, EndStep
<1> QED
  BY <1>1, <1>5, <1>6


-----------------------------------------------------------------------------
(* A request arrives.                                                      *)

(* d is b but for what it knows of the others on its rows.                 *)
AsWas(b, d) == /\ d.op = b.op /\ d.at = b.at /\ d.why = b.why /\ d.row = b.row /\ d.rt = b.rt
               /\ d.want = b.want /\ d.nodes = b.nodes /\ d.rest = b.rest

LEMMA AloneIs ==
  ASSUME NEW b \in Calls, NEW v \in BOOLEAN, NEW d, d = [b EXCEPT !.alone = v]
  PROVE  AsWas(b, d) /\ d \in Calls /\ d # Nothing /\ d.alone = v
<1>1. d \in Calls
  BY Zenon DEF Calls
<1>2. AsWas(b, d) /\ d.alone = v
  BY DEF Calls, AsWas
<1> QED
  BY <1>1, <1>2, NothingAssumption

LEMMA AsWasSame ==
  ASSUME NEW b, NEW d, AsWas(b, d)
  PROVE  /\ On(d) = On(b) /\ Held(d) = Held(b)
         /\ (Switching(d) => Switching(b)) /\ (Switching(b) => Switching(d))
         /\ Shape(b) => Shape(d)
BY DEF AsWas, On, Held, Switching, Shape

(* What is true of each handler after Arrive, and of the histories.        *)
LEMMA ArriveFacts ==
  ASSUME OwnInv, NEW h \in Handlers, NEW c \in Calls, Arrive(h, c)
  PROVE  /\ handler[h] = Nothing
         /\ handler'[h] # Nothing /\ AsWas(c, handler'[h])
         /\ \A g \in Handlers \ {h} :
              /\ handler[g] = Nothing => handler'[g] = Nothing
              /\ handler[g] # Nothing =>
                   /\ handler'[g] # Nothing /\ AsWas(handler[g], handler'[g])
                   /\ handler'[g].alone => handler[g].alone
                   /\ \A i \in On(handler[g]) \cap On(c) :
                        /\ ~ handler'[g].alone /\ ~ handler'[h].alone
                        /\ {handler[g].op, c.op} \cap Changers # {} /\ i \in Ids
                           => "overlap" \in mishaps'[i]
         /\ \A i \in Ids : mishaps[i] \subseteq mishaps'[i]
<1> SUFFICES ASSUME NEW met, met = {g \in InFlight : On(handler[g]) \cap On(c) # {}}
             PROVE  /\ handler[h] = Nothing
                    /\ handler'[h] # Nothing /\ AsWas(c, handler'[h])
                    /\ \A g \in Handlers \ {h} :
                         /\ handler[g] = Nothing => handler'[g] = Nothing
                         /\ handler[g] # Nothing =>
                              /\ handler'[g] # Nothing /\ AsWas(handler[g], handler'[g])
                              /\ handler'[g].alone => handler[g].alone
                              /\ \A i \in On(handler[g]) \cap On(c) :
                                   /\ ~ handler'[g].alone /\ ~ handler'[h].alone
                                   /\ {handler[g].op, c.op} \cap Changers # {} /\ i \in Ids
                                      => "overlap" \in mishaps'[i]
                    /\ \A i \in Ids : mishaps[i] \subseteq mishaps'[i]
  OBVIOUS
<1>1. /\ handler[h] = Nothing
      /\ handler' = [g \in Handlers |->
           IF g = h THEN [c EXCEPT !.alone = (met = {})]
           ELSE IF g \in met THEN [handler[g] EXCEPT !.alone = FALSE] ELSE handler[g]]
  BY DEF Arrive
<1>2. \A i \in Ids :
        /\ mishaps[i] \subseteq mishaps'[i]
        /\ (\E g \in met : /\ i \in On(handler[g]) \cap On(c)
                           /\ {c.op, handler[g].op} \cap Changers # {})
           => "overlap" \in mishaps'[i]
  BY DEF Arrive
<1>3. ASSUME NEW v \in BOOLEAN, v = (met = {})
      PROVE  handler'[h] # Nothing /\ AsWas(c, handler'[h]) /\ (met # {} => ~ handler'[h].alone)
  <2>1. handler'[h] = [c EXCEPT !.alone = v]
    BY <1>1, <1>3
  <2>2. AsWas(c, handler'[h]) /\ handler'[h] # Nothing /\ handler'[h].alone = v
    BY <2>1, AloneIs
  <2> QED
    BY <1>3, <2>2
<1>4. handler'[h] # Nothing /\ AsWas(c, handler'[h]) /\ (met # {} => ~ handler'[h].alone)
  BY <1>3
<1>5. ASSUME NEW g \in Handlers \ {h}, NEW b, b = handler[g], NEW d, d = handler'[g]
      PROVE  /\ b = Nothing => d = Nothing
             /\ b # Nothing => /\ d # Nothing /\ AsWas(b, d)
                               /\ d.alone => b.alone
                               /\ \A i \in On(b) \cap On(c) :
                                    /\ ~ d.alone /\ ~ handler'[h].alone
                                    /\ {b.op, c.op} \cap Changers # {} /\ i \in Ids
                                       => "overlap" \in mishaps'[i]
  <2>1. CASE b = Nothing
    <3>1. g \notin met
      BY <1>5, <2>1 DEF InFlight
    <3> QED
      BY <1>1, <1>5, <2>1, <3>1
  <2>2. CASE b # Nothing /\ g \in met
    <3>1. b \in Calls
      BY <1>5, <2>2 DEF OwnInv, TypeOK
    <3>2. d = [b EXCEPT !.alone = FALSE]
      BY <1>1, <1>5, <2>2
    <3>3. AsWas(b, d) /\ d # Nothing /\ d.alone = FALSE
      BY <3>1, <3>2, AloneIs
    <3>4. \A i \in On(b) \cap On(c) :
            {b.op, c.op} \cap Changers # {} /\ i \in Ids => "overlap" \in mishaps'[i]
      BY <1>2, <1>5, <2>2
    <3> QED
      BY <1>4, <2>2, <3>3, <3>4
  <2>3. CASE b # Nothing /\ g \notin met
    <3>1. d = b
      BY <1>1, <1>5, <2>3
    <3>2. On(b) \cap On(c) = {}
      BY <1>5, <2>3 DEF InFlight
    <3> QED
      BY <2>3, <3>1, <3>2 DEF AsWas
  <2> QED
    BY <2>1, <2>2, <2>3
<1> QED
  BY <1>1, <1>2, <1>4, <1>5

(* What the handlers relied on, they still do.                             *)
LEMMA CallKept ==
  ASSUME OwnInv, Promised, NEW b \in Calls, CallOK(b), NEW d, AsWas(b, d), d.alone => b.alone,
         UNCHANGED <<cache, cordoned>>, clusters \subseteq clusters',
         \A i \in Ids : submitted[i] \subseteq submitted'[i] /\ mishaps[i] \subseteq mishaps'[i]
  PROVE  CallOK(d)'
<1>1. b.row \in Rows /\ b.row.id \in Ids /\ Held(b) \subseteq Rows
  BY DEF Calls, Rows, Held
<1>2. \A i \in Ids : Quiet(i)' => Quiet(i)
  BY DEF Quiet
<1>3. Shape(d)'
  BY AsWasSame DEF CallOK, Shape
<1>4. Unshared(d.row)' => Unshared(b.row)
  BY <1>1 DEF Unshared, AsWas
<1>5. SwitchOK(d)'
  <2>1. Switching(d)' => Switching(b)
    BY AsWasSame DEF Switching
  <2> SUFFICES ASSUME Switching(b), Quiet(b.row.id)
               PROVE  /\ d.at \in {"list", "patch"} => d.rt = d.row.cfg
                      /\ Unshared(d.row)' =>
                         /\ d.at = "patch" => IF d.want = "maintenance"
                                              THEN Workers \subseteq cordoned'[d.row.cfg] \cup d.nodes
                                              ELSE cordoned'[d.row.cfg] \subseteq d.nodes
                         /\ d.at = "save" => NodesFollow(d.row)'
    BY <1>1, <1>2, <2>1 DEF SwitchOK, AsWas
  <2> QED
    BY <1>4 DEF CallOK, SwitchOK, AsWas, NodesFollow
<1>6. HealOK(d)'
  <2> SUFFICES ASSUME b.op = "test", b.alone, b.why = "call"
               PROVE  /\ \E r \in clusters' : r.id = d.row.id /\ r.cfg = d.row.cfg
                      /\ d.at \in {"fetch", "store"} => cache'[d.row.id] = Nothing
                      /\ d.at \in {"call", "save"} =>
                            d.rt = d.row.cfg /\ cache'[d.row.id] = d.row.cfg
    BY DEF HealOK, AsWas
  <2> QED
    BY DEF CallOK, HealOK, AsWas
<1>7. ASSUME NEW x \in Held(d)
      PROVE  CopyOK(d, x)'
  <2>1. x \in Held(b) /\ x.id \in Ids
    BY <1>1, AsWasSame DEF Rows
  <2>2. CopyOK(b, x)
    BY <2>1 DEF CallOK
  <2>3. (Switching(b) => Switching(d)) /\ d.at = b.at
    BY AsWasSame DEF AsWas
  <2>4. Kept(x) => Kept(x)'
    BY DEF Kept
  <2>5. Switching(d) => Switching(d)'
    BY DEF Switching
  <2> QED
    BY <1>2, <2>1, <2>2, <2>3, <2>4, <2>5 DEF CopyOK
<1> QED
  BY <1>3, <1>5, <1>6, <1>7 DEF CallOK


(* A new request may rely on what it loads: whoever is out of step with    *)
(* the table is overlapped now.                                            *)
LEMMA RequestPromised ==
  ASSUME OwnInv, OwnInv', Promised, NEW h \in Handlers, NEW c \in Calls, Arrive(h, c),
         UNCHANGED <<cache, cordoned>>, \A i \in Ids : submitted[i] \subseteq submitted'[i],
         \A i \in Ids : i >= nextId' => submitted'[i] = {},
         \/ clusters' = clusters
         \/ \E row \in Rows : /\ clusters' = clusters \cup {row} /\ row.id = nextId /\ c.row = row
                              /\ row.mode = "maintenance" => Switching(c),
         Shape(c), c.at \notin {"list", "patch"}, c.at = "save" => ~ Switching(c),
         c.op = "test" => c.at = "invalidate" /\ c.row \in clusters,
         \A x \in Held(c) : \/ Switching(c) /\ c.at = "invalidate"
                            \/ \E r \in clusters : Alike(r, x)
                            \/ x \in clusters' /\ x.id = nextId
  PROVE  Promised'
<1>1. clusters \subseteq clusters' /\ clusters \subseteq Rows /\ clusters' \subseteq Rows
  BY DEF OwnInv, TypeOK
<1>2. /\ handler[h] = Nothing
      /\ handler'[h] # Nothing /\ AsWas(c, handler'[h])
      /\ \A g \in Handlers \ {h} :
           /\ handler[g] = Nothing => handler'[g] = Nothing
           /\ handler[g] # Nothing =>
                /\ handler'[g] # Nothing /\ AsWas(handler[g], handler'[g])
                /\ handler'[g].alone => handler[g].alone
                /\ \A i \in On(handler[g]) \cap On(c) :
                     /\ ~ handler'[g].alone /\ ~ handler'[h].alone
                     /\ {handler[g].op, c.op} \cap Changers # {} /\ i \in Ids
                        => "overlap" \in mishaps'[i]
      /\ \A i \in Ids : mishaps[i] \subseteq mishaps'[i]
  BY ArriveFacts
<1>3. ASSUME NEW i, SwitchedBy(i)
      PROVE  SwitchedBy(i)' /\ (i \in On(c) /\ i \in Ids => "overlap" \in mishaps'[i])
  <2>1. PICK g \in InFlight : handler[g].row.id = i /\ Switching(handler[g])
    BY <1>3 DEF SwitchedBy
  <2>2. g \in Handlers \ {h} /\ handler[g] # Nothing
    BY <1>2, <2>1 DEF InFlight
  <2>3. handler'[g] # Nothing /\ AsWas(handler[g], handler'[g])
    BY <1>2, <2>2
  <2>4. Switching(handler'[g]) /\ handler'[g].row.id = i
    BY <2>1, <2>3, AsWasSame DEF AsWas
  <2>5. SwitchedBy(i)'
    BY <2>2, <2>3, <2>4 DEF SwitchedBy, InFlight, Switching
  <2>6. i \in On(handler[g]) /\ {handler[g].op, c.op} \cap Changers # {}
    BY <2>1 DEF On, Switching, Changers
  <2> QED
    BY <1>2, <2>2, <2>5, <2>6
<1>4. (\A r, s \in clusters : r.id = s.id => r = s)'
  <2>1. \A r \in clusters : r.id # nextId
    BY BoundsAssumption DEF OwnInv, TypeOK, Known, Rows, Ids
  <2>2. \A r, s \in clusters' : r.id = s.id => r = s
    BY <2>1 DEF Promised
  <2> QED
    BY <2>2
<1>5. (\A r \in clusters : RowOK(r))'
  <2> SUFFICES ASSUME NEW r \in clusters'
               PROVE  RowOK(r)'
    OBVIOUS
  <2>1. r.id \in Ids
    BY <1>1 DEF Rows
  <2>2. CASE r \in clusters
    <3>1. RowOK(r)
      BY <2>2 DEF Promised
    <3>2. Unshared(r)' => Unshared(r)
      BY DEF Unshared
    <3> QED
      BY <1>2, <1>3, <2>1, <3>1, <3>2 DEF RowOK, Quiet, NodesFollow
  <2>3. CASE r \notin clusters
    <3>1. r.id = nextId /\ c.row = r /\ (r.mode = "maintenance" => Switching(c))
      BY <2>3
    <3>2. cache'[r.id] = Nothing
      BY <2>1, <3>1, BoundsAssumption DEF OwnInv, TypeOK, Ids
    <3>3. Switching(c) => SwitchedBy(r.id)'
      <4>1. Switching(c) => Switching(handler'[h]) /\ handler'[h].row.id = r.id
        BY <1>2, <3>1, AsWasSame DEF AsWas
      <4> QED
        BY <1>2, <4>1 DEF SwitchedBy, InFlight, Switching
    <3> QED
      BY <3>1, <3>2, <3>3 DEF RowOK
  <2> QED
    BY <2>2, <2>3
<1>6. ASSUME NEW x \in Held(c)
      PROVE  CopyOK(c, x)'
  <2>1. x.id \in On(c) /\ x.id \in Ids
    BY HeldOn DEF Held, Calls, Rows
  <2>2. CASE Switching(c) /\ c.at = "invalidate"
    BY <2>2 DEF CopyOK, Switching
  <2>3. ASSUME NEW r \in clusters, Alike(r, x)
        PROVE  CopyOK(c, x)'
    <3>1. RowOK(r) /\ r.id = x.id /\ r.cfg = x.cfg
      BY <2>3 DEF Promised, Alike
    <3>2. Quiet(x.id)' => Quiet(x.id) /\ ~ SwitchedBy(x.id)
      BY <1>2, <1>3, <2>1 DEF Quiet
    <3>3. Kept(x)'
      BY <1>1, <2>3 DEF Kept, Alike
    <3> QED
      BY <3>1, <3>2, <3>3 DEF CopyOK, RowOK
  <2>4. CASE x \in clusters' /\ x.id = nextId
    <3>1. cache'[x.id] = Nothing
      BY <2>1, <2>4, BoundsAssumption DEF OwnInv, TypeOK, Ids
    <3>2. Kept(x)'
      BY <2>4 DEF Kept
    <3> QED
      BY <3>1, <3>2 DEF CopyOK
  <2> QED
    BY <2>2, <2>3, <2>4
<1>7. ASSUME NEW d, d = handler'[h]
      PROVE  CallOK(d)'
  <2>1. AsWas(c, d)
    BY <1>2, <1>7
  <2>2. Held(d) = Held(c) /\ Shape(d) /\ (Switching(d) => Switching(c))
        /\ (Switching(c) => Switching(d))
    BY <2>1, AsWasSame
  <2>3. SwitchOK(d)'
    BY <2>1, <2>2 DEF SwitchOK, AsWas, Switching
  <2>4. HealOK(d)'
    BY <1>1, <2>1 DEF HealOK, AsWas
  <2>5. ASSUME NEW x \in Held(d)
        PROVE  CopyOK(d, x)'
    <3>1. CopyOK(c, x)' /\ d.at = c.at
      BY <1>6, <2>1, <2>2 DEF AsWas
    <3> QED
      BY <2>2, <3>1 DEF CopyOK, Switching
  <2> QED
    BY <2>2, <2>3, <2>4, <2>5 DEF CallOK, Shape
<1>8. (\A g \in Handlers : handler[g] # Nothing => CallOK(handler[g]))'
  <2> SUFFICES ASSUME NEW g \in Handlers, NEW d, d = handler'[g], d # Nothing
               PROVE  CallOK(d)'
    OBVIOUS
  <2>1. CASE g = h
    BY <1>7, <2>1
  <2>2. CASE g # h
    <3> SUFFICES ASSUME NEW b, b = handler[g]
                 PROVE  CallOK(d)'
      OBVIOUS
    <3>1. b # Nothing /\ AsWas(b, d) /\ (d.alone => b.alone)
      BY <1>2, <2>2
    <3>2. b \in Calls /\ CallOK(b)
      BY <3>1 DEF OwnInv, TypeOK, Promised
    <3>3. \A i \in Ids : submitted[i] \subseteq submitted'[i] /\ mishaps[i] \subseteq mishaps'[i]
      BY <1>2
    <3> QED
      BY <1>1, <3>1, <3>2, <3>3, CallKept
  <2> QED
    BY <2>1, <2>2
<1>9. (\A f, g \in Handlers : f # g /\ handler[f] # Nothing /\ handler[g] # Nothing
                              => Apart(handler[f], handler[g]))'
  <2>1. ASSUME NEW g \in Handlers \ {h}, NEW b, b = handler'[g], b # Nothing,
               NEW a, a = handler'[h]
        PROVE  Apart(a, b)' /\ Apart(b, a)'
    <3>1. /\ handler[g] # Nothing /\ AsWas(handler[g], b) /\ AsWas(c, a)
          /\ \A i \in On(handler[g]) \cap On(c) :
                 /\ ~ b.alone /\ ~ a.alone
                 /\ {handler[g].op, c.op} \cap Changers # {} /\ i \in Ids
                    => "overlap" \in mishaps'[i]
      BY <1>2, <2>1
    <3>2. On(a) = On(c) /\ On(b) = On(handler[g]) /\ a.op = c.op /\ b.op = handler[g].op
      BY <3>1, AsWasSame DEF AsWas
    <3>3. On(c) \subseteq Ids
      BY DEF On, Calls, Rows
    <3>4. {a.op, b.op} = {handler[g].op, c.op} /\ {b.op, a.op} = {handler[g].op, c.op}
      BY <3>2
    <3> QED
      BY <3>1, <3>2, <3>3, <3>4 DEF Apart
  <2>2. ASSUME NEW f \in Handlers \ {h}, NEW g \in Handlers \ {h}, f # g,
               NEW a, a = handler'[f], NEW b, b = handler'[g], a # Nothing, b # Nothing
        PROVE  Apart(a, b)'
    <3>1. /\ handler[f] # Nothing /\ AsWas(handler[f], a) /\ (a.alone => handler[f].alone)
          /\ handler[g] # Nothing /\ AsWas(handler[g], b) /\ (b.alone => handler[g].alone)
      BY <1>2, <2>2
    <3>2. Apart(handler[f], handler[g])
      BY <2>2, <3>1 DEF Promised
    <3>3. /\ On(a) = On(handler[f]) /\ a.op = handler[f].op
          /\ On(b) = On(handler[g]) /\ b.op = handler[g].op
      BY <3>1, AsWasSame DEF AsWas
    <3>4. On(a) \subseteq Ids
      <4> SUFFICES ASSUME NEW b0, b0 = handler[f]
                   PROVE  On(b0) \subseteq Ids
        BY <3>3
      <4>1. b0 \in Calls
        BY <3>1, HandlerSound
      <4> QED
        BY ONLY <4>1 DEF On, Calls, Rows
    <3> QED
      BY <1>2, <3>1, <3>2, <3>3, <3>4 DEF Apart
  <2> SUFFICES ASSUME NEW f \in Handlers, NEW g \in Handlers, f # g,
                      NEW a, a = handler'[f], NEW b, b = handler'[g], a # Nothing, b # Nothing
               PROVE  Apart(a, b)'
    OBVIOUS
  <2>3. CASE f = h
    BY <2>1, <2>3
  <2>4. CASE g = h
    BY <2>1, <2>4
  <2>5. CASE f # h /\ g # h
    BY <2>2, <2>5
  <2> QED
    BY <2>3, <2>4, <2>5
<1>10. (\A i \in Ids : i >= nextId => submitted[i] = {})'
  OBVIOUS
<1> QED
  BY <1>4, <1>5, <1>8, <1>9, <1>10 DEF Promised


LEMMA StartIs ==
  ASSUME NEW op \in Ops, NEW at \in Steps, NEW row \in Rows
  PROVE  LET c == Start(op, at, row)
         IN /\ c \in Calls /\ c.op = op /\ c.at = at /\ c.row = row /\ c.why = "call"
            /\ c.rest = {}
BY DEF Start, Calls, Rows, Steps, Uses, Modes

(* getCluster and listClusters hold what they loaded.                      *)
LEMMA ViewPromised ==
  ASSUME OwnInv, OwnInv', Promised, NEW h \in Handlers, View(h)
  PROVE  Promised'
<1>1. PICK rows \in {clusters} \cup {{r} : r \in clusters} :
        rows # {} /\ Arrive(h, [Start("view", "next", Newest(rows)) EXCEPT !.rest = rows])
  BY DEF View
<1>2. rows \subseteq clusters /\ rows \in SUBSET Rows
  BY DEF OwnInv, TypeOK
<1>3. Newest(rows) \in rows
  BY <1>1, <1>2, NewestFacts
<1> SUFFICES ASSUME NEW s, s = Start("view", "next", Newest(rows)),
                    NEW c, c = [s EXCEPT !.rest = rows], Arrive(h, c)
             PROVE  Promised'
  BY <1>1
<1>4. s \in Calls /\ s.op = "view" /\ s.at = "next" /\ s.row = Newest(rows) /\ s.why = "call"
  <2>1. "view" \in Ops /\ "next" \in Steps /\ Newest(rows) \in Rows
    BY <1>2, <1>3 DEF Ops, Steps
  <2> QED
    BY ONLY <2>1, StartIs, s = Start("view", "next", Newest(rows))
<1>5. c \in Calls
  BY <1>2, <1>4, Zenon DEF Calls
<1>6. /\ c.op = "view" /\ c.at = "next" /\ c.row = Newest(rows) /\ c.why = "call"
      /\ c.rest = rows
  BY <1>4 DEF Calls
<1>7. Shape(c) /\ ~ Switching(c)
  BY <1>6 DEF Shape, Switching, Uses
<1>8. \A x \in Held(c) : \E r \in clusters : Alike(r, x)
  BY <1>2, <1>3, <1>6 DEF Held, Alike
<1> QED
  BY <1>5, <1>6, <1>7, <1>8, RequestPromised DEF View, Promised

(* createCluster holds the row it has just inserted.                       *)
LEMMA CreatePromised ==
  ASSUME OwnInv, OwnInv', Promised, NEW h \in Handlers, Create(h)
  PROVE  Promised'
<1>1. PICK k \in Configs, m \in AskedModes, known \in ProbedVersions :
        LET row == [id |-> nextId, cfg |-> k, mode |-> m, status |-> "connected",
                    versions |-> known]
            s == Start("create", "fetch", row)
        IN
        /\ nextId <= MaxClusters /\ nextId' = nextId + 1
        /\ clusters' = clusters \cup {row}
        /\ submitted' = [submitted EXCEPT ![nextId] = {k}]
        /\ Arrive(h, FetchFor(s, IF m = "maintenance" THEN "list" ELSE "health"))
        /\ UNCHANGED <<cache, cordoned, crashes>>
  BY DEF Create
<1> SUFFICES ASSUME NEW row, row = [id |-> nextId, cfg |-> k, mode |-> m,
                                    status |-> "connected", versions |-> known],
                    NEW s, s = Start("create", "fetch", row),
                    NEW why, why = IF m = "maintenance" THEN "list" ELSE "health",
                    NEW c, c = FetchFor(s, why), Arrive(h, c)
             PROVE  Promised'
  BY <1>1
<1>2. nextId \in Ids /\ nextId \in Nat /\ m \in Modes /\ known \in BOOLEAN /\ why \in Uses
  BY <1>1, BoundsAssumption DEF OwnInv, TypeOK, Ids, Modes, Uses
<1>3. row \in Rows /\ row.id = nextId /\ row.mode = m
  BY <1>2 DEF Rows
<1>4. s \in Calls /\ s.op = "create" /\ s.row = row /\ s.rest = {}
  <2>1. "create" \in Ops /\ "fetch" \in Steps
    BY DEF Ops, Steps
  <2> QED
    BY ONLY <1>3, <2>1, StartIs, s = Start("create", "fetch", row)
<1>5. c \in Calls
  BY <1>2, <1>4, FetchForFacts
<1>6. c.op = "create" /\ c.at = "fetch" /\ c.row = row /\ c.why = why /\ c.rest = {}
  BY ONLY <1>2, <1>4, FetchForGoes, c = FetchFor(s, why)
<1>7. Shape(c) /\ (m = "maintenance" => Switching(c))
  BY <1>6 DEF Shape, Switching, Uses
<1>8. /\ \A i \in Ids : submitted[i] \subseteq submitted'[i]
      /\ \A i \in Ids : i >= nextId' => submitted'[i] = {}
  <2>1. nextId' = nextId + 1 /\ submitted' = [submitted EXCEPT ![nextId] = {k}]
    BY <1>1
  <2>2. submitted[nextId] = {} /\ \A i \in Ids : i >= nextId => submitted[i] = {}
    BY <1>2 DEF Promised
  <2> QED
    BY <1>2, <2>1, <2>2 DEF OwnInv, TypeOK, Ids
<1>9. \A x \in Held(c) : x \in clusters' /\ x.id = nextId
  BY <1>1, <1>3, <1>6 DEF Held
<1> QED
  BY <1>1, <1>3, <1>5, <1>6, <1>7, <1>8, <1>9, RequestPromised


(* updateCluster holds a row of the table, or one with the new kubeconfig  *)
(* that it is to carry to the nodes.                                       *)
LEMMA UpdatePromised ==
  ASSUME OwnInv, OwnInv', Promised, NEW h \in Handlers, Update(h)
  PROVE  Promised'
<1>1. PICK r \in clusters, given \in Configs \cup {Nothing}, m \in AskedModes,
           known \in ProbedVersions :
        LET row == IF given = Nothing THEN r
                   ELSE [r EXCEPT !.cfg = given, !.status = "connected", !.versions = known]
            c == [Start("update", "save", row) EXCEPT !.want = m]
        IN
        /\ submitted' = IF given = Nothing THEN submitted
                        ELSE [submitted EXCEPT ![r.id] = @ \cup {given}]
        /\ Arrive(h, Sync(c, given))
        /\ UNCHANGED <<clusters, nextId, cache, cordoned, crashes>>
  BY DEF Update
<1> SUFFICES ASSUME NEW row,
                    row = IF given = Nothing THEN r
                          ELSE [r EXCEPT !.cfg = given, !.status = "connected",
                                         !.versions = known],
                    NEW s, s = Start("update", "save", row),
                    NEW b, b = [s EXCEPT !.want = m],
                    NEW c, c = Sync(b, given), Arrive(h, c)
             PROVE  Promised'
  BY <1>1
<1>2. /\ submitted' = IF given = Nothing THEN submitted
                      ELSE [submitted EXCEPT ![r.id] = @ \cup {given}]
      /\ UNCHANGED <<clusters, nextId, cache, cordoned, crashes>>
  BY <1>1
<1>3. r \in Rows /\ Known(r) /\ m \in Modes /\ known \in BOOLEAN
  BY BoundsAssumption DEF OwnInv, TypeOK, Modes
<1>4. row \in Rows
  <2>1. CASE given = Nothing
    BY <1>3, <2>1
  <2>2. CASE given # Nothing
    BY <1>3, <2>2, Zenon DEF Rows
  <2> QED
    BY <2>1, <2>2
<1>5. s \in Calls /\ s.op = "update" /\ s.row = row /\ s.rest = {} /\ s.why = "call"
  <2>1. "update" \in Ops /\ "save" \in Steps
    BY DEF Ops, Steps
  <2> QED
    BY ONLY <1>4, <2>1, StartIs, s = Start("update", "save", row)
<1>6. b \in Calls
  BY <1>3, <1>5, Zenon DEF Calls
<1>7. b.op = "update" /\ b.row = row /\ b.rest = {} /\ b.why = "call"
  BY <1>5 DEF Calls
<1>8. /\ c \in Calls /\ c.op = "update" /\ c.row = row /\ c.rest = {}
      /\ \/ c.at = "invalidate" /\ c.why = "call"
         \/ c.at = "save" /\ c.why = "call" /\ given = Nothing
         \/ c.at = "fetch" /\ c.why = "list" /\ given = Nothing
  <2>1. CASE given # Nothing
    <3>1. c = [b EXCEPT !.at = "invalidate"]
      BY <2>1 DEF Sync
    <3>2. Same(b, c) /\ c.at = "invalidate" /\ c.why = b.why
      BY ONLY <1>6, <3>1, MovesTo
    <3> QED
      BY <1>7, <3>2 DEF Same
  <2>2. CASE given = Nothing /\ b.want = b.row.mode
    <3>1. c = [b EXCEPT !.at = "save"] /\ "save" \in Steps
      BY <2>2 DEF Sync, Steps
    <3>2. c \in Calls
      BY <1>6, <3>1, Zenon DEF Calls, Steps
    <3>3. c.op = b.op /\ c.row = b.row /\ c.rest = b.rest /\ c.why = b.why /\ c.at = "save"
      BY <1>6, <3>1 DEF Calls
    <3> QED
      BY <1>7, <2>2, <3>2, <3>3
  <2>3. CASE given = Nothing /\ b.want # b.row.mode
    <3>1. c = FetchFor(b, "list") /\ "list" \in Uses
      BY <2>3 DEF Sync, Uses
    <3>2. c \in Calls
      BY <1>6, <3>1, FetchForFacts
    <3>3. c.op = b.op /\ c.row = b.row /\ c.rest = b.rest /\ c.why = "list" /\ c.at = "fetch"
      BY ONLY <1>6, <3>1, FetchForGoes
    <3> QED
      BY <1>7, <2>3, <3>2, <3>3
  <2> QED
    BY <2>1, <2>2, <2>3
<1>9. Shape(c) /\ (c.at = "save" => ~ Switching(c))
  BY <1>8 DEF Shape, Switching, Uses
<1>10. \A x \in Held(c) : \/ Switching(c) /\ c.at = "invalidate"
                          \/ \E q \in clusters : Alike(q, x)
  <2>1. Held(c) = {row}
    BY <1>8 DEF Held
  <2>2. given = Nothing => row = r
    OBVIOUS
  <2>3. Alike(r, r)
    BY DEF Alike
  <2>4. c.at = "invalidate" => Switching(c)
    BY <1>8 DEF Switching
  <2> QED
    BY <1>8, <2>1, <2>2, <2>3, <2>4
<1>11. /\ \A i \in Ids : submitted[i] \subseteq submitted'[i]
       /\ \A i \in Ids : i >= nextId' => submitted'[i] = {}
  <2>1. \A i \in Ids : i >= nextId => submitted[i] = {} /\ i # r.id
    BY <1>3, BoundsAssumption DEF Promised, Known, Rows, Ids, OwnInv, TypeOK
  <2> QED
    BY <1>2, <1>3, <2>1 DEF OwnInv, TypeOK
<1> QED
  BY <1>2, <1>8, <1>9, <1>10, <1>11, RequestPromised

(* deleteCluster, testCluster and the handlers that only use the runtime.  *)
LEMMA DeleteTestUsePromised ==
  ASSUME OwnInv, OwnInv', Promised, NEW h \in Handlers, DeleteTestUse(h)
  PROVE  Promised'
<1>1. PICK r \in clusters :
        \/ Arrive(h, Start("delete", "invalidate", r))
        \/ Arrive(h, Start("test", "invalidate", r))
        \/ Arrive(h, FetchFor(Start("use", "fetch", r), "call"))
  BY DEF DeleteTestUse
<1>2. r \in Rows /\ Alike(r, r)
  BY DEF OwnInv, TypeOK, Alike
<1>3. UNCHANGED <<clusters, nextId, cache, cordoned, submitted>>
  BY DEF DeleteTestUse
<1>4. ASSUME NEW c \in Calls, Arrive(h, c), c.row = r, c.rest = {}, c.why = "call",
             \/ c.op \in {"delete", "test"} /\ c.at = "invalidate"
             \/ c.op = "use" /\ c.at = "fetch"
      PROVE  Promised'
  <2>1. Shape(c) /\ ~ Switching(c)
    BY <1>4 DEF Shape, Switching, Uses
  <2>2. \A x \in Held(c) : \E q \in clusters : Alike(q, x)
    BY <1>2, <1>4 DEF Held
  <2> QED
    BY <1>3, <1>4, <2>1, <2>2, RequestPromised DEF Promised
<1>5. ASSUME NEW op \in {"delete", "test"}, Arrive(h, Start(op, "invalidate", r))
      PROVE  Promised'
  <2> SUFFICES ASSUME NEW c, c = Start(op, "invalidate", r), Arrive(h, c)
               PROVE  Promised'
    BY <1>5
  <2>1. op \in Ops /\ "invalidate" \in Steps
    BY DEF Ops, Steps
  <2>2. /\ c \in Calls /\ c.op = op /\ c.at = "invalidate" /\ c.row = r /\ c.why = "call"
        /\ c.rest = {}
    BY ONLY <1>2, <2>1, StartIs, c = Start(op, "invalidate", r)
  <2> QED
    BY <1>4, <2>2
<1>6. ASSUME Arrive(h, FetchFor(Start("use", "fetch", r), "call"))
      PROVE  Promised'
  <2> SUFFICES ASSUME NEW s, s = Start("use", "fetch", r),
                      NEW c, c = FetchFor(s, "call"), Arrive(h, c)
               PROVE  Promised'
    BY <1>6
  <2>1. "use" \in Ops /\ "fetch" \in Steps /\ "call" \in Uses
    BY DEF Ops, Steps, Uses
  <2>2. s \in Calls /\ s.op = "use" /\ s.row = r /\ s.rest = {}
    BY ONLY <1>2, <2>1, StartIs, s = Start("use", "fetch", r)
  <2>3. c \in Calls
    BY <2>1, <2>2, FetchForFacts
  <2>4. c.op = "use" /\ c.at = "fetch" /\ c.row = r /\ c.why = "call" /\ c.rest = {}
    BY ONLY <2>1, <2>2, FetchForGoes, c = FetchFor(s, "call")
  <2> QED
    BY <1>4, <2>3, <2>4
<1> QED
  BY <1>1, <1>5, <1>6

(* A restart ends every request, and says so of the rows being changed.    *)
LEMMA RestartPromised ==
  ASSUME OwnInv, OwnInv', Promised, Restart
  PROVE  Promised'
<1>1. /\ \A g \in Handlers : handler'[g] = Nothing
      /\ \A i \in Ids : cache'[i] = Nothing
      /\ \A i \in Ids : mishaps'[i] =
           IF \E g \in InFlight : handler[g].op \in Changers /\ i \in On(handler[g])
           THEN mishaps[i] \cup {"halfway"} ELSE mishaps[i]
      /\ UNCHANGED <<clusters, nextId, cordoned, submitted>>
  BY DEF Restart
<1>2. (\A r \in clusters : RowOK(r))'
  <2> SUFFICES ASSUME NEW r \in clusters
               PROVE  RowOK(r)'
    BY <1>1
  <2>1. r.id \in Ids /\ RowOK(r)
    BY DEF OwnInv, TypeOK, Rows, Promised
  <2>2. SwitchedBy(r.id) => mishaps'[r.id] # {}
    <3>1. SwitchedBy(r.id) =>
            \E g \in InFlight : handler[g].op \in Changers /\ r.id \in On(handler[g])
      BY DEF SwitchedBy, Switching, Changers, On
    <3> QED
      BY <1>1, <2>1, <3>1
  <2>3. mishaps'[r.id] = {} => mishaps[r.id] = {}
    BY <1>1, <2>1
  <2>4. Unshared(r)' => Unshared(r)
    BY <1>1 DEF Unshared
  <2> QED
    BY <1>1, <2>1, <2>2, <2>3, <2>4 DEF RowOK, NodesFollow
<1>3. /\ (\A i \in Ids : i >= nextId => submitted[i] = {})'
      /\ (\A r, s \in clusters : r.id = s.id => r = s)'
  BY <1>1 DEF Promised
<1>4. /\ (\A h \in Handlers : handler[h] # Nothing => CallOK(handler[h]))'
      /\ (\A g, h \in Handlers : g # h /\ handler[g] # Nothing /\ handler[h] # Nothing
                                 => Apart(handler[g], handler[h]))'
  BY <1>1
<1> QED
  BY <1>2, <1>3, <1>4 DEF Promised

-----------------------------------------------------------------------------
LEMMA InitPromised == Init => Promised
BY DEF Init, Promised

LEMMA IdlePromised ==
  ASSUME Promised, UNCHANGED vars
  PROVE  Promised'
<1> USE DEF vars
<1>1. \A b : CallOK(b) => CallOK(b)'
  <2>1. \A b, x : CopyOK(b, x) => CopyOK(b, x)'
    BY DEF CopyOK, Quiet, Kept, Switching
  <2>2. \A b : SwitchOK(b) => SwitchOK(b)'
    BY DEF SwitchOK, Switching, Quiet, Unshared, NodesFollow
  <2>3. \A b : HealOK(b) => HealOK(b)'
    BY DEF HealOK
  <2>4. \A b : Shape(b) => Shape(b)'
    BY DEF Shape
  <2>5. \A b : Held(b)' = Held(b)
    BY DEF Held
  <2> QED
    BY <2>1, <2>2, <2>3, <2>4, <2>5 DEF CallOK
<1>2. \A r : RowOK(r) => RowOK(r)'
  BY DEF RowOK, Quiet, SwitchedBy, Switching, InFlight, Unshared, NodesFollow
<1>3. \A b, c : Apart(b, c) => Apart(b, c)'
  BY DEF Apart, On
<1>4. UNCHANGED <<clusters, handler, nextId, submitted>>
  OBVIOUS
<1> QED
  BY <1>1, <1>2, <1>3, <1>4 DEF Promised

LEMMA NextPromised == OwnInv /\ OwnInv' /\ Promised /\ [Next]_vars => Promised'
<1> SUFFICES ASSUME OwnInv, OwnInv', Promised, [Next]_vars
             PROVE  Promised'
  OBVIOUS
<1>1. CASE UNCHANGED vars
  BY <1>1, IdlePromised
<1>2. CASE Restart
  BY <1>2, RestartPromised
<1>3. ASSUME NEW h \in Handlers, Request(h)
      PROVE  Promised'
  BY <1>3, ViewPromised, CreatePromised, UpdatePromised, DeleteTestUsePromised DEF Request
<1>4. ASSUME NEW h \in Handlers, Step(h)
      PROVE  Promised'
  <2>1. CASE Fetch(h) \/ StoreRuntime(h) \/ Invalidate(h)
    BY <2>1, FetchPromised, StoreRuntimePromised, InvalidatePromised
  <2>2. CASE ListWorkers(h) \/ PatchWorker(h)
    BY <2>2, ListWorkersPromised, PatchWorkerPromised
  <2>3. CASE CallServer(h) \/ CheckHealth(h) \/ DetectVersions(h) \/ NextRow(h)
    BY <2>3, CallServerPromised, CheckHealthPromised, DetectVersionsPromised, NextRowPromised
  <2>4. CASE SaveRow(h) \/ DeleteRow(h)
    BY <2>4, SaveRowPromised, DeleteRowPromised
  <2> QED
    BY <1>4, <2>1, <2>2, <2>3, <2>4 DEF Step
<1> QED
  BY <1>1, <1>2, <1>3, <1>4 DEF Next

LEMMA AlwaysPromised == Spec => [](OwnInv /\ Promised)
<1>1. Init => OwnInv /\ Promised
  BY InitOwn, InitPromised
<1>2. (OwnInv /\ Promised) /\ [Next]_vars => (OwnInv /\ Promised)'
  <2>1. OwnInv /\ Promised /\ [Next]_vars => OwnInv'
    BY NextOwn
  <2>2. OwnInv /\ OwnInv' /\ Promised /\ [Next]_vars => Promised'
    BY NextPromised
  <2> QED
    BY <2>1, <2>2
<1> QED
  BY <1>1, <1>2, PTL DEF Spec

(* Whatever was done to a cluster before: once no call is at work on it,   *)
(* and none overlapped with one that changes the row nor failed to save    *)
(* it, the connection in the cache is built from the kubeconfig the row    *)
(* has, so that no later call reaches a cluster the row no longer names.   *)
THEOREM CacheFreshHolds == Spec => []CacheFresh
<1>1. OwnInv /\ Promised => CacheFresh
  <2> SUFFICES ASSUME OwnInv, Promised, NEW r \in clusters, ~ Busy(r.id),
                      mishaps[r.id] \subseteq {"halfway"}
               PROVE  cache[r.id] \in {Nothing, r.cfg}
    BY DEF CacheFresh
  <2>1. ~ SwitchedBy(r.id)
    BY DEF SwitchedBy, Busy, On
  <2> QED
    BY <2>1 DEF Promised, RowOK, Quiet
<1> QED
  BY <1>1, AlwaysPromised, PTL

(* testCluster that has the row to itself probes with the kubeconfig of    *)
(* the row and leaves it in the cache, whatever overlaps and failures      *)
(* there were on that row before.                                          *)
THEOREM TestHealsHolds == Spec => []TestHeals
<1>1. OwnInv /\ Promised => TestHeals
  <2> SUFFICES ASSUME OwnInv, Promised, NEW h \in InFlight, NEW c, c = handler[h],
                      c.op = "test", c.alone, c.at \in {"call", "save"}
               PROVE  /\ c.rt = c.row.cfg /\ cache[c.row.id] = c.row.cfg
                      /\ \E r \in clusters : r.id = c.row.id /\ r.cfg = c.rt
    BY DEF TestHeals
  <2>1. Shape(c) /\ HealOK(c)
    BY DEF Promised, CallOK, InFlight
  <2>2. c.why = "call"
    BY <2>1 DEF Shape, Uses
  <2> QED
    BY <2>1, <2>2 DEF HealOK
<1> QED
  BY <1>1, AlwaysPromised, PTL

(* Before createCluster or updateCluster saves a mode it has carried to    *)
(* the nodes, every worker of the row's own cluster is in that mode: the   *)
(* runtime it patched through was not another cluster's, for any number of *)
(* workers, if nobody else was on the row, no db.Save of it failed and the *)
(* kubeconfig was not given for another row too.                           *)
THEOREM SwitchTakesEffectHolds == Spec => []SwitchTakesEffect
<1>1. OwnInv /\ Promised => SwitchTakesEffect
  <2> SUFFICES ASSUME OwnInv, Promised, NEW h \in InFlight, NEW c, c = handler[h],
                      c.op \in {"create", "update"}, c.at = "save", c.why = "list",
                      Unshared(c.row), mishaps[c.row.id] \subseteq {"halfway"}
               PROVE  NodesFollow(c.row)
    BY DEF SwitchTakesEffect
  <2>1. SwitchOK(c)
    BY DEF Promised, CallOK, InFlight
  <2> QED
    BY <2>1 DEF SwitchOK, Switching, Quiet
<1> QED
  BY <1>1, AlwaysPromised, PTL

(* A row that says maintenance has all workers of its cluster cordoned,    *)
(* once the calls on it are over, unless calls overlapped, one stopped     *)
(* halfway, or the kubeconfig was given for another row too.               *)
THEOREM MaintenanceHonestHolds == Spec => []MaintenanceHonest
<1>1. OwnInv /\ Promised => MaintenanceHonest
  <2> SUFFICES ASSUME OwnInv, Promised, NEW r \in clusters, r.mode = "maintenance",
                      ~ Busy(r.id), mishaps[r.id] = {}, Unshared(r)
               PROVE  NodesFollow(r)
    BY DEF MaintenanceHonest
  <2>1. ~ SwitchedBy(r.id)
    BY DEF SwitchedBy, Busy, On
  <2> QED
    BY <2>1 DEF Promised, RowOK
<1> QED
  BY <1>1, AlwaysPromised, PTL
===============================================================================
