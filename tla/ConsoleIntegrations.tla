-------------------------- MODULE ConsoleIntegrations --------------------------
(***************************************************************************)
(* The console's pages of image registries and of Grafana sources: the     *)
(* source selected, the catalog read for it and cached, and what is done   *)
(* to the folders and dashboards of the catalog shown.  Both treat sources *)
(* alike but for what empties the cache; a behaviour is about one of them. *)
(*                                                                         *)
(* A handler up to its await is one action with the effects of its render; *)
(* an answer comes in any order and with the source of its asking.         *)
(* Identical requests in flight are one.  A folder or dashboard is a uid,  *)
(* which two Grafanas may both have.  The console's paths, its search and  *)
(* the dashboard being viewed are left out.                                *)
(***************************************************************************)
EXTENDS Naturals, FiniteSets

CONSTANTS Kinds,      (* bound: "registry", "grafana", one a behaviour       *)
          Items,      (* uids                                                *)
          None,
          MaxSources, (* bound: sources ever created                         *)
          MaxCalls,   (* bound: requests in flight                           *)
          MaxEdits    (* bound: modals opened, sources managed and           *)
                      (* dashboards guarded in a behaviour                   *)

VARIABLES kind,
          sources,    (* the server's: ids, items of each, ids ever made     *)
          guarded,    (* uids provisioned, or not to be saved                *)
          page,       (* a view, and section of it, that reads catalogs      *)
          known,      (* registries, grafanaSources                          *)
          sel,        (* selectedRegistryId, selectedGrafanaSourceId         *)
          cache,      (* registryArtifactCache, grafanaCatalogCache          *)
          shown,      (* registryArtifactsSnapshot, grafanaCatalogSnapshot   *)
          picked,     (* selectedGrafanaDashboardUIDs                        *)
          modals,     (* open, for a folder, a dashboard and a bulk action   *)
                      (* at most one each: what its submission does, what it *)
                      (* was opened for and where                            *)
          calls,      (* requests in flight                                  *)
          failed,     (* history: the catalog selected was refused           *)
          edits       (* modals asked for and the like                       *)

pageVars == <<page, known, sel, cache, shown, failed>>
vars == <<kind, sources, guarded, pageVars, picked, modals, calls, edits>>

Ids     == 1..MaxSources
Grafana == kind = "grafana"
Entries == [id : Ids, items : SUBSET Items]
Pages   == {"folder", "dashboard", "bulk"}      (* the modals                 *)
Ops     == {"create", "edit", "clone", "move", "remove"}
Modals  == [what : Pages, op : Ops, meant : Ops, uid : Items \cup {None}, from : Ids,
            excused : BOOLEAN]   (* history: sel, or what the user was at *)
                                 (* in this modal, has changed since      *)
Calls   ==
  [ask : {"sources"}, gone : Ids \cup {None}]
  \cup [ask : {"catalog"}, id : Ids, close : Pages \cup {"item", None}]
  \cup [ask : {"manage"}, op : {"save", "test", "remove"}, id : Ids \cup {None}]
  \cup [ask : {"meta"}, id : Ids, uid : Items]
  \cup [ask : {"write"}, what : Pages \cup {"item"}, op : Ops, meant : Ops,
        uid : Items \cup {None}, from : Ids, to : Ids, excused : BOOLEAN]
  \cup [ask : {"bulk"}, op : Ops, from : Ids, to : Ids, rest : SUBSET Items, writing : BOOLEAN]

(* What the module takes for granted of its constants: the bounds are      *)
(* numbers, and nothing is mistaken for None.                              *)
WellFormed ==
  /\ {MaxSources, MaxEdits} \subseteq Nat
  /\ None \notin Ids \cup Entries \cup Modals

TypeOK ==
  /\ kind \in Kinds /\ guarded \in SUBSET Items
  /\ sources \in [live : SUBSET Ids, made : Ids, items : [Ids -> SUBSET Items]]
  /\ page \in BOOLEAN /\ known \in SUBSET Ids /\ sel \in Ids \cup {None}
  /\ cache \in SUBSET Entries /\ shown \in Entries \cup {None} /\ failed \in BOOLEAN
  /\ picked \in SUBSET Items /\ modals \in SUBSET Modals
  /\ calls \in SUBSET Calls /\ edits \in 0..MaxEdits

Init ==
  /\ kind \in Kinds
  /\ \E n \in Ids : sources = [live |-> 1..n, made |-> n, items |-> [i \in Ids |-> Items]]
  /\ guarded = {}
  /\ page = FALSE /\ known = {} /\ sel = None /\ cache = {} /\ shown = None
  /\ picked = {} /\ modals = {} /\ calls = {[ask |-> "sources", gone |-> None]}
  /\ failed = FALSE /\ edits = 0

-----------------------------------------------------------------------------
Send(cs)    == calls' = cs /\ Cardinality(cs) <= MaxCalls
Spend       == edits < MaxEdits /\ edits' = edits + 1
Catalog(id) == [ask |-> "catalog", id |-> id, close |-> None]
Reading(id) == \E c \in calls : c.ask = "catalog" /\ c.id = id

Cached(id, c)   == {e \in c : e.id = id}
Without(c, id)  == c \ Cached(id, c)
First(ids)      == IF ids = {} THEN None ELSE CHOOSE i \in ids : \A j \in ids : i <= j

(* Faulty variant of the next: an answer is shown until another comes.     *)
LastShown(id, c) == IF shown # None \/ Cached(id, c) = {} THEN shown
                    ELSE CHOOSE e \in Cached(id, c) : TRUE

(* The effect that shows what the cache has of the source selected.        *)
Snapshot(id, c) == IF Cached(id, c) = {} THEN None ELSE CHOOSE e \in Cached(id, c) : TRUE

(* The modal of one kind is opened: also in the place of one that is open. *)
Closed(ms, what) == {m \in ms : m.what # what}
Opened(ms, m)    == Closed(ms, m.what) \cup {m}

(* Faulty variant of the next: the modals are left as they are.            *)
KeepModals(ms) == ms

(* What a new source, or new sources, reset: a bulk action is closed, the  *)
(* other modals stay but forget what they were editing.                    *)
ResetModals(ms) == {[m EXCEPT !.op = "create", !.excused = TRUE] : m \in Closed(ms, "bulk")}

(* The effects of a render with sources ks, s selected and cache c:        *)
(* pickCurrentOrFirstId, the reading of a catalog not cached, when one of  *)
(* its dependencies is anew, and the snapshot.                             *)
Render(on, ks, s, c, anew, cs) ==
  LET id   == IF s \in ks THEN s ELSE First(ks)
      asks == on /\ id # None /\ Cached(id, c) = {} /\ (anew \/ id # sel)
  IN  /\ page' = on /\ known' = ks /\ sel' = id /\ cache' = c
      /\ shown' = Snapshot(id, c)
      /\ Send(IF asks THEN cs \cup {Catalog(id)} ELSE cs)
      /\ failed' = (failed /\ id = sel /\ ~ asks /\ Cached(id, c) = {})

(* Its effects on modals ms and uids p: what a new source resets, and the  *)
(* uids that are no longer shown.                                          *)
Keep(ms, p) ==
  /\ modals' = IF sel' = sel THEN ms ELSE ResetModals(ms)
  /\ picked' = IF sel' # sel \/ shown' = None THEN {} ELSE p \cap shown'.items

-----------------------------------------------------------------------------
(* What the user does; a modal covers the page.                            *)
Uncovered == modals = {}
Elsewhere == UNCHANGED <<kind, sources, guarded>>

(* The menu, jumpToRegistryArtifacts and openObservabilityDashboardHome.   *)
Visit ==
  /\ Uncovered
  /\ \E s \in known \cup {sel} : Render(~ page, known, s, cache, TRUE, calls)
  /\ Keep(modals, picked)
  /\ Elsewhere /\ UNCHANGED edits

SelectSource ==
  /\ Uncovered
  /\ \E s \in known \ {sel} : Render(page, known, s, cache, TRUE, calls)
  /\ Keep(modals, picked)
  /\ Elsewhere /\ UNCHANGED edits

(* The button of the page; Grafana's forgets the catalog first.            *)
RefreshCatalog ==
  /\ Uncovered /\ page /\ sel # None
  /\ IF Grafana THEN Render(page, known, sel, Without(cache, sel), TRUE, calls)
     ELSE Render(page, known, sel, cache, FALSE, calls \cup {Catalog(sel)})
  /\ Keep(modals, picked)
  /\ Elsewhere /\ UNCHANGED edits

(* A source is saved, tested or, once confirmed, removed.                  *)
Manage ==
  /\ Uncovered /\ Spend /\ (Grafana => ~ page)
  /\ \E op \in {"save", "test", "remove"}, id \in known \cup {None} :
       /\ id = None => op = "save"
       /\ Send(calls \cup {[ask |-> "manage", op |-> op, id |-> id]})
  /\ Elsewhere /\ UNCHANGED <<pageVars, picked, modals>>

(* With Grafana's catalog on screen.                                       *)
Browsing == Grafana /\ page /\ shown # None /\ Uncovered

Pick ==
  /\ Browsing
  /\ \E u \in shown.items : picked' = IF u \in picked THEN picked \ {u} ELSE picked \cup {u}
  /\ UNCHANGED <<modals, calls, edits>>

Modal(what, op, uid, from, excused) ==
  [what |-> what, op |-> op, meant |-> op, uid |-> uid, from |-> from, excused |-> excused]

(* A new folder or dashboard, or a folder to rename.                       *)
OpenModal ==
  /\ Browsing /\ Spend
  /\ \/ \E what \in {"folder", "dashboard"} :
          modals' = {Modal(what, "create", None, shown.id, FALSE)}
     \/ \E u \in shown.items : modals' = {Modal("folder", "edit", u, shown.id, FALSE)}
  /\ UNCHANGED <<picked, calls>>

(* editGrafanaDashboard, which reads the dashboard first.                  *)
EditDashboard ==
  /\ Browsing /\ Spend
  /\ \E u \in shown.items : Send(calls \cup {[ask |-> "meta", id |-> sel, uid |-> u]})
  /\ UNCHANGED <<picked, modals>>

OpenBulk ==
  /\ Browsing /\ Spend /\ picked # {}
  /\ \E op \in {"move", "clone"} : modals' = {Modal("bulk", op, None, shown.id, FALSE)}
  /\ UNCHANGED <<picked, calls>>

CloseModal == \E m \in modals : modals' = modals \ {m} /\ UNCHANGED <<picked, calls, edits>>

(* changeGrafanaDashboardSubmitMode.                                       *)
SaveAsCopy ==
  /\ \E m \in modals :
       /\ m.what = "dashboard" /\ m.op = "edit"
       /\ modals' = Opened(modals, [m EXCEPT !.op = "clone", !.meant = "clone"])
  /\ UNCHANGED <<picked, calls, edits>>

(* A write in flight: to a source, about something shown of a source.      *)
Write(m, op, to) == [ask |-> "write", what |-> m.what, op |-> op, meant |-> m.meant,
                     uid |-> m.uid, from |-> m.from, to |-> to, excused |-> m.excused]

(* submitGrafanaFolder, submitGrafanaDashboard.                            *)
SubmitModal ==
  /\ sel # None
  /\ \E m \in Closed(modals, "bulk") : Send(calls \cup {Write(m, m.op, sel)})
  /\ UNCHANGED <<picked, modals, edits>>

(* submitGrafanaBulkAction: of each dashboard picked the meta first.       *)
SubmitBulk ==
  /\ shown # None /\ picked # {}
  /\ \E m \in modals :
       /\ m.what = "bulk"
       /\ Send(calls \cup {[ask |-> "bulk", op |-> m.op, from |-> shown.id, to |-> sel,
                            rest |-> picked, writing |-> FALSE]})
  /\ UNCHANGED <<picked, modals, edits>>

(* removeGrafanaFolder, removeGrafanaDashboard, once confirmed.            *)
RemoveItem ==
  /\ Browsing
  /\ \E u \in shown.items :
       Send(calls \cup {Write(Modal("item", "remove", u, shown.id, FALSE), "remove", sel)})
  /\ UNCHANGED <<picked, modals, edits>>

-----------------------------------------------------------------------------
(* What the server does and answers.                                       *)

(* Somebody provisions a dashboard, or frees it.                           *)
Guard ==
  /\ Grafana /\ Spend
  /\ \E u \in Items : guarded' = IF u \in guarded THEN guarded \ {u} ELSE guarded \cup {u}
  /\ UNCHANGED <<kind, sources, pageVars, picked, modals, calls>>

(* A test that fails reads the sources all the same, a write that fails    *)
(* does not.                                                               *)
Managed(c) ==
  /\ c.ask = "manage"
  /\ \/ /\ c.op = "save" /\ c.id = None /\ sources.made < MaxSources
        /\ sources' = [sources EXCEPT !.live = @ \cup {sources.made + 1}, !.made = @ + 1]
     \/ c.op = "remove" /\ sources' = [sources EXCEPT !.live = @ \ {c.id}]
     \/ c.id # None /\ c.op # "remove" /\ UNCHANGED sources
  /\ Send((calls \ {c})
          \cup {[ask |-> "sources", gone |-> IF c.op = "remove" THEN c.id ELSE None]})
  /\ UNCHANGED <<kind, guarded, pageVars, picked, modals, edits>>

(* refreshRegistries, after which a registry removed leaves the cache, and *)
(* refreshObservabilitySources, which empties it.                          *)
GotSources(c) ==
  /\ c.ask = "sources"
  /\ IF Grafana
     THEN Render(page, sources.live, sel, {}, TRUE, calls \ {c}) /\ Keep(ResetModals(modals), {})
     ELSE /\ Render(page, sources.live, sel, Without(cache, c.gone), c.gone # None, calls \ {c})
          /\ Keep(modals, picked)
  /\ Elsewhere /\ UNCHANGED edits

(* A submission that has waited for the catalog closes its modal, a bulk   *)
(* action forgets what was picked.                                         *)
After(c) == Keep(Closed(modals, c.close), IF c.close = "bulk" THEN {} ELSE picked)

(* A catalog is cached for the source it was asked of.                     *)
GotCatalog(c) ==
  /\ c.ask = "catalog" /\ c.id \in sources.live
  /\ Render(page, known, sel, Without(cache, c.id) \cup {[id |-> c.id, items |-> sources.items[c.id]]},
            TRUE, calls \ {c})
  /\ After(c)
  /\ Elsewhere /\ UNCHANGED edits

(* Faulty variant of the next: nothing is forgotten.                       *)
CatalogFailsOnly(c) ==
  /\ c.ask = "catalog"
  /\ Render(page, known, sel, cache, FALSE, calls \ {c}) /\ After(c)
  /\ Elsewhere /\ UNCHANGED edits

(* Grafana's failure forgets the catalog: the cache is another object, and *)
(* the effect reads it again at once.                                      *)
CatalogFails(c) ==
  /\ c.ask = "catalog"
  /\ IF Grafana
     THEN Render(page, known, sel, Without(cache, c.id), TRUE, calls \ {c}) /\ After(c)
     ELSE /\ Send(calls \ {c}) /\ failed' = (failed \/ c.id = sel)
          /\ UNCHANGED <<page, known, sel, cache, shown, picked, modals>>
  /\ Elsewhere /\ UNCHANGED edits

(* A dashboard that may not be saved is opened to be copied.  Whatever is  *)
(* open by now: a modal of a dashboard turns into this one, with what the  *)
(* user was at in it gone.                                                 *)
GotMeta(c) ==
  /\ c.ask = "meta"
  /\ modals' = Opened(modals,
       Modal("dashboard", IF c.uid \in guarded THEN "clone" ELSE "edit", c.uid, c.id,
             c.id # sel \/ \E m \in modals : m.what = "dashboard"))
  /\ Send(calls \ {c}) /\ UNCHANGED <<picked, edits>>

ThenCatalog(c, what) == Send((calls \ {c}) \cup {[Catalog(c.to) EXCEPT !.close = what]})

(* One that may no longer be saved is saved as a copy instead.             *)
Written(c) ==
  /\ c.ask = "write"
  /\ IF c.what = "dashboard" /\ c.op = "edit" /\ c.uid \in guarded
     THEN Send((calls \ {c}) \cup {[c EXCEPT !.op = "clone", !.meant = "clone"]})
     ELSE ThenCatalog(c, c.what)
  /\ UNCHANGED <<picked, modals, edits>>

Removed(c) ==
  /\ c.ask = "write" /\ c.op = "remove"
  /\ sources' = [sources EXCEPT !.items[c.to] = @ \ {c.uid}]
  /\ ThenCatalog(c, None)
  /\ UNCHANGED <<kind, guarded, pageVars, picked, modals, edits>>

(* The meta of the next dashboard: one that may not be saved is skipped by *)
(* a move; then its write.                                                 *)
BulkStep(c) ==
  /\ c.ask = "bulk" /\ c.rest # {}
  /\ \E u \in c.rest :
       IF c.writing \/ (c.op = "move" /\ u \in guarded)
       THEN Send((calls \ {c}) \cup {[c EXCEPT !.rest = @ \ {u}, !.writing = FALSE]})
       ELSE Send((calls \ {c}) \cup {[c EXCEPT !.writing = TRUE]})
  /\ UNCHANGED <<picked, modals, edits>>

BulkDone(c) ==
  /\ c.ask = "bulk" /\ c.rest = {}
  /\ ThenCatalog(c, "bulk") /\ UNCHANGED <<picked, modals, edits>>

(* A refusal; a bulk action stops where it is, and its modal stays.        *)
Refused(c) == c.ask \notin {"catalog"} /\ Send(calls \ {c})
              /\ UNCHANGED <<picked, modals, edits>>

Next ==
  \/ Visit \/ SelectSource \/ RefreshCatalog \/ Manage \/ Guard
  \/ /\ Pick \/ OpenModal \/ EditDashboard \/ OpenBulk \/ CloseModal \/ SaveAsCopy
        \/ SubmitModal \/ SubmitBulk \/ RemoveItem
     /\ Elsewhere /\ UNCHANGED pageVars
  \/ \E c \in calls :
       \/ Managed(c) \/ GotSources(c) \/ GotCatalog(c) \/ CatalogFails(c) \/ Removed(c)
       \/ /\ GotMeta(c) \/ (c.ask = "write" /\ c.op # "remove" /\ Written(c))
             \/ BulkStep(c) \/ BulkDone(c) \/ Refused(c)
          /\ Elsewhere /\ UNCHANGED pageVars

(* A server asked for a catalog again and again gives it one day.          *)
Fairness == \A i \in Ids :
  SF_vars(\E c \in calls : c.ask = "catalog" /\ c.id = i /\ GotCatalog(c))

Spec == Init /\ [][Next]_vars /\ Fairness

-----------------------------------------------------------------------------
(* What is shown is what was last read of the source selected, and nothing *)
(* of another, whatever order the answers come in; only dashboards that    *)
(* are shown are picked; and on the page a catalog that is not there is    *)
(* being read, but for a registry's that was refused.                      *)
CatalogIsOwn ==
  /\ shown # None => shown.id = sel /\ shown \in cache /\ picked \subseteq shown.items
  /\ shown = None => picked = {} /\ Cached(sel, cache) = {}
  /\ sel \in known \cup {None}
  /\ page /\ sel # None /\ shown = None => Reading(sel) \/ (failed /\ ~ Grafana)

(* What is written goes to the Grafana whose folder or dashboard was shown,*)
(* and does what its modal was opened for.  Three kinds of modal are       *)
(* excepted, since the code does write from them what the user may not     *)
(* have meant: one opened by the answer of an edit after another Grafana   *)
(* was selected, one that such an answer turned from what it was opened    *)
(* for into that edit, and one open when another Grafana was selected or   *)
(* the sources were read again, which then creates what it was editing.    *)
EditsGoHome ==
  /\ \A c \in calls : c.ask = "write" => c.excused \/ (c.to = c.from /\ c.op = c.meant)
  /\ \A c \in calls : c.ask = "bulk" => c.to = c.from

(* A Grafana that fails is asked again until it answers, without the user: *)
(* unless its page is left or the source is gone.                          *)
Waiting(i) == Grafana /\ page /\ sel = i /\ i \in sources.live /\ shown = None
CatalogReturns == \A i \in Ids : Waiting(i) ~> ~ Waiting(i)
=============================================================================
