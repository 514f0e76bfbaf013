-------------------------- MODULE ConsolePagesProofs --------------------------
(***************************************************************************)
(* Proofs about ConsolePages: ConsoleWorkloads, for any clusters, kinds,   *)
(* namespaces, panels and objects and any number of requests, drawers and  *)
(* moves, and ConsoleIntegrations, for any number of sources, folders,     *)
(* dashboards, requests and modals.                                        *)
(*                                                                         *)
(* Objects: a drawer that is not crossed names an object of the selection, *)
(* its panels are of that object or being read, and a form over it was     *)
(* filled from it (DetailInv, PanelsInv, FormInv); so that what is written *)
(* goes to the object it is about (WritesInv).  Each answer either keeps   *)
(* this or marks what it breaks, a panel in late, a drawer in crossed.     *)
(*                                                                         *)
(* Sources: what is shown is worked out anew, from the cache and the       *)
(* source selected, by every step that changes either (RenderedPage); and  *)
(* whatever selects another source, or reads the sources again, excuses    *)
(* the modal that is open.                                                 *)
(***************************************************************************)
EXTENDS ConsolePages, FiniteSetTheorems, WellFoundedInduction, TLAPS


(* Where there is anything of an object, a cluster is selected.            *)
Rooted == calls # {} \/ detail.object # None \/ dialog # None => sel.cluster # None

(* A write goes to the objects it is about.                                *)
Writing(c)   == c.ask \in {"save", "delete", "rollback", "scale", "unscale"}
GoodWrite(c) == c.about \subseteq {c.to} \/ c.excused
WritesInv ==
  /\ \A c \in calls : Writing(c) => GoodWrite(c)
  /\ dialog # None => GoodWrite(dialog)

(* What is selected is shown, or is being read.                            *)
ListsInv ==
  /\ sel.cluster = None \/ list = Query(sel) \/ "list" \in late \/ ListOf(sel) \subseteq calls
  /\ sel.cluster = None \/ namespaces = sel.cluster \/ "namespaces" \in late
     \/ SpacesOf(sel) \subseteq calls

(* An object shown, unless crossed, is of the selection and in an open     *)
(* drawer; one being edited is of the selection.                           *)
Own == detail.object # None /\ "detail" \notin crossed
DetailInv == Own => detail.open /\ detail.object = Here(detail.object)
EditorInv == editor.open => /\ editor.of \in Objects
                            /\ "editor" \notin crossed => editor.of = Here(editor.of)

(* Its panels are its own, or being read; a form was filled from it.       *)
PanelsInv ==
  Own /\ ~ detail.loading => \A p \in Panels \ late :
    \/ detail.panels[p] = detail.object
    \/ /\ detail.panels[p] = None
       /\ HasPanel(detail, p) => [ask |-> p, of |-> detail.object] \in calls
FormInv ==
  scaling # None =>
    /\ detail.open => detail.object # None
    /\ Own => scaling.about \subseteq {detail.object} \/ scaling.excused

Inv == TypeOK /\ Rooted /\ WritesInv /\ ListsInv /\ DetailInv /\ EditorInv /\ PanelsInv
       /\ FormInv

-----------------------------------------------------------------------------
(* What the page holds.                                                    *)
Selections == [cluster : Clusters \cup {None}, kind : Kinds, ns : AllNamespaces \cup {""}]
Details == [open : BOOLEAN, loading : BOOLEAN, object : Objects \cup {None},
            panels : [Panels -> Objects \cup {None}]]
Editors == [open : BOOLEAN, of : Objects \cup {None}]
Spendings == [moves : 0..MaxMoves, opened : 0..MaxOpened]

LEMMA TypeFacts ==
  ASSUME Inv
  PROVE  /\ sel \in Selections /\ (sel.kind \notin Namespaced => sel.ns = "")
         /\ namespaces \in Clusters \cup {None} /\ list \in Scopes \cup {None}
         /\ detail \in Details /\ editor \in Editors /\ scaling \in Forms \cup {None}
         /\ dialog # None => dialog \in Writes
         /\ \A c \in calls : c \in Calls \/ c \in Writes
         /\ Cardinality(calls) <= MaxCalls
         /\ late \subseteq Panels \cup {"list", "namespaces"}
         /\ crossed \subseteq {"detail", "editor"}
         /\ spent \in Spendings
BY DEF Inv, TypeOK, Selections, Details, Editors, Spendings

LEMMA NoneFacts ==
  /\ None \notin Clusters /\ None \notin Scopes /\ None \notin Objects
  /\ None \notin Writes /\ None \notin Forms
BY NoneAssumption

LEMMA PanelNames == Panels \subseteq {"pods", "relations", "history", "autoscaling"}
BY PanelsAssumption DEF Supports

(* Requests are of one kind, and what each kind holds.                     *)
LEMMA CallFacts ==
  ASSUME NEW c \in Calls
  PROVE  /\ ~ Writing(c)
         /\ c.ask \in {"namespaces", "list", "detail", "reread", "edit"} \cup Panels
         /\ c.ask = "namespaces" => c.cluster \in Clusters
         /\ c.ask = "list" => c.scope \in Scopes
         /\ c.ask \in {"detail", "reread", "edit"} \cup Panels => c.of \in Objects
BY PanelNames DEF Calls, Writing

LEMMA WriteFacts ==
  ASSUME NEW c \in Writes
  PROVE  /\ Writing(c) /\ c.to \in Objects /\ c.about \subseteq Objects /\ c.scope \in Scopes
         /\ c.excused \in BOOLEAN
         /\ c.ask \notin {"namespaces", "list", "detail", "reread", "edit"} \cup Panels
BY PanelNames DEF Writes, Writing

LEMMA NewCalls ==
  ASSUME NEW o \in Objects
  PROVE  \A ask \in {"detail", "reread", "edit"} \cup Panels : [ask |-> ask, of |-> o] \in Calls
BY DEF Calls

(* An object under the selection.                                          *)
LEMMA HereFacts ==
  ASSUME NEW o \in Objects, sel \in Selections
  PROVE  /\ sel.cluster # None => Here(o) \in Objects
         /\ o = Here(o) => o.cluster = sel.cluster /\ o.kind = sel.kind /\ sel.cluster # None
<1>1. /\ Here(o).cluster = sel.cluster /\ Here(o).kind = sel.kind
      /\ Here(o) = [o EXCEPT !.cluster = sel.cluster, !.kind = sel.kind]
  BY DEF Here, Objects
<1>2. sel.cluster # None => Here(o) \in Objects
  BY <1>1 DEF Objects, Selections
<1>3. o.cluster # None
  BY NoneFacts DEF Objects
<1> QED
  BY <1>1, <1>2, <1>3

LEMMA QueryFacts ==
  ASSUME NEW s \in Selections
  PROVE  /\ s.cluster # None => Query(s) \in Scopes
         /\ ListOf(s) \subseteq Calls /\ \A c \in ListOf(s) : c.ask = "list"
         /\ SpacesOf(s) \subseteq Calls
<1>1. s.cluster # None => Query(s) \in Scopes
  BY DEF Query, Scopes, Selections
<1>2. s.cluster # None => s.cluster \in Clusters
  BY DEF Selections
<1> QED
  BY <1>1, <1>2 DEF ListOf, SpacesOf, Calls

LEMMA RowsFacts ==
  ASSUME Inv
  PROVE  /\ Rows \subseteq Objects
         /\ Rows # {} => sel.cluster # None
<1>1. CASE list = None \/ sel.cluster = None
  BY <1>1 DEF Rows
<1>2. CASE list # None /\ sel.cluster # None
  <2>1. list \in Scopes
    BY <1>2, TypeFacts
  <2>2. list.cluster \in Clusters /\ list.kind \in Kinds /\ list.ns \in AllNamespaces \cup {""}
    BY <2>1 DEF Scopes
  <2>3. NamespacesOf[list.cluster] \subseteq AllNamespaces
    BY <2>2 DEF AllNamespaces
  <2> QED
    BY <1>2, <2>2, <2>3 DEF Rows, Objects
<1> QED
  BY <1>1, <1>2

(* The effects of the namespace.                                           *)
LEMMA FitFacts ==
  ASSUME NEW s \in Selections, NEW read \in Clusters \cup {None}
  PROVE  /\ FitNamespace(s, read) \in Selections
         /\ FitNamespace(s, read).cluster = s.cluster /\ FitNamespace(s, read).kind = s.kind
         /\ s.kind \notin Namespaced => FitNamespace(s, read).ns = ""
<1>1. \A n \in AllNamespaces \cup {""} :
        /\ [s EXCEPT !.ns = n] \in Selections /\ [s EXCEPT !.ns = n].ns = n
        /\ [s EXCEPT !.ns = n].cluster = s.cluster /\ [s EXCEPT !.ns = n].kind = s.kind
  BY DEF Selections
<1>2. CASE s.kind \notin Namespaced
  BY <1>1, <1>2 DEF FitNamespace
<1>3. CASE s.kind \in Namespaced /\ (read = None \/ NamespacesOf[read] = {})
  BY <1>1, <1>3 DEF FitNamespace
<1>4. CASE s.kind \in Namespaced /\ read # None /\ NamespacesOf[read] # {}
  <2>1. NamespacesOf[read] \subseteq AllNamespaces
    BY <1>4 DEF AllNamespaces
  <2>2. (CHOOSE n \in NamespacesOf[read] : TRUE) \in NamespacesOf[read]
    BY <1>4
  <2>3. CASE s.ns \in NamespacesOf[read]
    BY <1>4, <2>3 DEF FitNamespace
  <2>4. CASE s.ns \notin NamespacesOf[read]
    <3>1. \E n \in NamespacesOf[read] : FitNamespace(s, read) = [s EXCEPT !.ns = n]
      BY <1>4, <2>2, <2>4 DEF FitNamespace
    <3> QED
      BY <1>1, <1>4, <2>1, <3>1
  <2> QED
    BY <2>3, <2>4
<1> QED
  BY <1>2, <1>3, <1>4

(* The effects of the panels.                                              *)
LEMMA PanelsOfFacts ==
  ASSUME NEW d \in Details, NEW s \in Selections
  PROVE  /\ PanelsOf(d, s) \subseteq Calls
         /\ \A c \in PanelsOf(d, s) : c.ask \in Panels
<1>1. CASE s.cluster = None
  BY <1>1 DEF PanelsOf
<1>2. CASE s.cluster # None
  <2> DEFINE o == [d.object EXCEPT !.cluster = s.cluster, !.kind = s.kind]
  <2>1. PanelsOf(d, s) = {[ask |-> p, of |-> o] : p \in {q \in Panels : HasPanel(d, q)}}
    BY <1>2 DEF PanelsOf
  <2>2. d.object # None => o \in Objects
    BY <1>2 DEF Details, Objects, Selections
  <2> HIDE DEF o
  <2>3. \A p \in Panels : HasPanel(d, p) => o \in Objects
    BY <2>2 DEF HasPanel
  <2> QED
    BY <2>1, <2>3 DEF Calls
<1> QED
  BY <1>1, <1>2

LEMMA RenderedFacts ==
  ASSUME NEW d \in Details
  PROVE  /\ Rendered(d) \in Details
         /\ Rendered(d).open = d.open /\ Rendered(d).loading = d.loading
         /\ Rendered(d).object = d.object
         /\ \A p \in Panels : /\ HasPanel(Rendered(d), p) <=> HasPanel(d, p)
                              /\ Rendered(d).panels[p] \in {d.panels[p], None}
<1> DEFINE ps == [p \in Panels |-> IF HasPanel(d, p) THEN d.panels[p] ELSE None]
<1>1. Rendered(d) = [d EXCEPT !.panels = ps]
  BY DEF Rendered
<1>2. ps \in [Panels -> Objects \cup {None}] /\ \A p \in Panels : ps[p] \in {d.panels[p], None}
  BY DEF Details
<1> HIDE DEF ps
<1>3. /\ Rendered(d) \in Details /\ Rendered(d).panels = ps
      /\ Rendered(d).open = d.open /\ Rendered(d).loading = d.loading
      /\ Rendered(d).object = d.object
  BY <1>1, <1>2 DEF Details
<1> QED
  BY <1>2, <1>3 DEF HasPanel

-----------------------------------------------------------------------------
(* What a step leaves as it was.                                           *)

(* Requests more: of the page, or writes that go home.                     *)
GoodCall(c) == c \in Calls \/ (c \in Writes /\ GoodWrite(c))
CallsGo == /\ \A c \in calls' : c \in calls \/ GoodCall(c)
           /\ Cardinality(calls') <= MaxCalls
           /\ calls' # {} => sel.cluster # None \/ sel'.cluster # None

(* The drawer, the editor and the rest are of their types.                 *)
Shapes ==
  /\ list \in Scopes \cup {None} /\ detail \in Details /\ editor \in Editors
  /\ scaling \in Forms \cup {None} /\ late \subseteq Panels \cup {"list", "namespaces"}
  /\ crossed \subseteq {"detail", "editor"} /\ spent \in Spendings

LEMMA CallsAreGood ==
  ASSUME Inv
  PROVE  \A c \in calls : GoodCall(c) /\ sel.cluster # None
<1> SUFFICES ASSUME NEW c \in calls
             PROVE  GoodCall(c) /\ sel.cluster # None
  OBVIOUS
<1>1. c \in Calls \/ c \in Writes
  BY TypeFacts
<1>2. Writing(c) => GoodWrite(c)
  BY DEF Inv, WritesInv
<1> QED
  BY <1>1, <1>2, WriteFacts DEF GoodCall, Inv, Rooted

LEMMA InvNextAny ==
  ASSUME Inv, sel' \in Selections, sel'.kind \notin Namespaced => sel'.ns = "",
         namespaces' \in Clusters \cup {None}, CallsGo, Shapes',
         sel.cluster # None => sel'.cluster # None,
         detail'.object # None => sel'.cluster # None,
         dialog' # None => sel'.cluster # None /\ dialog' \in Writes /\ GoodWrite(dialog'),
         ListsInv', DetailInv', EditorInv', PanelsInv', FormInv'
  PROVE  Inv'
<1>1. /\ (\A c \in calls : c \in Calls \/ c \in Writes)'
      /\ (\A c \in calls : Writing(c) => GoodWrite(c))'
  <2> SUFFICES ASSUME NEW c \in calls'
               PROVE  (c \in Calls \/ c \in Writes) /\ (Writing(c) => GoodWrite(c))
    OBVIOUS
  <2>1. GoodCall(c)
    BY CallsAreGood DEF CallsGo
  <2> QED
    BY <2>1, CallFacts DEF GoodCall
<1>2. Cardinality(calls)' <= MaxCalls
  BY DEF CallsGo
<1>3. \A w \in {dialog'} \ {None} : w \in Writes
  OBVIOUS
<1>4. TypeOK'
  BY <1>1, <1>2, <1>3 DEF TypeOK, Shapes, Selections, Details, Editors, Spendings
<1>5. Rooted'
  BY DEF Rooted, CallsGo
<1>6. WritesInv'
  BY <1>1 DEF WritesInv
<1> QED
  BY <1>4, <1>5, <1>6 DEF Inv

LEMMA InvNext ==
  ASSUME Inv, UNCHANGED <<sel, namespaces>>, CallsGo, Shapes',
         detail'.object # None => sel.cluster # None,
         dialog' # None => sel.cluster # None /\ dialog' \in Writes /\ GoodWrite(dialog'),
         ListsInv', DetailInv', EditorInv', PanelsInv', FormInv'
  PROVE  Inv'
BY InvNextAny, TypeFacts

LEMMA ListsKept ==
  ASSUME Inv, UNCHANGED <<sel, namespaces, list>>,
         \A c \in calls : c.ask \in {"list", "namespaces"} => c \in calls',
         late \cap {"list", "namespaces"} \subseteq late'
  PROVE  ListsInv'
<1>1. \A c \in ListOf(sel) \cup SpacesOf(sel) : c.ask \in {"list", "namespaces"}
  BY DEF ListOf, SpacesOf
<1>2. /\ sel.cluster = None \/ list = Query(sel) \/ "list" \in late \/ ListOf(sel) \subseteq calls
      /\ sel.cluster = None \/ namespaces = sel.cluster \/ "namespaces" \in late
         \/ SpacesOf(sel) \subseteq calls
  BY DEF Inv, ListsInv
<1>3. ListOf(sel)' = ListOf(sel) /\ SpacesOf(sel)' = SpacesOf(sel) /\ Query(sel)' = Query(sel)
  BY DEF ListOf, SpacesOf, Query
<1>4. sel'.cluster = None \/ list' = Query(sel)' \/ "list" \in late'
        \/ ListOf(sel)' \subseteq calls'
  BY <1>1, <1>2, <1>3
<1>5. sel'.cluster = None \/ namespaces' = sel'.cluster \/ "namespaces" \in late'
         \/ SpacesOf(sel)' \subseteq calls'
  BY <1>1, <1>2, <1>3
<1> QED
  BY <1>4, <1>5 DEF ListsInv

LEMMA DrawerKept ==
  ASSUME Inv, UNCHANGED <<sel, detail>>, "detail" \in crossed' <=> "detail" \in crossed,
         \A c \in calls : c.ask \in Panels => c \in calls',
         late \cap Panels \subseteq late'
  PROVE  DetailInv' /\ PanelsInv' /\ (scaling' \in {scaling, None} => FormInv')
<1>1. Own' <=> Own
  BY DEF Own
<1>2. Here(detail.object)' = Here(detail.object)
  BY DEF Here
<1>3. DetailInv'
  BY <1>1, <1>2 DEF Inv, DetailInv
<1>4. \A p \in Panels : HasPanel(detail, p)' <=> HasPanel(detail, p)
  BY DEF HasPanel
<1>5. PanelsInv'
  <2> SUFFICES ASSUME Own, ~ detail.loading, NEW p \in Panels, p \notin late'
               PROVE  \/ detail.panels[p] = detail.object
                      \/ /\ detail.panels[p] = None
                         /\ HasPanel(detail, p) => [ask |-> p, of |-> detail.object] \in calls'
    BY <1>1, <1>4 DEF PanelsInv
  <2> QED
    BY DEF Inv, PanelsInv
<1>6. ASSUME scaling' \in {scaling, None}
      PROVE  FormInv'
  BY <1>1, <1>6 DEF Inv, FormInv
<1> QED
  BY <1>3, <1>5, <1>6

LEMMA NoDetailFacts ==
  /\ NoDetail \in Details /\ NoDetail.open = FALSE /\ NoDetail.object = None
BY DEF NoDetail, NoPanels, Details

LEMMA DrawerClosed ==
  ASSUME detail'.object = None, detail'.open = FALSE
  PROVE  DetailInv' /\ PanelsInv' /\ FormInv'
<1>1. ~ Own'
  BY DEF Own
<1> QED
  BY <1>1 DEF DetailInv, PanelsInv, FormInv

LEMMA EditorKept ==
  ASSUME Inv, UNCHANGED <<sel, editor>>, crossed \ {"detail"} \subseteq crossed'
  PROVE  EditorInv'
<1>1. Here(editor.of)' = Here(editor.of)
  BY DEF Here
<1> QED
  BY <1>1 DEF Inv, EditorInv

LEMMA Spent ==
  ASSUME Inv, Open \/ Move \/ UNCHANGED spent
  PROVE  spent' \in Spendings
<1>1. spent \in Spendings
  BY TypeFacts
<1>2. CASE Open
  <2>1. spent' = [spent EXCEPT !.opened = spent.opened + 1] /\ spent.opened < MaxOpened
    BY <1>2 DEF Open
  <2> QED
    BY <1>1, <2>1, WorkloadBounds DEF Spendings
<1>3. CASE Move
  <2>1. spent' = [spent EXCEPT !.moves = spent.moves + 1] /\ spent.moves < MaxMoves
    BY <1>3 DEF Move
  <2> QED
    BY <1>1, <2>1, WorkloadBounds DEF Spendings
<1> QED
  BY <1>1, <1>2, <1>3

(* Requests, a form or a dialog besides; the page stays as it is.          *)
LEMMA AsideKeeps ==
  ASSUME Inv, UNCHANGED <<sel, namespaces, list, detail, editor, late, crossed>>,
         scaling' \in {scaling, None}, spent' \in Spendings,
         calls \subseteq calls', CallsGo,
         dialog' = dialog \/ (dialog' # None =>
           sel.cluster # None /\ dialog' \in Writes /\ GoodWrite(dialog'))
  PROVE  Inv'
<1>1. dialog' # None => sel.cluster # None /\ dialog' \in Writes /\ GoodWrite(dialog')
  BY TypeFacts DEF Inv, Rooted, WritesInv
<1>2. ListsInv' /\ DetailInv' /\ PanelsInv' /\ FormInv' /\ EditorInv'
  BY ListsKept, DrawerKept, EditorKept
<1>3. Shapes'
  BY TypeFacts DEF Shapes
<1>4. detail'.object # None => sel.cluster # None
  BY DEF Inv, Rooted
<1> QED
  BY <1>1, <1>2, <1>3, <1>4, InvNext

(* The drawer closes, and an editor or a dialog may open from it.          *)
LEMMA ClosedKeeps ==
  ASSUME Inv, UNCHANGED <<sel, namespaces, list, scaling>>, detail' = NoDetail,
         spent' \in Spendings, calls \subseteq calls', CallsGo, late' = late,
         crossed' \subseteq {"detail", "editor"}, editor' \in Editors, EditorInv',
         dialog' = dialog \/ (dialog' # None =>
           sel.cluster # None /\ dialog' \in Writes /\ GoodWrite(dialog'))
  PROVE  Inv'
<1>1. dialog' # None => sel.cluster # None /\ dialog' \in Writes /\ GoodWrite(dialog')
  BY TypeFacts DEF Inv, Rooted, WritesInv
<1>2. ListsInv' /\ DetailInv' /\ PanelsInv' /\ FormInv'
  BY ListsKept, DrawerClosed, NoDetailFacts
<1>3. Shapes'
  BY TypeFacts, NoDetailFacts DEF Shapes
<1>4. detail'.object = None
  BY NoDetailFacts
<1> QED
  BY <1>1, <1>2, <1>3, <1>4, InvNext

-----------------------------------------------------------------------------
(* What the user does.                                                     *)

LEMMA SentGo ==
  ASSUME Inv, NEW new, Send(calls \cup new), \A c \in new : GoodCall(c) /\ sel.cluster # None
  PROVE  CallsGo /\ calls \subseteq calls'
<1>1. calls' = calls \cup new /\ Cardinality(calls') <= MaxCalls
  BY DEF Send
<1> QED
  BY <1>1, CallsAreGood DEF CallsGo

LEMMA QuietGo ==
  ASSUME Inv, UNCHANGED calls
  PROVE  CallsGo /\ calls \subseteq calls'
BY TypeFacts, CallsAreGood DEF CallsGo

LEMMA WriteIsGood ==
  ASSUME sel \in Selections, sel.cluster # None, NEW o \in Objects,
         NEW ask \in {"save", "delete", "rollback", "scale", "unscale"},
         NEW about \in SUBSET (Objects \cup {None}), NEW excused \in BOOLEAN,
         excused \/ about \subseteq {None, Here(o)}
  PROVE  LET w == Write(ask, o, about, excused)
         IN  w \in Writes /\ GoodWrite(w)
<1>1. sel \in Scopes
  BY DEF Selections, Scopes
<1>2. Here(o) \in Objects
  BY HereFacts
<1> DEFINE w == [ask |-> ask, to |-> Here(o), about |-> about \ {None}, scope |-> sel,
                 excused |-> excused]
<1>3. /\ w \in Writes /\ w.to = Here(o) /\ w.about = about \ {None} /\ w.excused = excused
  BY <1>1, <1>2 DEF Writes
<1>4. Write(ask, o, about, excused) = w
  BY DEF Write
<1> HIDE DEF w
<1>5. GoodWrite(w)
  BY <1>3 DEF GoodWrite
<1> QED
  BY <1>3, <1>4, <1>5

LEMMA RefreshListKeeps ==
  ASSUME Inv, RefreshList
  PROVE  Inv'
<1>1. /\ UNCHANGED <<sel, namespaces, list, detail, editor, scaling, dialog, late, crossed, spent>>
      /\ Send(calls \cup ListOf(sel)) /\ sel.cluster # None
  BY DEF RefreshList
<1>2. \A c \in ListOf(sel) : GoodCall(c)
  BY TypeFacts, QueryFacts DEF GoodCall
<1>3. CallsGo /\ calls \subseteq calls'
  BY <1>1, <1>2, SentGo
<1> QED
  BY <1>1, <1>3, Spent, AsideKeeps

LEMMA EditRowKeeps ==
  ASSUME Inv, EditRow
  PROVE  Inv'
<1>1. PICK o \in Rows : Send(calls \cup {[ask |-> "edit", of |-> Here(o)]})
  BY DEF EditRow
<1>2. o \in Objects /\ sel.cluster # None /\ Here(o) \in Objects
  BY RowsFacts, TypeFacts, HereFacts
<1>3. [ask |-> "edit", of |-> Here(o)] \in Calls
  BY <1>2, NewCalls
<1>4. CallsGo /\ calls \subseteq calls'
  BY <1>1, <1>2, <1>3, SentGo DEF GoodCall
<1> QED
  BY <1>4, Spent, AsideKeeps DEF EditRow

LEMMA SubmitKeeps ==
  ASSUME Inv, Submit
  PROVE  Inv'
<1> SUFFICES ASSUME NEW excused \in BOOLEAN, excused <=> "editor" \in crossed,
                    NEW w, w = Write("save", editor.of, {editor.of}, excused),
                    Send(calls \cup {w})
             PROVE  Inv'
  <2>1. ("editor" \in crossed) \in BOOLEAN
    OBVIOUS
  <2> QED
    BY <2>1 DEF Submit
<1>1. editor.open /\ sel.cluster # None /\ sel \in Selections
  BY TypeFacts DEF Submit
<1>2. editor.of \in Objects /\ (excused \/ editor.of = Here(editor.of))
  BY <1>1 DEF Inv, EditorInv
<1>3. w \in Writes /\ GoodWrite(w)
  BY <1>1, <1>2, WriteIsGood
<1>4. CallsGo /\ calls \subseteq calls'
  BY <1>1, <1>3, SentGo DEF GoodCall
<1> QED
  BY <1>4, Spent, AsideKeeps DEF Submit

(* removeResource asks first; the row is an object of the list.            *)
LEMMA RemoveRowKeeps ==
  ASSUME Inv, RemoveRow
  PROVE  Inv'
<1>1. PICK o \in Rows : dialog' = Write("delete", o, {o}, o # Here(o))
  BY DEF RemoveRow
<1> SUFFICES ASSUME NEW excused \in BOOLEAN, excused <=> o # Here(o),
                    dialog' = Write("delete", o, {o}, excused)
             PROVE  Inv'
  <2>1. (o # Here(o)) \in BOOLEAN
    OBVIOUS
  <2> QED
    BY <1>1, <2>1
<1>2. o \in Objects /\ sel.cluster # None /\ sel \in Selections
  BY RowsFacts, TypeFacts
<1>3. dialog' \in Writes /\ GoodWrite(dialog')
  BY <1>2, WriteIsGood
<1>4. CallsGo /\ calls \subseteq calls'
  BY QuietGo DEF RemoveRow
<1> QED
  BY <1>2, <1>3, <1>4, Spent, AsideKeeps DEF RemoveRow

LEMMA CancelKeeps ==
  ASSUME Inv, Cancel
  PROVE  Inv'
<1>1. CallsGo /\ calls \subseteq calls'
  BY QuietGo DEF Cancel
<1> QED
  BY <1>1, Spent, AsideKeeps DEF Cancel

LEMMA ConfirmKeeps ==
  ASSUME Inv, Confirm
  PROVE  Inv'
<1>1. dialog # None /\ dialog' = None /\ Send(calls \cup {dialog})
  BY DEF Confirm
<1>2. dialog \in Writes /\ GoodWrite(dialog) /\ sel.cluster # None
  BY <1>1, TypeFacts DEF Inv, WritesInv, Rooted
<1>3. CallsGo /\ calls \subseteq calls'
  BY <1>1, <1>2, SentGo DEF GoodCall
<1> QED
  BY <1>1, <1>3, Spent, AsideKeeps DEF Confirm

LEMMA CloseScalingKeeps ==
  ASSUME Inv, CloseScaling
  PROVE  Inv'
<1>1. CallsGo /\ calls \subseteq calls'
  BY QuietGo DEF CloseScaling
<1> QED
  BY <1>1, Spent, AsideKeeps DEF CloseScaling

(* An object in the drawer that may be acted on.                           *)
LEMMA ShownFacts ==
  ASSUME Inv, Shown
  PROVE  /\ detail.object \in Objects /\ sel \in Selections /\ sel.cluster # None
         /\ "detail" \in crossed \/ detail.object = Here(detail.object)
         /\ \A p \in Panels \ late :
              detail.panels[p] # None => "detail" \in crossed \/ detail.panels[p] = detail.object
         /\ \A p \in Panels : detail.panels[p] \in Objects \cup {None}
<1>1. detail.object # None /\ ~ detail.loading
  BY DEF Shown
<1>2. detail \in Details
  BY TypeFacts
<1>3. detail.object \in Objects /\ \A p \in Panels : detail.panels[p] \in Objects \cup {None}
  BY <1>1, <1>2 DEF Details
<1>4. "detail" \in crossed \/ Own
  BY <1>1 DEF Own
<1>5. Own => detail.object = Here(detail.object)
  BY DEF Inv, DetailInv
<1>6. Own => \A p \in Panels \ late :
        detail.panels[p] # None => detail.panels[p] = detail.object
  BY <1>1 DEF Inv, PanelsInv
<1> QED
  BY <1>1, <1>3, <1>4, <1>5, <1>6, TypeFacts DEF Inv, Rooted

LEMMA CloseDetailKeeps ==
  ASSUME Inv, CloseDetail
  PROVE  Inv'
<1>1. CallsGo /\ calls \subseteq calls'
  BY QuietGo DEF CloseDetail
<1>2. EditorInv' /\ editor' \in Editors /\ crossed' \subseteq {"detail", "editor"}
  BY EditorKept, TypeFacts DEF CloseDetail
<1> QED
  BY <1>1, <1>2, Spent, ClosedKeeps DEF CloseDetail

LEMMA EditShownKeeps ==
  ASSUME Inv, EditShown
  PROVE  Inv'
<1>1. Shown /\ Send(calls \cup {[ask |-> "edit", of |-> Here(detail.object)]})
  BY DEF EditShown
<1>2. sel.cluster # None /\ Here(detail.object) \in Objects
  BY <1>1, ShownFacts, HereFacts
<1>3. [ask |-> "edit", of |-> Here(detail.object)] \in Calls
  BY <1>2, NewCalls
<1>4. CallsGo /\ calls \subseteq calls'
  BY <1>1, <1>2, <1>3, SentGo DEF GoodCall
<1>5. EditorInv' /\ editor' \in Editors /\ crossed' \subseteq {"detail", "editor"}
  BY EditorKept, TypeFacts DEF EditShown
<1> QED
  BY <1>4, <1>5, Spent, ClosedKeeps DEF EditShown

LEMMA CopyShownKeeps ==
  ASSUME Inv, CopyShown
  PROVE  Inv'
<1>1. CallsGo /\ calls \subseteq calls'
  BY QuietGo DEF CopyShown
<1>2. /\ editor' = [open |-> TRUE, of |-> detail.object] /\ detail.object \in Objects
      /\ crossed' = IF detail.object = Here(detail.object) THEN {} ELSE {"editor"}
      /\ UNCHANGED sel
  BY ShownFacts DEF CopyShown
<1>3. editor' \in Editors /\ crossed' \subseteq {"detail", "editor"}
  BY <1>2 DEF Editors
<1>4. Here(detail.object) = [detail.object EXCEPT !.cluster = sel'.cluster, !.kind = sel'.kind]
  BY <1>2 DEF Here
<1>5. EditorInv'
  BY <1>2, <1>4 DEF EditorInv, Here
<1> QED
  BY <1>1, <1>3, <1>5, Spent, ClosedKeeps DEF CopyShown

LEMMA RemoveShownKeeps ==
  ASSUME Inv, RemoveShown
  PROVE  Inv'
<1> SUFFICES ASSUME NEW excused \in BOOLEAN, excused <=> "detail" \in crossed,
                    dialog' = Write("delete", detail.object, {detail.object}, excused)
             PROVE  Inv'
  <2>1. ("detail" \in crossed) \in BOOLEAN
    OBVIOUS
  <2> QED
    BY <2>1 DEF RemoveShown
<1>1. CallsGo /\ calls \subseteq calls'
  BY QuietGo DEF RemoveShown
<1>2. /\ detail.object \in Objects /\ sel \in Selections /\ sel.cluster # None
      /\ excused \/ detail.object = Here(detail.object)
  BY ShownFacts DEF RemoveShown
<1>3. dialog' \in Writes /\ GoodWrite(dialog')
  BY <1>2, WriteIsGood
<1>4. EditorInv' /\ editor' \in Editors /\ crossed' \subseteq {"detail", "editor"}
  BY EditorKept, TypeFacts DEF RemoveShown
<1> QED
  BY <1>1, <1>2, <1>3, <1>4, Spent, ClosedKeeps DEF RemoveShown

(* A rollback is to a revision that the drawer shows of its object.        *)
LEMMA AskFirstKeeps ==
  ASSUME Inv, AskFirst
  PROVE  Inv'
<1>1. \E p \in Panels, ask \in {"rollback", "unscale"}, excused \in BOOLEAN :
        /\ excused <=> "detail" \in crossed \/ p \in late
        /\ detail.panels[p] # None
        /\ dialog' = Write(ask, detail.object, {detail.object, detail.panels[p]}, excused)
  <2>1. \A p : ("detail" \in crossed \/ p \in late) \in BOOLEAN
    OBVIOUS
  <2>2. PICK op \in {<<"rollback", "history">>, <<"unscale", "autoscaling">>} :
          /\ op[2] \in Panels /\ detail.panels[op[2]] # None
          /\ dialog' = Write(op[1], detail.object, {detail.object, detail.panels[op[2]]},
                             "detail" \in crossed \/ op[2] \in late)
    BY DEF AskFirst
  <2>3. op[1] \in {"rollback", "unscale"}
    OBVIOUS
  <2> QED
    BY <2>1, <2>2, <2>3
<1> SUFFICES ASSUME NEW p \in Panels, NEW ask \in {"rollback", "unscale"},
                    NEW excused \in BOOLEAN, excused <=> "detail" \in crossed \/ p \in late,
                    detail.panels[p] # None,
                    dialog' = Write(ask, detail.object, {detail.object, detail.panels[p]}, excused)
             PROVE  Inv'
  BY <1>1
<1>2. CallsGo /\ calls \subseteq calls'
  BY QuietGo DEF AskFirst
<1>3. /\ detail.object \in Objects /\ sel \in Selections /\ sel.cluster # None
      /\ detail.panels[p] \in Objects
      /\ excused \/ (detail.object = Here(detail.object) /\ detail.panels[p] = detail.object)
  BY ShownFacts DEF AskFirst
<1>4. dialog' \in Writes /\ GoodWrite(dialog')
  BY <1>3, WriteIsGood
<1> QED
  BY <1>2, <1>3, <1>4, Spent, AsideKeeps DEF AskFirst

(* The form of the autoscaler, filled from the panel of the object shown.  *)
LEMMA OpenScalingKeeps ==
  ASSUME Inv, OpenScaling
  PROVE  Inv'
<1> SUFFICES ASSUME NEW excused \in BOOLEAN,
                    excused <=> "detail" \in crossed \/ "autoscaling" \in late,
                    scaling' = [about |-> {detail.object, detail.panels.autoscaling} \ {None},
                                excused |-> excused]
             PROVE  Inv'
  <2>1. ("detail" \in crossed \/ "autoscaling" \in late) \in BOOLEAN
    OBVIOUS
  <2> QED
    BY <2>1 DEF OpenScaling
<1>1. /\ UNCHANGED <<sel, namespaces, list, detail, editor, dialog, calls, late, crossed>>
      /\ "autoscaling" \in Panels /\ Shown
  BY DEF OpenScaling
<1>2. /\ detail.object \in Objects /\ detail.panels["autoscaling"] \in Objects \cup {None}
      /\ excused \/ detail.panels["autoscaling"] \in {detail.object, None}
  BY <1>1, ShownFacts
<1>3. /\ scaling' \in Forms /\ scaling'.excused = excused
      /\ scaling'.about \subseteq {detail.object} \/ excused
  BY <1>2 DEF Forms
<1>4. FormInv'
  BY <1>1, <1>2, <1>3, NoneFacts DEF FormInv
<1>5. CallsGo
  BY <1>1, QuietGo
<1>6. ListsInv' /\ DetailInv' /\ PanelsInv' /\ EditorInv'
  BY <1>1, ListsKept, DrawerKept, EditorKept
<1>7. Shapes'
  BY <1>1, <1>3, TypeFacts, Spent DEF Shapes, OpenScaling
<1>8. /\ detail'.object # None => sel.cluster # None
      /\ dialog' # None => sel.cluster # None /\ dialog' \in Writes /\ GoodWrite(dialog')
  BY <1>1, TypeFacts DEF Inv, Rooted, WritesInv
<1> QED
  BY <1>1, <1>4, <1>5, <1>6, <1>7, <1>8, InvNext

LEMMA SubmitScalingKeeps ==
  ASSUME Inv, SubmitScaling
  PROVE  Inv'
<1> SUFFICES ASSUME NEW excused \in BOOLEAN,
                    excused <=> scaling.excused \/ "detail" \in crossed,
                    NEW w, w = Write("scale", detail.object, scaling.about \cup {detail.object},
                                     excused),
                    Send(calls \cup {w})
             PROVE  Inv'
  <2>1. (scaling.excused \/ "detail" \in crossed) \in BOOLEAN
    OBVIOUS
  <2> QED
    BY <2>1 DEF SubmitScaling
<1>1. /\ UNCHANGED <<sel, namespaces, list, detail, editor, scaling, dialog, late, crossed, spent>>
      /\ scaling # None /\ sel.cluster # None /\ detail.object # None
  BY DEF SubmitScaling
<1>2. scaling \in Forms /\ detail \in Details /\ sel \in Selections
  BY <1>1, TypeFacts
<1>3. detail.object \in Objects /\ scaling.about \in SUBSET Objects /\ scaling.excused \in BOOLEAN
  BY <1>1, <1>2 DEF Forms, Details
<1>4. "detail" \in crossed \/ Own
  BY <1>1 DEF Own
<1>5. Own => /\ detail.object = Here(detail.object)
             /\ scaling.about \subseteq {detail.object} \/ scaling.excused
  BY <1>1 DEF Inv, DetailInv, FormInv
<1>6. w \in Writes /\ GoodWrite(w)
  BY <1>1, <1>2, <1>3, <1>4, <1>5, WriteIsGood
<1>7. CallsGo /\ calls \subseteq calls'
  BY <1>1, <1>6, SentGo DEF GoodCall
<1> QED
  BY <1>1, <1>7, Spent, AsideKeeps

LEMMA OpenDetailKeeps ==
  ASSUME Inv, OpenDetail
  PROVE  Inv'
<1>1. PICK o \in Rows :
        /\ detail' = Rendered([detail EXCEPT !.open = TRUE, !.loading = TRUE,
             !.panels = [p \in Panels |-> IF p = "pods" THEN detail.panels[p] ELSE None]])
        /\ Send(calls \cup {[ask |-> "detail", of |-> Here(o)]} \cup PanelsOf(detail', sel))
  BY DEF OpenDetail
<1>2. /\ UNCHANGED <<sel, namespaces, list, editor, scaling, dialog, crossed>>
      /\ late' = late \ (Panels \ {"pods"}) /\ scaling = None
  BY DEF OpenDetail, Uncovered
<1>3. o \in Objects /\ sel.cluster # None /\ Here(o) \in Objects /\ sel \in Selections
  BY RowsFacts, TypeFacts, HereFacts
<1>4. /\ detail' \in Details /\ detail'.open = TRUE /\ detail'.loading = TRUE
      /\ detail'.object = detail.object
  <2> DEFINE ps == [p \in Panels |-> IF p = "pods" THEN detail.panels[p] ELSE None]
             d  == [detail EXCEPT !.open = TRUE, !.loading = TRUE, !.panels = ps]
  <2>1. detail \in Details
    BY TypeFacts
  <2>2. ps \in [Panels -> Objects \cup {None}]
    BY <2>1 DEF Details
  <2> HIDE DEF ps
  <2>3. d \in Details /\ d.open = TRUE /\ d.loading = TRUE /\ d.object = detail.object
    BY <2>1, <2>2 DEF Details
  <2>4. detail' = Rendered(d)
    BY <1>1 DEF ps
  <2> HIDE DEF d
  <2> QED
    BY <2>3, <2>4, RenderedFacts
<1>5. CallsGo /\ calls \subseteq calls'
  <2>1. [ask |-> "detail", of |-> Here(o)] \in Calls
    BY <1>3, NewCalls
  <2>2. PanelsOf(detail', sel) \subseteq Calls
    BY <1>3, <1>4, PanelsOfFacts
  <2> DEFINE new == {[ask |-> "detail", of |-> Here(o)]} \cup PanelsOf(detail', sel)
  <2>3. \A c \in new : c \in Calls
    BY <2>1, <2>2
  <2>4. Send(calls \cup new)
    <3>1. calls \cup new = calls \cup {[ask |-> "detail", of |-> Here(o)]} \cup PanelsOf(detail',
                                                                                         sel)
      OBVIOUS
    <3> HIDE DEF new
    <3> QED
      BY <1>1, <3>1
  <2> HIDE DEF new
  <2> QED
    BY <1>3, <2>3, <2>4, SentGo DEF GoodCall
<1>6. ListsInv'
  BY <1>2, <1>5, ListsKept, PanelNames
<1>7. EditorInv'
  BY <1>2, EditorKept
<1>8. PanelsInv'
  BY <1>4 DEF PanelsInv
<1>9. DetailInv'
  <2>1. Own' <=> Own
    BY <1>2, <1>4 DEF Own
  <2>2. Here(detail.object)' = Here(detail.object)
    BY <1>2, <1>4 DEF Here
  <2> QED
    BY <1>2, <1>4, <2>1, <2>2 DEF DetailInv, Inv
<1>10. FormInv'
  BY <1>2 DEF FormInv
<1>11. Shapes'
  BY <1>2, <1>4, TypeFacts, Spent DEF Shapes, OpenDetail
<1>12. dialog' # None => sel.cluster # None /\ dialog' \in Writes /\ GoodWrite(dialog')
  BY <1>2, TypeFacts DEF Inv, Rooted, WritesInv
<1> QED
  BY <1>2, <1>3, <1>5, <1>6, <1>7, <1>8, <1>9, <1>10, <1>11, <1>12, InvNext

(* The editor opens, changes or closes beside the drawer.                  *)
LEMMA EditorMoves ==
  ASSUME Inv, UNCHANGED <<sel, namespaces, list, detail, dialog, late>>,
         scaling' \in {scaling, None}, spent' \in Spendings, CallsGo,
         \A c \in calls : c.ask \in Panels \cup {"list", "namespaces"} => c \in calls',
         crossed' \subseteq {"detail", "editor"}, "detail" \in crossed' <=> "detail" \in crossed,
         editor' \in Editors, EditorInv'
  PROVE  Inv'
<1>1. ListsInv' /\ DetailInv' /\ PanelsInv' /\ FormInv'
  BY ListsKept, DrawerKept
<1>2. Shapes'
  BY TypeFacts DEF Shapes
<1>3. /\ dialog' # None => sel.cluster # None /\ dialog' \in Writes /\ GoodWrite(dialog')
      /\ detail'.object # None => sel.cluster # None
  BY TypeFacts DEF Inv, Rooted, WritesInv
<1> QED
  BY <1>1, <1>2, <1>3, InvNext

LEMMA EditorOpens ==
  ASSUME NEW o \in Objects, editor' = [open |-> TRUE, of |-> o], UNCHANGED sel,
         crossed' = IF o = Here(o) THEN crossed \ {"editor"} ELSE crossed \cup {"editor"}
  PROVE  editor' \in Editors /\ EditorInv' /\ ("detail" \in crossed' <=> "detail" \in crossed)
<1>1. Here(o)' = Here(o)
  BY DEF Here
<1>2. editor'.of = o /\ editor' \in Editors
  BY DEF Editors
<1>3. Here(editor.of)' = Here(o)
  BY <1>2 DEF Here
<1> QED
  BY <1>2, <1>3 DEF EditorInv

LEMMA NoEditorFacts ==
  ASSUME editor' = NoEditor
  PROVE  editor' \in Editors /\ EditorInv'
BY DEF NoEditor, Editors, EditorInv

LEMMA OpenCopyKeeps ==
  ASSUME Inv, OpenCopy
  PROVE  Inv'
<1>1. PICK o \in Rows \cup [cluster : {sel.cluster}, kind : {sel.kind}, ns : {sel.ns},
                            name : Names] :
        /\ editor' = [open |-> TRUE, of |-> o]
        /\ crossed' = IF o = Here(o) THEN crossed \ {"editor"} ELSE crossed \cup {"editor"}
  BY DEF OpenCopy
<1>2. UNCHANGED <<sel, namespaces, list, detail, scaling, dialog, calls,
        late>> /\ sel.cluster # None
  BY DEF OpenCopy
<1>3. o \in Objects
  <2>1. sel \in Selections
    BY TypeFacts
  <2>2. [cluster : {sel.cluster}, kind : {sel.kind}, ns : {sel.ns}, name : Names] \subseteq Objects
    BY <1>2, <2>1 DEF Selections, Objects
  <2> QED
    BY <2>2, RowsFacts
<1>4. editor' \in Editors /\ EditorInv' /\ ("detail" \in crossed' <=> "detail" \in crossed)
  BY <1>1, <1>2, <1>3, EditorOpens
<1>5. crossed' \subseteq {"detail", "editor"}
  BY <1>1, TypeFacts
<1>6. CallsGo
  BY <1>2, QuietGo
<1> QED
  BY <1>2, <1>4, <1>5, <1>6, Spent, EditorMoves DEF OpenCopy

LEMMA CloseEditorKeeps ==
  ASSUME Inv, CloseEditor
  PROVE  Inv'
<1>1. /\ UNCHANGED <<sel, namespaces, list, detail, scaling, dialog, calls, late, spent>>
      /\ editor' = NoEditor /\ crossed' = crossed \ {"editor"}
  BY DEF CloseEditor
<1>2. CallsGo /\ editor' \in Editors /\ EditorInv' /\ crossed' \subseteq {"detail", "editor"}
  BY <1>1, QuietGo, NoEditorFacts, TypeFacts
<1> QED
  BY <1>1, <1>2, Spent, EditorMoves

-----------------------------------------------------------------------------
(* The selection changes, by hand or from elsewhere, or its namespaces     *)
(* come: what is shown is read again, and the drawer is emptied.           *)
LEMMA SelectKeeps ==
  ASSUME Inv, NEW s \in Selections, NEW read \in Clusters \cup {None}, NEW cs, NEW ex,
         Select(s, read, cs, ex), spent' \in Spendings,
         cs \subseteq calls, \A c \in calls \ cs : c.ask = "namespaces",
         sel.cluster # None => s.cluster # None,
         ex \subseteq Panels \cup {"list", "namespaces"},
           late \cap ({"list"} \cup Panels) \subseteq ex,
         s.cluster = sel.cluster =>
           s.cluster = None \/ read = s.cluster \/ "namespaces" \in ex \/ SpacesOf(sel) \subseteq cs
  PROVE  Inv'
<1> DEFINE fit == FitNamespace(s, read)
<1>1. /\ fit \in Selections /\ fit.cluster = s.cluster /\ fit.kind = s.kind
      /\ s.kind \notin Namespaced => fit.ns = ""
  BY FitFacts
<1>2. /\ sel' = fit /\ namespaces' = read
      /\ UNCHANGED <<list, editor, scaling, dialog>>
  BY DEF Select
<1>3. /\ sel' \in Selections /\ (sel'.kind \notin Namespaced => sel'.ns = "")
      /\ sel'.cluster = s.cluster
  BY <1>1, <1>2
<1>4. dialog' # None => sel'.cluster # None /\ dialog' \in Writes /\ GoodWrite(dialog')
  BY <1>2, <1>3, TypeFacts DEF Inv, WritesInv, Rooted
<1>5. "namespaces" \notin Panels
  BY PanelNames
<1>6. \A c \in ListOf(sel) : c.ask = "list"
  BY TypeFacts, QueryFacts
<1>7. CASE s = sel /\ fit = sel
  <2>1. calls' = cs /\ Cardinality(cs) <= MaxCalls /\ UNCHANGED <<sel, detail,
          crossed>> /\ late' = ex
    BY <1>2, <1>7 DEF Select, Send
  <2>2. CallsGo
    BY <2>1, CallsAreGood DEF CallsGo
  <2>3. ListsInv'
    <3>1. /\ sel.cluster = None \/ list = Query(sel) \/ "list" \in late
               \/ ListOf(sel) \subseteq calls
          /\ late \cap {"list"} \subseteq ex
      BY DEF Inv, ListsInv
    <3>2. ListOf(sel)' = ListOf(sel) /\ SpacesOf(sel)' = SpacesOf(sel) /\ Query(sel)' = Query(sel)
      BY <2>1 DEF ListOf, SpacesOf, Query
    <3>3. ListOf(sel) \subseteq calls => ListOf(sel) \subseteq cs
      BY <1>6
    <3>4. sel'.cluster = None \/ list' = Query(sel)' \/ "list" \in late'
            \/ ListOf(sel)' \subseteq calls'
      BY <1>2, <2>1, <3>1, <3>2, <3>3
    <3>5. sel'.cluster = None \/ namespaces' = sel'.cluster \/ "namespaces" \in late'
             \/ SpacesOf(sel)' \subseteq calls'
      BY <1>2, <1>7, <2>1, <3>2
    <3> QED
      BY <3>4, <3>5 DEF ListsInv
  <2>4. DetailInv' /\ PanelsInv' /\ FormInv' /\ EditorInv'
    BY <1>2, <1>5, <2>1, DrawerKept, EditorKept
  <2>5. Shapes'
    BY <1>2, <2>1, TypeFacts DEF Shapes
  <2>6. (sel.cluster # None => sel'.cluster # None)
          /\ (detail'.object # None => sel'.cluster # None)
    BY <2>1 DEF Inv, Rooted
  <2> HIDE DEF fit
  <2> QED
    BY <1>2, <1>3, <1>4, <2>2, <2>3, <2>4, <2>5, <2>6, InvNextAny
<1>8. CASE ~ (s = sel /\ fit = sel)
  <2> DEFINE ask  == IF s.cluster = sel.cluster THEN {} ELSE SpacesOf(s) \cup PanelsOf(detail, s)
             ask2 == IF s = sel THEN {} ELSE ListOf(s)
  <2>1. /\ Send(cs \cup ask \cup ListOf(fit) \cup ask2) /\ EmptyDetail
        /\ late' = ex \ ({"list"} \cup Panels
                         \cup IF s.cluster = sel.cluster THEN {} ELSE {"namespaces"})
    BY <1>8 DEF Select
  <2>2. ask \subseteq Calls /\ ListOf(fit) \subseteq Calls /\ ask2 \subseteq Calls
    BY <1>1, TypeFacts, QueryFacts, PanelsOfFacts
  <2>3. s.cluster = None => ask = {} /\ ListOf(fit) = {} /\ ask2 = {}
    BY <1>1 DEF ListOf, SpacesOf, PanelsOf
  <2>4. s.cluster # sel.cluster => SpacesOf(s) \subseteq ask
    OBVIOUS
  <2> HIDE DEF ask, ask2
  <2>5. calls' = cs \cup ask \cup ListOf(fit) \cup ask2 /\ Cardinality(calls') <= MaxCalls
    BY <2>1 DEF Send
  <2>6. CallsGo
    <3>1. \A c \in calls' : c \in calls \/ GoodCall(c)
      BY <2>2, <2>5 DEF GoodCall
    <3>2. calls' # {} => sel.cluster # None \/ sel'.cluster # None
      BY <1>3, <2>3, <2>5, CallsAreGood
    <3> QED
      BY <2>5, <3>1, <3>2 DEF CallsGo
  <2>7. ListsInv'
    <3>1. ListOf(sel)' = ListOf(fit) /\ SpacesOf(sel)' = SpacesOf(s)
      BY <1>2, <1>3 DEF ListOf, SpacesOf, Query
    <3>2. ListOf(sel)' \subseteq calls'
      BY <2>5, <3>1
    <3>3. s.cluster # sel.cluster => SpacesOf(sel)' \subseteq calls'
      BY <2>4, <2>5, <3>1
    <3>4. s.cluster = sel.cluster => SpacesOf(s) = SpacesOf(sel)
      BY DEF SpacesOf
    <3>5. s.cluster = sel.cluster => ("namespaces" \in ex => "namespaces" \in late')
      BY <1>5, <2>1
    <3>6. sel'.cluster = None \/ namespaces' = sel'.cluster \/ "namespaces" \in late'
             \/ SpacesOf(sel)' \subseteq calls'
      BY <1>2, <1>3, <2>5, <3>1, <3>3, <3>4, <3>5
    <3> QED
      BY <3>2, <3>6 DEF ListsInv
  <2>8. /\ detail' = NoDetail
        /\ crossed' = (crossed \ {"detail"}) \cup (IF editor.open THEN {"editor"} ELSE {})
    BY <2>1 DEF EmptyDetail
  <2>9. DetailInv' /\ PanelsInv' /\ FormInv' /\ detail'.object = None
    BY <2>8, DrawerClosed, NoDetailFacts
  <2>10. EditorInv'
    BY <1>2, <2>8 DEF EditorInv, Inv
  <2>11. crossed' \subseteq {"detail", "editor"} /\ late' \subseteq Panels \cup {"list",
                                                                                 "namespaces"}
    BY <2>1, <2>8, TypeFacts
  <2>12. Shapes'
    BY <1>2, <2>8, <2>11, TypeFacts, NoDetailFacts DEF Shapes
  <2> HIDE DEF fit
  <2> QED
    BY <1>2, <1>3, <1>4, <2>6, <2>7, <2>9, <2>10, <2>12, InvNextAny
<1> QED
  BY <1>7, <1>8

(* By hand or from elsewhere, with the namespaces as they were read.       *)
LEMMA MovedKeeps ==
  ASSUME Inv, NEW s \in Selections, Select(s, namespaces, calls, late), Move,
         sel.cluster # None => s.cluster # None
  PROVE  Inv'
<1>1. namespaces \in Clusters \cup {None} /\ late \subseteq Panels \cup {"list", "namespaces"}
  BY TypeFacts
<1>2. s.cluster = sel.cluster =>
        s.cluster = None \/ namespaces = s.cluster \/ "namespaces" \in late
          \/ SpacesOf(sel) \subseteq calls
  BY DEF Inv, ListsInv
<1>3. spent' \in Spendings
  BY Spent
<1> QED
  BY <1>1, <1>2, <1>3, SelectKeeps

LEMMA SelectClusterKeeps ==
  ASSUME Inv, SelectCluster \/ ClusterTurns
  PROVE  Inv'
<1>1. PICK c \in Clusters : Select([sel EXCEPT !.cluster = c], namespaces, calls, late)
  BY DEF SelectCluster, ClusterTurns
<1>2. [sel EXCEPT !.cluster = c] \in Selections /\ [sel EXCEPT !.cluster = c].cluster # None
  BY TypeFacts, NoneFacts DEF Selections
<1>3. Move
  BY DEF SelectCluster, ClusterTurns
<1> QED
  BY <1>1, <1>2, <1>3, MovedKeeps

LEMMA SelectKindKeeps ==
  ASSUME Inv, SelectKind
  PROVE  Inv'
<1>1. PICK k \in Kinds : Select([sel EXCEPT !.kind = k], namespaces, calls, late)
  BY DEF SelectKind
<1>2. [sel EXCEPT !.kind = k] \in Selections /\ [sel EXCEPT !.kind = k].cluster = sel.cluster
  BY TypeFacts DEF Selections
<1>3. Move
  BY DEF SelectKind
<1> QED
  BY <1>1, <1>2, <1>3, MovedKeeps

LEMMA SelectNamespaceKeeps ==
  ASSUME Inv, SelectNamespace
  PROVE  Inv'
<1>1. PICK n \in NamespacesOf[namespaces] \cup {""} :
        Select([sel EXCEPT !.ns = n], namespaces, calls, late)
  BY DEF SelectNamespace
<1>2. n \in AllNamespaces \cup {""}
  BY TypeFacts DEF SelectNamespace, AllNamespaces
<1>3. [sel EXCEPT !.ns = n] \in Selections /\ [sel EXCEPT !.ns = n].cluster = sel.cluster
  BY <1>2, TypeFacts DEF Selections
<1>4. Move
  BY DEF SelectNamespace
<1> QED
  BY <1>1, <1>3, <1>4, MovedKeeps

-----------------------------------------------------------------------------
(* What the server answers.                                                *)
LEMMA ReceivedGo ==
  ASSUME Inv, NEW c \in calls, NEW new, Send((calls \ {c}) \cup new), \A n \in new : GoodCall(n)
  PROVE  CallsGo /\ calls \ {c} \subseteq calls' /\ new \subseteq calls'
<1>1. calls' = (calls \ {c}) \cup new /\ Cardinality(calls') <= MaxCalls
  BY DEF Send
<1> QED
  BY <1>1, CallsAreGood DEF CallsGo

LEMMA AnsweredGo ==
  ASSUME Inv, NEW c \in calls, Send(calls \ {c})
  PROVE  CallsGo /\ calls \ {c} \subseteq calls'
<1>1. calls' = calls \ {c} /\ Cardinality(calls') <= MaxCalls
  BY DEF Send
<1> QED
  BY <1>1, CallsAreGood DEF CallsGo

LEMMA GotNamespacesKeeps ==
  ASSUME Inv, NEW c \in calls, GotNamespaces(c), UNCHANGED spent
  PROVE  Inv'
<1>1. /\ c.ask = "namespaces"
      /\ Select(sel, c.cluster, calls \ {c},
                IF c.cluster = sel.cluster THEN late \ {"namespaces"} ELSE late \cup {"namespaces"})
  BY DEF GotNamespaces
<1> DEFINE ex == IF c.cluster = sel.cluster THEN late \ {"namespaces"} ELSE late \cup {"namespaces"}
<1>2. c.cluster \in Clusters
  BY <1>1, TypeFacts, CallFacts, WriteFacts
<1>3. ex \subseteq Panels \cup {"list",
                                "namespaces"} /\ late \cap ({"list"} \cup Panels) \subseteq ex
  BY TypeFacts, PanelNames
<1>4. c.cluster = sel.cluster \/ "namespaces" \in ex
  OBVIOUS
<1> HIDE DEF ex
<1>5. Select(sel, c.cluster, calls \ {c}, ex)
  BY <1>1 DEF ex
<1>6. sel \in Selections /\ spent' \in Spendings
  BY TypeFacts, Spent
<1> QED
  BY <1>1, <1>2, <1>3, <1>4, <1>5, <1>6, SelectKeeps

LEMMA GotListKeeps ==
  ASSUME Inv, NEW c \in calls, GotList(c), UNCHANGED spent
  PROVE  Inv'
<1>1. /\ c.ask = "list" /\ list' = c.scope
      /\ late' = IF c.scope = Query(sel) THEN late \ {"list"} ELSE late \cup {"list"}
      /\ Send(calls \ {c}) /\ UNCHANGED <<sel, namespaces, editor, scaling, dialog>>
  BY DEF GotList, Mark
<1>2. c.scope \in Scopes
  BY <1>1, TypeFacts, CallFacts, WriteFacts
<1>3. CallsGo /\ calls \ {c} \subseteq calls'
  BY <1>1, AnsweredGo
<1>4. ListsInv'
  <2>1. sel.cluster = None \/ namespaces = sel.cluster \/ "namespaces" \in late
         \/ SpacesOf(sel) \subseteq calls
    BY DEF Inv, ListsInv
  <2>2. \A x \in SpacesOf(sel) : x.ask = "namespaces"
    BY DEF SpacesOf
  <2>3. SpacesOf(sel)' = SpacesOf(sel) /\ Query(sel)' = Query(sel)
    BY <1>1 DEF SpacesOf, Query
  <2>4. list' = Query(sel)' \/ "list" \in late'
    BY <1>1, <2>3
  <2>5. sel'.cluster = None \/ namespaces' = sel'.cluster \/ "namespaces" \in late'
         \/ SpacesOf(sel)' \subseteq calls'
    BY <1>1, <1>3, <2>1, <2>2, <2>3
  <2> QED
    BY <2>4, <2>5 DEF ListsInv
<1>5. late' \subseteq Panels \cup {"list", "namespaces"} /\ late \cap Panels \subseteq late'
  BY <1>1, TypeFacts, PanelNames
<1>6. \A x \in calls : x.ask \in Panels => x \in calls'
  BY <1>1, <1>3, PanelNames
<1>7. spent' \in Spendings
  BY Spent
<1>8. dialog' # None => sel.cluster # None /\ dialog' \in Writes /\ GoodWrite(dialog')
  BY <1>1, TypeFacts DEF Inv, Rooted, WritesInv
<1>9. CASE UNCHANGED <<detail, crossed>>
  <2>1. DetailInv' /\ PanelsInv' /\ FormInv' /\ EditorInv'
    BY <1>1, <1>5, <1>6, <1>9, DrawerKept, EditorKept
  <2>2. Shapes'
    BY <1>1, <1>2, <1>5, <1>7, <1>9, TypeFacts DEF Shapes
  <2>3. detail'.object # None => sel.cluster # None
    BY <1>9 DEF Inv, Rooted
  <2> QED
    BY <1>1, <1>3, <1>4, <1>8, <2>1, <2>2, <2>3, InvNext
<1>10. CASE detail' = NoDetail /\ crossed' = crossed \ {"detail"}
  <2>1. DetailInv' /\ PanelsInv' /\ FormInv' /\ EditorInv' /\ detail'.object = None
    BY <1>1, <1>10, DrawerClosed, EditorKept, NoDetailFacts
  <2>2. Shapes'
    BY <1>1, <1>2, <1>5, <1>7, <1>10, TypeFacts, NoDetailFacts DEF Shapes
  <2> QED
    BY <1>1, <1>3, <1>4, <1>8, <2>1, <2>2, InvNext
<1> QED
  BY <1>9, <1>10 DEF GotList

(* The drawer takes an object: its own where it was opened for it.         *)
LEMMA ShowObjectKeeps ==
  ASSUME Inv, NEW c \in calls, c.ask \in {"detail", "reread"}, NEW o \in Objects,
         NEW loading \in BOOLEAN, ShowObject(o, loading, calls \ {c}), UNCHANGED spent
  PROVE  Inv'
<1> DEFINE d == [detail EXCEPT !.object = o, !.loading = loading]
<1>1. /\ detail' = Rendered(d)
      /\ Send((calls \ {c}) \cup PanelsOf(detail', sel))
      /\ late' = late \cup {p \in Panels : detail'.panels[p] \notin {None, o}}
      /\ UNCHANGED <<sel, namespaces, list, editor, scaling, dialog>>
  BY DEF ShowObject
<1>2. crossed' = IF /\ detail.open /\ o = Here(o) /\ detail.object \in {None, o}
                    /\ scaling = None \/ "detail" \notin crossed
                 THEN crossed \ {"detail"} ELSE crossed \cup {"detail"}
  BY DEF ShowObject
<1>3. sel.cluster # None /\ sel \in Selections
  BY CallsAreGood, TypeFacts
<1>4. d \in Details /\ d.object = o /\ d.open = detail.open
  BY TypeFacts DEF Details
<1> HIDE DEF d
<1>5. detail' \in Details /\ detail'.object = o /\ detail'.open = detail.open
  BY <1>1, <1>4, RenderedFacts
<1>6. \A x \in PanelsOf(detail', sel) : GoodCall(x)
  BY <1>3, <1>5, PanelsOfFacts DEF GoodCall
<1>7. CallsGo /\ calls \ {c} \subseteq calls' /\ PanelsOf(detail', sel) \subseteq calls'
  BY <1>1, <1>6, ReceivedGo
<1>8. late \subseteq late' /\ late' \subseteq Panels \cup {"list", "namespaces"}
  BY <1>1, TypeFacts
<1>9. ListsInv'
  BY <1>1, <1>7, <1>8, ListsKept
<1>10. crossed' \subseteq {"detail", "editor"} /\ crossed \ {"detail"} \subseteq crossed'
  BY <1>2, TypeFacts
<1>11. EditorInv'
  BY <1>1, <1>10, EditorKept
<1>12. Own' => /\ detail.open /\ o = Here(o) /\ detail.object \in {None, o}
               /\ scaling = None \/ "detail" \notin crossed
  BY <1>2 DEF Own
<1>13. Here(detail.object)' = Here(o)
  BY <1>1, <1>5 DEF Here
<1>14. DetailInv'
  BY <1>5, <1>12, <1>13 DEF DetailInv
<1>15. PanelsInv'
  <2> SUFFICES ASSUME Own', NEW p \in Panels \ late'
               PROVE  \/ detail'.panels[p] = detail'.object
                      \/ /\ detail'.panels[p] = None
                         /\ HasPanel(detail, p)' => [ask |-> p, of |-> detail'.object] \in calls'
    BY DEF PanelsInv
  <2>1. detail'.panels[p] \in {None, o}
    BY <1>1
  <2>2. ASSUME HasPanel(detail, p)'
        PROVE  [ask |-> p, of |-> o] \in calls'
    <3>1. HasPanel(detail', p)
      BY <1>1, <2>2 DEF HasPanel
    <3>2. o = [detail'.object EXCEPT !.cluster = sel.cluster, !.kind = sel.kind]
      BY <1>5, <1>12 DEF Here
    <3>3. [ask |-> p, of |-> o] \in PanelsOf(detail', sel)
      BY <1>3, <3>1, <3>2 DEF PanelsOf
    <3> QED
      BY <1>7, <3>3
  <2> QED
    BY <1>5, <2>1, <2>2
<1>16. FormInv'
  <2> SUFFICES ASSUME scaling # None
               PROVE  /\ detail'.open => detail'.object # None
                      /\ Own' => scaling.about \subseteq {detail'.object} \/ scaling.excused
    BY <1>1 DEF FormInv
  <2>1. o # None
    BY NoneFacts
  <2>2. ASSUME Own'
        PROVE  scaling.about \subseteq {o} \/ scaling.excused
    <3>1. detail.object # None /\ "detail" \notin crossed /\ detail.object = o
      BY <1>12, <2>2 DEF Inv, FormInv
    <3> QED
      BY <3>1 DEF Inv, FormInv, Own
  <2> QED
    BY <1>5, <2>1, <2>2
<1>17. Shapes'
  BY <1>1, <1>5, <1>8, <1>10, TypeFacts, Spent DEF Shapes
<1>18. dialog' # None => sel.cluster # None /\ dialog' \in Writes /\ GoodWrite(dialog')
  BY <1>1, TypeFacts DEF Inv, Rooted, WritesInv
<1> QED
  BY <1>1, <1>3, <1>7, <1>9, <1>11, <1>14, <1>15, <1>16, <1>17, <1>18, InvNext

LEMMA GotDetailKeeps ==
  ASSUME Inv, NEW c \in calls, GotDetail(c) \/ GotReread(c), UNCHANGED spent
  PROVE  Inv'
<1>1. c.ask \in {"detail", "reread"}
  BY DEF GotDetail, GotReread
<1>2. c.of \in Objects
  BY <1>1, TypeFacts, CallFacts, WriteFacts
<1>3. \E loading \in BOOLEAN : ShowObject(c.of, loading, calls \ {c})
  <2>1. detail.loading \in BOOLEAN
    BY TypeFacts DEF Details
  <2> QED
    BY <2>1 DEF GotDetail, GotReread
<1> QED
  BY <1>1, <1>2, <1>3, ShowObjectKeeps

LEMMA GotEditKeeps ==
  ASSUME Inv, NEW c \in calls, GotEdit(c), UNCHANGED spent
  PROVE  Inv'
<1>1. /\ c.ask = "edit" /\ editor' = [open |-> TRUE, of |-> c.of]
      /\ crossed' = IF c.of = Here(c.of) THEN crossed \ {"editor"} ELSE crossed \cup {"editor"}
      /\ Send(calls \ {c})
      /\ UNCHANGED <<sel, namespaces, list, detail, scaling, dialog, late>>
  BY DEF GotEdit
<1>2. c.of \in Objects
  BY <1>1, TypeFacts, CallFacts, WriteFacts
<1>3. CallsGo /\ calls \ {c} \subseteq calls'
  BY <1>1, AnsweredGo
<1>4. editor' \in Editors /\ EditorInv' /\ ("detail" \in crossed' <=> "detail" \in crossed)
  BY <1>1, <1>2, EditorOpens
<1>5. crossed' \subseteq {"detail", "editor"}
  BY <1>1, TypeFacts
<1>6. \A x \in calls : x.ask \in Panels \cup {"list", "namespaces"} => x \in calls'
  BY <1>1, <1>3, PanelNames
<1> QED
  BY <1>1, <1>3, <1>4, <1>5, <1>6, Spent, EditorMoves

(* One panel takes what it was asked for, or is emptied by a failure.      *)
LEMMA PanelKeeps ==
  ASSUME Inv, NEW c \in calls, c.ask \in Panels, NEW o \in Objects \cup {None},
         detail' = [detail EXCEPT !.panels[c.ask] = o],
         late' = IF o # None /\ o = detail.object THEN late \ {c.ask} ELSE late \cup {c.ask},
         Send(calls \ {c}), UNCHANGED spent,
         UNCHANGED <<sel, namespaces, list, editor, scaling, dialog, crossed>>
  PROVE  Inv'
<1>1. CallsGo /\ calls \ {c} \subseteq calls'
  BY AnsweredGo
<1>2. detail \in Details
  BY TypeFacts
<1>3. /\ detail' \in Details /\ detail'.open = detail.open /\ detail'.loading = detail.loading
      /\ detail'.object = detail.object /\ detail'.panels[c.ask] = o
      /\ \A p \in Panels \ {c.ask} : detail'.panels[p] = detail.panels[p]
  BY <1>2 DEF Details
<1>4. late' \subseteq Panels \cup {"list", "namespaces"} /\ late \ {c.ask} \subseteq late'
  BY TypeFacts
<1>5. ListsInv'
  <2>1. \A x \in calls : x.ask \in {"list", "namespaces"} => x \in calls'
    BY <1>1, PanelNames
  <2>2. late \cap {"list", "namespaces"} \subseteq late'
    BY <1>4, PanelNames
  <2> QED
    BY <2>1, <2>2, ListsKept
<1>6. Own' <=> Own
  BY <1>3 DEF Own
<1>7. Here(detail.object)' = Here(detail.object)
  BY <1>3 DEF Here
<1>8. DetailInv'
  BY <1>3, <1>6, <1>7 DEF Inv, DetailInv
<1>9. FormInv'
  BY <1>3, <1>6 DEF Inv, FormInv
<1>10. EditorInv'
  BY EditorKept
<1>11. PanelsInv'
  <2> SUFFICES ASSUME Own, ~ detail.loading, NEW p \in Panels \ late'
               PROVE  \/ detail'.panels[p] = detail.object
                      \/ /\ detail'.panels[p] = None
                         /\ HasPanel(detail, p)' => [ask |-> p, of |-> detail.object] \in calls'
    BY <1>3, <1>6 DEF PanelsInv
  <2>1. CASE p = c.ask
    BY <1>3, <2>1
  <2>2. CASE p # c.ask
    <3>1. p \in Panels \ late
      BY <1>4, <2>2
    <3>2. \/ detail.panels[p] = detail.object
          \/ /\ detail.panels[p] = None
             /\ HasPanel(detail, p) => [ask |-> p, of |-> detail.object] \in calls
      BY <3>1 DEF Inv, PanelsInv
    <3>3. HasPanel(detail, p)' <=> HasPanel(detail, p)
      BY <1>3 DEF HasPanel
    <3>4. [ask |-> p, of |-> detail.object] \in calls => [ask |-> p,
            of |-> detail.object] \in calls'
      BY <1>1, <2>2
    <3> QED
      BY <1>3, <2>2, <3>2, <3>3, <3>4
  <2> QED
    BY <2>1, <2>2
<1>12. Shapes'
  BY <1>3, <1>4, TypeFacts, Spent DEF Shapes
<1>13. /\ dialog' # None => sel.cluster # None /\ dialog' \in Writes /\ GoodWrite(dialog')
       /\ detail'.object # None => sel.cluster # None
  BY <1>3, TypeFacts DEF Inv, Rooted, WritesInv
<1> QED
  BY <1>1, <1>5, <1>8, <1>9, <1>10, <1>11, <1>12, <1>13, InvNext

LEMMA GotPanelKeeps ==
  ASSUME Inv, NEW c \in calls, GotPanel(c), UNCHANGED spent
  PROVE  Inv'
<1>1. /\ c.ask \in Panels /\ detail' = [detail EXCEPT !.panels[c.ask] = c.of]
      /\ late' = IF c.of = detail.object THEN late \ {c.ask} ELSE late \cup {c.ask}
      /\ Send(calls \ {c})
      /\ UNCHANGED <<sel, namespaces, list, editor, scaling, dialog, crossed>>
  BY DEF GotPanel, Mark
<1>2. c.of \in Objects /\ c.of # None
  BY <1>1, TypeFacts, CallFacts, WriteFacts, NoneFacts
<1> QED
  BY <1>1, <1>2, PanelKeeps

(* A write is done.                                                        *)
LEMMA WrittenKeeps ==
  ASSUME Inv, NEW c \in calls, Written(c), UNCHANGED spent
  PROVE  Inv'
<1>1. /\ editor'  = IF c.ask = "save" THEN NoEditor ELSE editor
      /\ crossed' = IF c.ask = "save" THEN crossed \ {"editor"} ELSE crossed
      /\ scaling' \in {scaling, None}
      /\ UNCHANGED <<sel, namespaces, list, detail, dialog, late>>
  BY DEF Written
<1>2. c \in Writes
  <2>1. Writing(c)
    BY DEF Written, Writing
  <2> QED
    BY <2>1, TypeFacts, CallFacts
<1>3. c.to \in Objects /\ c.scope \in Scopes /\ c.ask \notin Panels \cup {"list", "namespaces"}
  BY <1>2, WriteFacts
<1>4. \E new : Send((calls \ {c}) \cup new) /\ new \subseteq Calls
  <2>1. \A asks \in SUBSET ({"reread"} \cup Panels) : Reads(c.to, asks) \subseteq Calls
    <3>1. \A ask \in {"reread"} \cup Panels : [ask |-> ask, of |-> c.to] \in Calls
      BY <1>3, NewCalls
    <3> QED
      BY <3>1 DEF Reads
  <2>2. ListOf(c.scope) \subseteq Calls
    <3>1. c.scope \in Selections
      BY <1>3 DEF Scopes, Selections
    <3> QED
      BY <3>1, QueryFacts
  <2>3. CASE c.ask \in {"save", "delete"}
    <3>1. Send((calls \ {c}) \cup ListOf(c.scope))
      BY <2>3 DEF Written
    <3> QED
      BY <2>2, <3>1
  <2>4. CASE c.ask = "rollback"
    <3>1. Send((calls \ {c}) \cup Reads(c.to, {"reread"} \cup (Panels \cap {"history", "pods"})))
      BY <2>4 DEF Written
    <3>2. Reads(c.to, {"reread"} \cup (Panels \cap {"history", "pods"})) \subseteq Calls
      BY <2>1
    <3> QED
      BY <3>1, <3>2
  <2>5. CASE c.ask \notin {"save", "delete", "rollback"}
    <3>1. Send((calls \ {c}) \cup Reads(c.to, Panels \cap {"autoscaling"}))
      BY <2>5 DEF Written
    <3>2. Reads(c.to, Panels \cap {"autoscaling"}) \subseteq Calls
      BY <2>1
    <3> QED
      BY <3>1, <3>2
  <2> QED
    BY <2>3, <2>4, <2>5
<1>5. CallsGo /\ calls \ {c} \subseteq calls'
  BY <1>4, ReceivedGo DEF GoodCall
<1>6. \A x \in calls : x.ask \in Panels \cup {"list", "namespaces"} => x \in calls'
  BY <1>3, <1>5
<1>7. editor' \in Editors /\ EditorInv'
  <2>1. CASE c.ask = "save"
    BY <1>1, <2>1, NoEditorFacts
  <2>2. CASE c.ask # "save"
    BY <1>1, <2>2, EditorKept, TypeFacts
  <2> QED
    BY <2>1, <2>2
<1>8. crossed' \subseteq {"detail", "editor"} /\ ("detail" \in crossed' <=> "detail" \in crossed)
  BY <1>1, TypeFacts
<1> QED
  BY <1>1, <1>5, <1>6, <1>7, <1>8, Spent, EditorMoves

(* A failure empties what it was for, or counts what stays as late.        *)
LEMMA FailsKeeps ==
  ASSUME Inv, NEW c \in calls, Fails(c), UNCHANGED spent
  PROVE  Inv'
<1>1. Send(calls \ {c}) /\ UNCHANGED <<sel, namespaces, list, editor, scaling, dialog>>
  BY DEF Fails
<1>2. CallsGo /\ calls \ {c} \subseteq calls'
  BY <1>1, AnsweredGo
<1>3. spent' \in Spendings
  BY Spent
<1>4. /\ dialog' # None => sel.cluster # None /\ dialog' \in Writes /\ GoodWrite(dialog')
      /\ detail.object # None => sel.cluster # None
  BY <1>1, TypeFacts DEF Inv, Rooted, WritesInv
<1>5. CASE c.ask = "detail"
  <2>1. detail' = NoDetail /\ crossed' = crossed \ {"detail"} /\ late' = late
    BY <1>5, PanelNames DEF Fails
  <2>2. DetailInv' /\ PanelsInv' /\ FormInv' /\ EditorInv' /\ detail'.object = None
    BY <1>1, <2>1, DrawerClosed, EditorKept, NoDetailFacts
  <2>3. ListsInv'
    BY <1>1, <1>2, <1>5, <2>1, ListsKept
  <2>4. Shapes'
    BY <1>1, <1>3, <2>1, TypeFacts, NoDetailFacts DEF Shapes
  <2> QED
    BY <1>1, <1>2, <1>4, <2>2, <2>3, <2>4, InvNext
<1>6. CASE c.ask \in Panels
  <2>1. /\ detail' = [detail EXCEPT !.panels[c.ask] = None] /\ late' = late \cup {c.ask}
        /\ UNCHANGED crossed
    BY <1>6, PanelNames DEF Fails
  <2> QED
    BY <1>1, <1>6, <2>1, PanelKeeps
<1>7. CASE c.ask \in {"list", "namespaces"}
  <2>1. late' = late \cup {c.ask} /\ UNCHANGED <<detail, crossed>>
    BY <1>7, PanelNames DEF Fails
  <2>2. \A x \in calls : x.ask \in Panels => x \in calls'
    BY <1>2, <1>7, PanelNames
  <2>3. DetailInv' /\ PanelsInv' /\ FormInv' /\ EditorInv'
    BY <1>1, <2>1, <2>2, DrawerKept, EditorKept
  <2>4. ListsInv'
    <3>1. /\ sel.cluster = None \/ list = Query(sel) \/ "list" \in late
               \/ ListOf(sel) \subseteq calls
          /\ sel.cluster = None \/ namespaces = sel.cluster \/ "namespaces" \in late
             \/ SpacesOf(sel) \subseteq calls
      BY DEF Inv, ListsInv
    <3>2. (\A x \in ListOf(sel) : x.ask = "list") /\ (\A x \in SpacesOf(sel) : x.ask = "namespaces")
      BY DEF ListOf, SpacesOf
    <3>3. ListOf(sel)' = ListOf(sel) /\ SpacesOf(sel)' = SpacesOf(sel) /\ Query(sel)' = Query(sel)
      BY <1>1 DEF ListOf, SpacesOf, Query
    <3>4. sel.cluster = None \/ list = Query(sel) \/ "list" \in late'
            \/ ListOf(sel) \subseteq calls'
      BY <1>2, <1>7, <2>1, <3>1, <3>2
    <3>5. sel.cluster = None \/ namespaces = sel.cluster \/ "namespaces" \in late'
           \/ SpacesOf(sel) \subseteq calls'
      BY <1>2, <1>7, <2>1, <3>1, <3>2
    <3> QED
      BY <1>1, <3>3, <3>4, <3>5 DEF ListsInv
  <2>5. Shapes'
    BY <1>1, <1>3, <1>7, <2>1, TypeFacts DEF Shapes
  <2> QED
    BY <1>1, <1>2, <1>4, <2>1, <2>3, <2>4, <2>5, InvNext
<1>8. CASE c.ask \notin {"detail", "list", "namespaces"} \cup Panels
  <2>1. UNCHANGED <<detail, late, crossed>>
    BY <1>8 DEF Fails
  <2>2. \A x \in calls : x.ask \in Panels \cup {"list", "namespaces"} => x \in calls'
    BY <1>2, <1>8
  <2>3. editor' \in Editors /\ EditorInv' /\ crossed' \subseteq {"detail", "editor"}
    BY <1>1, <2>1, EditorKept, TypeFacts
  <2> QED
    BY <1>1, <1>2, <1>3, <2>1, <2>2, <2>3, EditorMoves
<1> QED
  BY <1>5, <1>6, <1>7, <1>8

-----------------------------------------------------------------------------
LEMMA InitInv ==
  ASSUME Init
  PROVE  Inv
<1>1. sel.cluster = None /\ sel.kind \in Kinds /\ sel.kind \in Namespaced /\ sel.ns = ""
  BY DEF Init
<1>2. /\ namespaces = None /\ list = None /\ detail = NoDetail /\ editor = NoEditor
      /\ scaling = None /\ dialog = None /\ calls = {} /\ late = {} /\ crossed = {}
      /\ spent = [moves |-> 0, opened |-> 0]
  BY DEF Init
<1>3. sel \in Selections
  BY DEF Init, Selections
<1>4. Cardinality(calls) = 0
  BY <1>2, FS_EmptySet
<1>5. spent \in Spendings
  BY <1>2, WorkloadBounds DEF Spendings
<1>6. editor \in Editors /\ editor.open = FALSE
  BY <1>2 DEF NoEditor, Editors
<1>7. detail \in Details /\ detail.object = None /\ detail.open = FALSE
  BY <1>2, NoDetailFacts
<1>8. TypeOK
  <2>1. /\ sel \in [cluster : Clusters \cup {None}, kind : Kinds, ns : AllNamespaces \cup {""}]
        /\ sel.kind \notin Namespaced => sel.ns = ""
    BY <1>1, <1>3 DEF Selections
  <2>2. Cardinality(calls) <= MaxCalls
    BY <1>4, WorkloadBounds
  <2>3. \A w \in {dialog} \ {None} : w \in Writes
    BY <1>2
  <2>4. \A c \in calls : c \in Calls \/ c \in Writes
    BY <1>2
  <2> QED
    BY <1>2, <1>5, <1>6, <1>7, <2>1, <2>2, <2>3, <2>4 DEF TypeOK, Spendings, Editors, Details
<1>9. ~ Own
  BY <1>7 DEF Own
<1>10. Rooted /\ WritesInv /\ ListsInv /\ DetailInv /\ EditorInv /\ PanelsInv /\ FormInv
  BY <1>1, <1>2, <1>6, <1>7, <1>9
     DEF Rooted, WritesInv, ListsInv, DetailInv, EditorInv, PanelsInv, FormInv
<1> QED
  BY <1>8, <1>10 DEF Inv

LEMMA StutterKeeps ==
  ASSUME Inv, UNCHANGED vars
  PROVE  Inv'
<1>1. CallsGo /\ calls \subseteq calls'
  BY QuietGo DEF vars
<1> QED
  BY <1>1, Spent, AsideKeeps DEF vars

LEMMA NextInv ==
  ASSUME Inv, [Next]_vars
  PROVE  Inv'
<1>1. ASSUME NEW c \in calls, UNCHANGED spent,
             GotNamespaces(c) \/ GotList(c) \/ GotDetail(c) \/ GotReread(c)
             \/ GotEdit(c) \/ GotPanel(c) \/ Written(c) \/ Fails(c)
      PROVE  Inv'
  BY <1>1, GotNamespacesKeeps, GotListKeeps, GotDetailKeeps, GotEditKeeps, GotPanelKeeps,
     WrittenKeeps, FailsKeeps
<1>2. CASE SelectCluster \/ SelectKind \/ SelectNamespace \/ ClusterTurns
  BY <1>2, SelectClusterKeeps, SelectKindKeeps, SelectNamespaceKeeps
<1>3. CASE RefreshList \/ OpenDetail \/ CloseDetail \/ EditRow \/ EditShown \/ OpenCopy
           \/ CopyShown \/ CloseEditor
  BY <1>3, RefreshListKeeps, OpenDetailKeeps, CloseDetailKeeps, EditRowKeeps, EditShownKeeps,
     OpenCopyKeeps, CopyShownKeeps, CloseEditorKeeps
<1>4. CASE Submit \/ RemoveRow \/ RemoveShown \/ AskFirst \/ Cancel \/ Confirm
  BY <1>4, SubmitKeeps, RemoveRowKeeps, RemoveShownKeeps, AskFirstKeeps, CancelKeeps, ConfirmKeeps
<1>5. CASE OpenScaling \/ SubmitScaling \/ CloseScaling
  BY <1>5, OpenScalingKeeps, SubmitScalingKeeps, CloseScalingKeeps
<1>6. CASE UNCHANGED vars
  BY <1>6, StutterKeeps
<1> QED
  BY <1>1, <1>2, <1>3, <1>4, <1>5, <1>6 DEF Next

-----------------------------------------------------------------------------
(* The pages of registries and Grafana sources.                            *)
LEMMA SourceBounds == {MaxSources, MaxEdits} \subseteq Nat
BY SourcesWellFormed DEF Src!WellFormed

LEMMA SourceNone == None \notin Src!Ids \cup Src!Entries \cup Src!Modals
BY SourcesWellFormed DEF Src!WellFormed

(* A modal goes to the source selected, and does what it was opened for.   *)
GoodModal(m)   == m.what # "bulk" => m.excused \/ (m.from = source /\ m.op = m.meant)
GoodModals(ms) == ms \in SUBSET Src!Modals /\ \A m \in ms : GoodModal(m)

(* EditsGoHome, of one call.                                               *)
GoodAsk(c) ==
  /\ c.ask = "write" => c.excused \/ (c.to = c.from /\ c.op = c.meant)
  /\ c.ask = "bulk" => c.to = c.from

GoodAsks(cs) == cs \in SUBSET Src!Calls /\ \A c \in cs : GoodAsk(c)

SourceInv == Src!TypeOK /\ Src!CatalogIsOwn /\ GoodModals(modals) /\ GoodAsks(asked)

(* Reading, as a matter of two states.                                     *)
Asked(id, cs) == \E c \in cs : c.ask = "catalog" /\ c.id = id

(* What a render leaves behind.                                            *)
RenderedPage(ks, s, c, cs) ==
  /\ page' \in BOOLEAN /\ failed' \in BOOLEAN /\ known' = ks /\ cache' = c
  /\ source' = IF s \in ks THEN s ELSE Src!First(ks)
  /\ shown' = Src!Snapshot(source', c)
  /\ asked' = cs \/ (source' # None /\ asked' = cs \cup {Src!Catalog(source')})
  /\ page' /\ source' # None /\ Src!Cached(source', c) = {}
     => Asked(source', asked') \/ (failed' /\ ~ Src!Grafana)

-----------------------------------------------------------------------------
(* pickCurrentOrFirstId: where there is a source there is a first one.     *)
LEMMA FirstFacts ==
  ASSUME NEW ids \in SUBSET Src!Ids
  PROVE  Src!First(ids) \in ids \cup {None}
<1>1. CASE ids = {}
  BY <1>1 DEF Src!First
<1>2. CASE ids # {}
  <2>1. ids \subseteq Nat
    BY SourceBounds DEF Src!Ids
  <2>2. PICK i \in ids : \A j \in ids : ~ (<<j, i>> \in OpToRel(<, Nat))
    <3>1. IsWellFoundedOn(OpToRel(<, Nat), Nat)
      BY NatLessThanWellFounded
    <3> QED
      BY <1>2, <2>1, <3>1, WFMin
  <2>3. \A j \in ids : i <= j
    <3> SUFFICES ASSUME NEW j \in ids
                 PROVE  i <= j
      OBVIOUS
    <3>1. ~ (j < i)
      BY <2>1, <2>2 DEF OpToRel
    <3> QED
      BY <2>1, <3>1
  <2> QED
    BY <1>2, <2>3 DEF Src!First
<1> QED
  BY <1>1, <1>2

(* The cache has nothing of no source, and what it has of one is an entry. *)
LEMMA SnapshotFacts ==
  ASSUME NEW c \in SUBSET Src!Entries, NEW id
  PROVE  /\ Src!Snapshot(id, c) \in Src!Entries \cup {None}
         /\ Src!Snapshot(id, c) = None <=> Src!Cached(id, c) = {}
         /\ Src!Snapshot(id, c) # None => Src!Snapshot(id, c) \in c /\ Src!Snapshot(id, c).id = id
<1>1. Src!Cached(id, c) \subseteq Src!Entries /\ None \notin Src!Entries
  BY SourceNone DEF Src!Cached
<1>2. CASE Src!Cached(id, c) = {}
  BY <1>2 DEF Src!Snapshot
<1>3. CASE Src!Cached(id, c) # {}
  <2>1. Src!Snapshot(id, c) \in Src!Cached(id, c)
    BY <1>3 DEF Src!Snapshot
  <2> QED
    BY <1>1, <1>3, <2>1 DEF Src!Cached
<1> QED
  BY <1>2, <1>3

(* The reading of a catalog, that a submission may wait for.               *)
LEMMA CatalogFacts ==
  ASSUME NEW id \in Src!Ids, NEW what \in Src!Pages \cup {"item", None}, NEW d,
         d = [ask |-> "catalog", id |-> id, close |-> what]
  PROVE  d \in Src!Calls /\ d.ask = "catalog" /\ d.id = id /\ GoodAsk(d)
<1>1. d \in Src!Calls
  BY DEF Src!Calls
<1>2. d.ask = "catalog" /\ d.id = id
  OBVIOUS
<1> QED
  BY <1>1, <1>2 DEF GoodAsk

(* ... and one that nothing waits for,                                    *)
LEMMA PlainFacts ==
  ASSUME NEW id \in Src!Ids
  PROVE  /\ Src!Catalog(id) \in Src!Calls /\ Src!Catalog(id).ask = "catalog"
         /\ Src!Catalog(id).id = id
         /\ GoodAsk(Src!Catalog(id))
BY CatalogFacts DEF Src!Catalog

(* ... or one that is to close the modal.                                  *)
LEMMA ClosingFacts ==
  ASSUME NEW id \in Src!Ids, NEW what \in Src!Pages \cup {"item", None}, NEW d,
         d = [Src!Catalog(id) EXCEPT !.close = what]
  PROVE  d \in Src!Calls /\ GoodAsk(d)
<1>1. d = [ask |-> "catalog", id |-> id, close |-> what]
  BY Zenon DEF Src!Catalog
<1> QED
  BY <1>1, CatalogFacts

(* What a new source leaves of the modals.                                 *)
LEMMA ResetFacts ==
  ASSUME NEW ms \in SUBSET Src!Modals
  PROVE  /\ Src!ResetModals(ms) \in SUBSET Src!Modals
         /\ \A n \in Src!ResetModals(ms) : n.excused
<1> SUFFICES ASSUME NEW n \in Src!ResetModals(ms)
             PROVE  n \in Src!Modals /\ n.excused
  OBVIOUS
<1>1. PICK m \in ms : n = [m EXCEPT !.op = "create", !.excused = TRUE]
  BY DEF Src!ResetModals, Src!Closed
<1>2. m \in Src!Modals /\ "create" \in Src!Ops /\ TRUE \in BOOLEAN
  BY DEF Src!Ops
<1>3. n \in Src!Modals
  BY <1>1, <1>2, Zenon DEF Src!Modals
<1> QED
  BY <1>1, <1>2, <1>3 DEF Src!Modals

(* Modals are opened and closed one by one.                                *)
LEMMA ModalsFacts ==
  ASSUME NEW ms, GoodModals(ms)
  PROVE  /\ \A what : GoodModals(Src!Closed(ms, what))
         /\ \A m \in Src!Modals : GoodModal(m) => GoodModals(Src!Opened(ms, m))
         /\ \A m : GoodModals(ms \ {m})
BY DEF GoodModals, Src!Closed, Src!Opened

-----------------------------------------------------------------------------
(* A render, and its effects on a modal and on what is picked, keep the    *)
(* invariant.                                                              *)
LEMMA RenderedKeeps ==
  ASSUME SourceInv, NEW ks \in SUBSET Src!Ids, NEW s \in Src!Ids \cup {None},
         NEW c \in SUBSET Src!Entries,
         NEW cs, GoodAsks(cs), RenderedPage(ks, s, c, cs),
         NEW ms, GoodModals(ms), NEW p \in SUBSET Items, Src!Keep(ms, p),
         UNCHANGED <<kind, sources, guarded, edits>>
  PROVE  SourceInv'
<1>1. known' = ks /\ cache' = c /\ source' \in ks \cup {None} /\ shown' = Src!Snapshot(source', c)
  BY FirstFacts DEF RenderedPage
<1>2. /\ shown' \in Src!Entries \cup {None}
      /\ shown' = None <=> Src!Cached(source', c) = {}
      /\ shown' # None => shown' \in c /\ shown'.id = source'
  BY <1>1, SnapshotFacts
<1>3. asked' \in SUBSET Src!Calls /\ \A d \in asked' : GoodAsk(d)
  BY <1>1, PlainFacts DEF RenderedPage, GoodAsks
<1>4. modals' \in SUBSET Src!Modals /\ GoodModals(modals)'
  <2>1. CASE source' = source
    BY <2>1 DEF Src!Keep, GoodModals, GoodModal
  <2>2. CASE source' # source
    BY <2>2, ResetFacts DEF Src!Keep, GoodModals, GoodModal
  <2> QED
    BY <2>1, <2>2
<1>5. /\ picked' \in SUBSET Items
      /\ shown' # None => picked' \subseteq shown'.items
      /\ shown' = None => picked' = {}
  BY DEF Src!Keep
<1>6. Src!TypeOK'
  BY <1>1, <1>2, <1>3, <1>4, <1>5 DEF SourceInv, Src!TypeOK, RenderedPage
<1>7. Src!CatalogIsOwn'
  <2>1. page' /\ source' # None /\ shown' = None
          => Asked(source', asked') \/ (failed' /\ ~ Src!Grafana')
    BY <1>1, <1>2 DEF RenderedPage, Src!Grafana
  <2>2. Src!Cached(source, cache)' = Src!Cached(source', c)
    BY <1>1 DEF Src!Cached
  <2>3. Asked(source', asked') => Src!Reading(source)'
    BY DEF Asked, Src!Reading
  <2> QED
    BY <1>1, <1>2, <1>5, <2>1, <2>2, <2>3 DEF Src!CatalogIsOwn
<1> QED
  BY <1>3, <1>4, <1>6, <1>7 DEF SourceInv, GoodAsks, GoodAsk

(* A step that leaves the page alone, and loses no reading.                *)
LEMMA PageKept ==
  ASSUME SourceInv, UNCHANGED <<kind, page, known, source, cache, shown, failed>>,
         sources' \in [live : SUBSET Src!Ids, made : Src!Ids, items : [Src!Ids -> SUBSET Items]],
         guarded' \in SUBSET Items, edits' \in 0..MaxEdits,
         picked' \in SUBSET Items,
           picked' # picked => shown # None /\ picked' \subseteq shown.items,
         GoodModals(modals'),
         GoodAsks(asked'), \A d \in asked : d.ask = "catalog" => d \in asked'
  PROVE  SourceInv'
<1>1. Src!TypeOK'
  BY DEF SourceInv, Src!TypeOK, GoodAsks, GoodModals
<1>2. Src!Reading(source) => Src!Reading(source)'
  BY DEF Src!Reading
<1>3. Src!CatalogIsOwn'
  BY <1>2 DEF SourceInv, Src!CatalogIsOwn, Src!Cached, Src!Grafana
<1>4. GoodModals(modals)'
  BY DEF GoodModals, GoodModal
<1> QED
  BY <1>1, <1>3, <1>4 DEF SourceInv, GoodAsks, GoodAsk

-----------------------------------------------------------------------------
(* What a render does, when one of the dependencies is anew,               *)
LEMMA RenderAnew ==
  ASSUME SourceInv, NEW on, on \in BOOLEAN, NEW ks, NEW s, NEW c, NEW cs,
         Src!Render(on, ks, s, c, TRUE, cs)
  PROVE  RenderedPage(ks, s, c, cs)
<1> DEFINE id   == IF s \in ks THEN s ELSE Src!First(ks)
           asks == on /\ id # None /\ Src!Cached(id, c) = {}
<1>1. /\ page' = on /\ known' = ks /\ source' = id /\ cache' = c /\ shown' = Src!Snapshot(id, c)
      /\ asked' = (IF asks THEN cs \cup {Src!Catalog(id)} ELSE cs)
      /\ failed' = (failed /\ id = source /\ ~ asks /\ Src!Cached(id, c) = {})
  BY DEF Src!Render, Src!Send
<1>2. Src!Catalog(id).ask = "catalog" /\ Src!Catalog(id).id = id
  BY DEF Src!Catalog
<1>3. asks => Asked(id, asked')
  BY <1>1, <1>2 DEF Asked
<1>4. page' \in BOOLEAN /\ failed' \in BOOLEAN
  BY <1>1 DEF SourceInv, Src!TypeOK
<1> HIDE DEF asks
<1>5. asked' = cs \/ (id # None /\ asked' = cs \cup {Src!Catalog(id)})
  BY <1>1 DEF asks
<1>6. page' /\ id # None /\ Src!Cached(id, c) = {} => Asked(id, asked')
  BY <1>1, <1>3 DEF asks
<1> QED
  BY <1>1, <1>4, <1>5, <1>6 DEF RenderedPage

(* ... and when none is: then a catalog is only missing if it was.         *)
LEMMA RenderAgain ==
  ASSUME SourceInv, NEW ks \in SUBSET Src!Ids, NEW cs, Src!Render(page, ks, source, cache, FALSE,
                                                                  cs),
         Src!Reading(source) => Asked(source, cs)
  PROVE  RenderedPage(ks, source, cache, cs)
<1> DEFINE id   == IF source \in ks THEN source ELSE Src!First(ks)
           asks == page /\ id # None /\ Src!Cached(id, cache) = {} /\ id # source
<1>1. /\ page' = page /\ known' = ks /\ source' = id /\ cache' = cache
      /\ shown' = Src!Snapshot(id, cache)
      /\ asked' = (IF asks THEN cs \cup {Src!Catalog(id)} ELSE cs)
      /\ failed' = (failed /\ id = source /\ ~ asks /\ Src!Cached(id, cache) = {})
  BY DEF Src!Render, Src!Send
<1>2. Src!Catalog(id).ask = "catalog" /\ Src!Catalog(id).id = id
  BY DEF Src!Catalog
<1>3. asks => Asked(id, asked')
  BY <1>1, <1>2 DEF Asked
<1>4. page' \in BOOLEAN /\ failed' \in BOOLEAN
  BY <1>1 DEF SourceInv, Src!TypeOK
<1>5. asked' = cs \/ (id # None /\ asked' = cs \cup {Src!Catalog(id)})
  BY <1>1
<1>6. page' /\ id # None /\ Src!Cached(id, cache) = {}
        => Asked(id, asked') \/ (failed' /\ ~ Src!Grafana)
  <2> SUFFICES ASSUME page, id # None, Src!Cached(id, cache) = {}, ~ asks
               PROVE  Asked(id, asked') \/ (failed' /\ ~ Src!Grafana)
    BY <1>1, <1>3
  <2>1. id = source
    OBVIOUS
  <2>2. shown = None
    BY <2>1 DEF SourceInv, Src!CatalogIsOwn, Src!Cached
  <2>3. Src!Reading(source) \/ (failed /\ ~ Src!Grafana)
    BY <2>1, <2>2 DEF SourceInv, Src!CatalogIsOwn
  <2>4. asked' = cs /\ (failed => failed')
    BY <1>1, <2>1
  <2> QED
    BY <2>1, <2>3, <2>4
<1> QED
  BY <1>1, <1>4, <1>5, <1>6 DEF RenderedPage

(* What a user does to the page.                                           *)
LEMMA BrowseKeeps ==
  ASSUME SourceInv, Src!Visit \/ Src!SelectSource \/ Src!RefreshCatalog
  PROVE  SourceInv'
<1>1. /\ known \in SUBSET Src!Ids /\ source \in Src!Ids \cup {None} /\ cache \in SUBSET Src!Entries
      /\ GoodAsks(asked) /\ GoodModals(modals)
      /\ picked \in SUBSET Items
  BY DEF SourceInv, Src!TypeOK
<1>2. Src!Keep(modals, picked) /\ UNCHANGED <<kind, sources, guarded, edits>>
  BY DEF Src!Visit, Src!SelectSource, Src!RefreshCatalog, Src!Elsewhere
<1>3. ASSUME NEW s \in known \cup {source}, NEW on, on \in BOOLEAN,
             Src!Render(on, known, s, cache, TRUE, asked)
      PROVE  SourceInv'
  <2>1. s \in Src!Ids \cup {None}
    BY <1>1
  <2>2. RenderedPage(known, s, cache, asked)
    BY <1>3, RenderAnew
  <2> QED
    BY <1>1, <1>2, <2>1, <2>2, RenderedKeeps
<1>4. CASE Src!Visit
  <2>1. PICK s \in known \cup {source} : Src!Render(~ page, known, s, cache, TRUE, asked)
    BY <1>4 DEF Src!Visit
  <2> SUFFICES ASSUME NEW on, on \in BOOLEAN, on <=> ~ page,
                      Src!Render(on, known, s, cache, TRUE, asked)
               PROVE  SourceInv'
    BY <2>1
  <2> QED
    BY <1>3
<1>5. CASE Src!SelectSource
  <2>1. PICK s \in known : Src!Render(page, known, s, cache, TRUE, asked)
    BY <1>5 DEF Src!SelectSource
  <2>2. page \in BOOLEAN
    BY DEF SourceInv, Src!TypeOK
  <2> QED
    BY <1>3, <2>1, <2>2
<1>6. CASE Src!RefreshCatalog
  <2>1. CASE Src!Grafana
    <3>1. Src!Render(page, known, source, Src!Without(cache, source), TRUE,
                     asked) /\ page \in BOOLEAN
      BY <1>6, <2>1 DEF Src!RefreshCatalog, SourceInv, Src!TypeOK
    <3>2. Src!Without(cache, source) \in SUBSET Src!Entries
      BY <1>1 DEF Src!Without
    <3>3. RenderedPage(known, source, Src!Without(cache, source), asked)
      BY <3>1, RenderAnew
    <3> QED
      BY <1>1, <1>2, <3>2, <3>3, RenderedKeeps
  <2>2. CASE ~ Src!Grafana
    <3> DEFINE cs == asked \cup {Src!Catalog(source)}
    <3>1. Src!Render(page, known, source, cache, FALSE, cs) /\ source \in Src!Ids
      BY <1>1, <1>6, <2>2 DEF Src!RefreshCatalog
    <3>2. GoodAsks(cs)
      BY <1>1, <3>1, PlainFacts DEF GoodAsks
    <3>3. Asked(source, cs)
      BY <3>1, PlainFacts DEF Asked
    <3>4. RenderedPage(known, source, cache, cs)
      BY <1>1, <3>1, <3>3, RenderAgain
    <3> QED
      BY <1>1, <1>2, <3>2, <3>4, RenderedKeeps
  <2> QED
    BY <2>1, <2>2
<1> QED
  BY <1>4, <1>5, <1>6

-----------------------------------------------------------------------------
(* What is picked, and the modals.                                         *)
LEMMA PickKeeps ==
  ASSUME SourceInv, Src!Pick \/ Src!CloseModal, Src!Elsewhere, UNCHANGED Src!pageVars
  PROVE  SourceInv'
<1>1. UNCHANGED <<kind, sources, guarded, page, known, source, cache, shown, failed, asked, edits>>
  BY DEF Src!Pick, Src!CloseModal, Src!Elsewhere, Src!pageVars
<1>2. /\ picked' \in SUBSET Items /\ GoodModals(modals')
      /\ picked' # picked => shown # None /\ picked' \subseteq shown.items
  <2>1. CASE Src!Pick
    <3>1. /\ shown # None /\ modals' = modals
          /\ \E u \in shown.items : picked' = IF u \in picked THEN picked \ {u} ELSE picked \cup {u}
      BY <2>1 DEF Src!Pick, Src!Browsing
    <3>2. shown \in Src!Entries /\ picked \subseteq shown.items
      BY <3>1 DEF SourceInv, Src!TypeOK, Src!CatalogIsOwn
    <3>3. picked' \subseteq shown.items
      BY <3>1, <3>2
    <3>4. shown.items \in SUBSET Items
      BY <3>2 DEF Src!Entries
    <3> QED
      BY <3>1, <3>3, <3>4 DEF SourceInv, Src!TypeOK
  <2>2. CASE Src!CloseModal
    BY <2>2, ModalsFacts DEF Src!CloseModal, SourceInv, Src!TypeOK
  <2> QED
    BY <2>1, <2>2
<1> QED
  BY <1>1, <1>2, PageKept DEF SourceInv, Src!TypeOK

(* A modal just opened is of the source selected.                          *)
OwnModal(what, op, uid, from) == Src!Modal(what, op, uid, from, FALSE)

LEMMA ModalFacts ==
  ASSUME NEW what \in Src!Pages, NEW op \in Src!Ops, NEW uid \in Items \cup {None},
         NEW from \in Src!Ids,
         NEW m, m = OwnModal(what, op, uid, from)
  PROVE  m \in Src!Modals /\ m.from = from /\ m.op = m.meant
BY DEF OwnModal, Src!Modal, Src!Modals

(* Those for a folder, a new dashboard or a bulk action.                   *)
LEMMA OpenKeeps ==
  ASSUME SourceInv, Src!OpenModal \/ Src!OpenBulk, Src!Elsewhere, UNCHANGED Src!pageVars
  PROVE  SourceInv'
<1>1. UNCHANGED <<kind, sources, guarded, page, known, source, cache, shown, failed, asked, picked>>
  BY DEF Src!OpenModal, Src!OpenBulk, Src!Elsewhere, Src!pageVars
<1>2. edits' \in 0..MaxEdits
  <2>1. Src!Spend
    BY DEF Src!OpenModal, Src!OpenBulk
  <2> QED
    BY <2>1, SourceBounds DEF Src!Spend, SourceInv, Src!TypeOK
<1>3. shown # None /\ shown \in Src!Entries /\ shown.id = source /\ shown.id \in Src!Ids
      /\ shown.items \in SUBSET Items
  BY DEF Src!OpenModal, Src!OpenBulk, Src!Browsing, SourceInv, Src!TypeOK, Src!CatalogIsOwn,
     Src!Entries
<1>4. ASSUME NEW what \in Src!Pages, NEW op \in Src!Ops, NEW uid \in Items \cup {None},
             modals' = {OwnModal(what, op, uid, shown.id)}
      PROVE  SourceInv'
  <2> SUFFICES ASSUME NEW m, m = OwnModal(what, op, uid, shown.id)
               PROVE  SourceInv'
    OBVIOUS
  <2>1. m \in Src!Modals /\ m.from = source /\ m.op = m.meant
    BY <1>3, ModalFacts
  <2>2. GoodModals(modals')
    BY <1>4, <2>1 DEF GoodModals, GoodModal
  <2> QED
    BY <1>1, <1>2, <2>2, PageKept DEF SourceInv, Src!TypeOK
<1>5. {"create", "edit", "move", "clone"} \subseteq Src!Ops
  BY DEF Src!Ops
<1> QED
  BY <1>3, <1>4, <1>5 DEF Src!OpenModal, Src!OpenBulk, Src!Pages, OwnModal

(* changeGrafanaDashboardSubmitMode.                                       *)
LEMMA SaveAsCopyKeeps ==
  ASSUME SourceInv, Src!SaveAsCopy, Src!Elsewhere, UNCHANGED Src!pageVars
  PROVE  SourceInv'
<1>1. UNCHANGED <<kind, sources, guarded, page, known, source, cache, shown, failed, asked, picked,
                  edits>>
  BY DEF Src!SaveAsCopy, Src!Elsewhere, Src!pageVars
<1>2. PICK m \in modals :
        /\ m.what = "dashboard" /\ m.op = "edit"
        /\ modals' = Src!Opened(modals, [m EXCEPT !.op = "clone", !.meant = "clone"])
  BY DEF Src!SaveAsCopy
<1> SUFFICES ASSUME NEW n, n = [m EXCEPT !.op = "clone", !.meant = "clone"]
             PROVE  SourceInv'
  OBVIOUS
<1>5. m \in Src!Modals /\ GoodModal(m) /\ GoodModals(modals)
  BY DEF SourceInv, GoodModals
<1>3. n \in Src!Modals /\ n.op = n.meant /\ n.from = m.from /\ (n.excused <=> m.excused)
  BY <1>5 DEF Src!Modals, Src!Ops
<1>4. GoodModal(n)
  <2>1. m.excused \/ (m.from = source)
    BY <1>2, <1>5 DEF GoodModal
  <2> QED
    BY <1>3, <2>1 DEF GoodModal
<1>6. GoodModals(modals')
  BY <1>2, <1>3, <1>4, <1>5, ModalsFacts
<1> QED
  BY <1>1, <1>6, PageKept DEF SourceInv, Src!TypeOK

-----------------------------------------------------------------------------
(* Requests.                                                               *)

(* A request more.                                                         *)
LEMMA SentKeeps ==
  ASSUME SourceInv, NEW c \in Src!Calls, GoodAsk(c), asked' = asked \cup {c},
         edits' \in 0..MaxEdits,
         UNCHANGED <<kind, sources, guarded, page, known, source, cache, shown, failed, picked,
           modals>>
  PROVE  SourceInv'
<1>1. GoodAsks(asked')
  BY DEF SourceInv, GoodAsks
<1> QED
  BY <1>1, PageKept DEF SourceInv, Src!TypeOK

(* A write is where its modal is, and does what that does.                 *)
LEMMA SourceWriteFacts ==
  ASSUME NEW m, m.what \in Src!Pages \cup {"item"}, m.meant \in Src!Ops,
         m.uid \in Items \cup {None},
         m.from \in Src!Ids, m.excused \in BOOLEAN, NEW op \in Src!Ops, NEW to \in Src!Ids,
         NEW w, w = Src!Write(m, op, to)
  PROVE  /\ w \in Src!Calls /\ w.ask = "write" /\ w.op = op /\ w.meant = m.meant
         /\ w.from = m.from /\ w.to = to /\ (w.excused <=> m.excused)
<1>1. w \in [ask : {"write"}, what : Src!Pages \cup {"item"}, op : Src!Ops, meant : Src!Ops,
             uid : Items \cup {None}, from : Src!Ids, to : Src!Ids, excused : BOOLEAN]
  BY DEF Src!Write
<1>2. w \in Src!Calls
  BY <1>1, Zenon DEF Src!Calls
<1>3. /\ w.ask = "write" /\ w.op = op /\ w.meant = m.meant /\ w.from = m.from /\ w.to = to
      /\ (w.excused <=> m.excused)
  BY DEF Src!Write
<1> QED
  BY <1>2, <1>3

(* Of a source, of a dashboard to edit,                                    *)
LEMMA ManageKeeps ==
  ASSUME SourceInv, Src!Manage
  PROVE  SourceInv'
<1>1. UNCHANGED <<kind, sources, guarded, page, known, source, cache, shown, failed, picked, modals>>
  BY DEF Src!Manage, Src!Elsewhere, Src!pageVars
<1>2. edits' \in 0..MaxEdits
  BY SourceBounds DEF Src!Manage, Src!Spend, SourceInv, Src!TypeOK
<1>3. PICK op \in {"save", "test", "remove"}, id \in known \cup {None} :
        asked' = asked \cup {[ask |-> "manage", op |-> op, id |-> id]}
  BY DEF Src!Manage, Src!Send
<1> SUFFICES ASSUME NEW c, c = [ask |-> "manage", op |-> op, id |-> id]
             PROVE  SourceInv'
  OBVIOUS
<1>4. id \in Src!Ids \cup {None}
  BY DEF SourceInv, Src!TypeOK
<1>5. c \in Src!Calls
  BY <1>4 DEF Src!Calls
<1>6. GoodAsk(c)
  BY DEF GoodAsk
<1> QED
  BY <1>1, <1>2, <1>3, <1>5, <1>6, SentKeeps

(* ... (the dashboard itself is read first),                              *)
LEMMA EditDashboardKeeps ==
  ASSUME SourceInv, Src!EditDashboard, Src!Elsewhere, UNCHANGED Src!pageVars
  PROVE  SourceInv'
<1>1. UNCHANGED <<kind, sources, guarded, page, known, source, cache, shown, failed, picked, modals>>
  BY DEF Src!EditDashboard, Src!Elsewhere, Src!pageVars
<1>2. shown \in Src!Entries /\ shown.id = source
  BY DEF Src!EditDashboard, Src!Browsing, SourceInv, Src!TypeOK, Src!CatalogIsOwn
<1>3. source \in Src!Ids /\ shown.items \in SUBSET Items
  BY <1>2 DEF Src!Entries
<1>4. PICK u \in shown.items : asked' = asked \cup {[ask |-> "meta", id |-> source, uid |-> u]}
  BY DEF Src!EditDashboard, Src!Send
<1> SUFFICES ASSUME NEW id \in Src!Ids, NEW c, c = [ask |-> "meta", id |-> id, uid |-> u],
                    id = source
             PROVE  SourceInv'
  BY <1>3
<1>5. c \in Src!Calls
  BY <1>3 DEF Src!Calls
<1>6. GoodAsk(c)
  BY DEF GoodAsk
<1>7. edits' \in 0..MaxEdits
  <2>1. Src!Spend
    BY DEF Src!EditDashboard
  <2> QED
    BY <2>1, SourceBounds DEF Src!Spend, SourceInv, Src!TypeOK
<1> QED
  BY <1>1, <1>4, <1>5, <1>6, <1>7, SentKeeps

(* ... of a modal, of what was picked,                                     *)
LEMMA SubmitModalKeeps ==
  ASSUME SourceInv, Src!SubmitModal, Src!Elsewhere, UNCHANGED Src!pageVars
  PROVE  SourceInv'
<1>1. UNCHANGED <<kind, sources, guarded, page, known, source, cache, shown, failed, picked, modals,
                  edits>>
  BY DEF Src!SubmitModal, Src!Elsewhere, Src!pageVars
<1>7. PICK m \in modals : m.what # "bulk" /\ asked' = asked \cup {Src!Write(m, m.op, source)}
  BY DEF Src!SubmitModal, Src!Closed, Src!Send
<1>2. /\ m \in Src!Modals /\ GoodModal(m) /\ source \in Src!Ids /\ edits' \in 0..MaxEdits
  BY <1>1 DEF Src!SubmitModal, SourceInv, GoodModals, Src!TypeOK
<1>3. /\ m.what \in Src!Pages \cup {"item"} /\ m.op \in Src!Ops /\ m.meant \in Src!Ops
      /\ m.uid \in Items \cup {None} /\ m.from \in Src!Ids /\ m.excused \in BOOLEAN
  BY <1>2 DEF Src!Modals
<1> SUFFICES ASSUME NEW c, c = Src!Write(m, m.op, source)
             PROVE  SourceInv'
  OBVIOUS
<1>4. asked' = asked \cup {c}
  BY <1>7
<1>5. /\ c \in Src!Calls /\ c.ask = "write" /\ c.op = m.op /\ c.meant = m.meant
      /\ c.from = m.from /\ c.to = source /\ (c.excused <=> m.excused)
  BY <1>2, <1>3, SourceWriteFacts
<1>6. GoodAsk(c)
  BY <1>2, <1>5, <1>7 DEF GoodAsk, GoodModal
<1> QED
  BY <1>1, <1>2, <1>4, <1>5, <1>6, SentKeeps

(* (the bulk action goes on, one dashboard after another),                 *)
LEMMA SubmitBulkKeeps ==
  ASSUME SourceInv, Src!SubmitBulk, Src!Elsewhere, UNCHANGED Src!pageVars
  PROVE  SourceInv'
<1>1. UNCHANGED <<kind, sources, guarded, page, known, source, cache, shown, failed, picked, modals,
                  edits>>
  BY DEF Src!SubmitBulk, Src!Elsewhere, Src!pageVars
<1>6. PICK m \in modals :
        asked' = asked \cup {[ask |-> "bulk", op |-> m.op, from |-> shown.id, to |-> source,
                              rest |-> picked, writing |-> FALSE]}
  BY DEF Src!SubmitBulk, Src!Send
<1>2. /\ shown \in Src!Entries /\ shown.id = source /\ m \in Src!Modals
           /\ picked \in SUBSET Items
      /\ edits' \in 0..MaxEdits
  BY <1>1 DEF Src!SubmitBulk, SourceInv, Src!TypeOK, Src!CatalogIsOwn
<1> SUFFICES ASSUME NEW c, NEW op \in Src!Ops, op = m.op, NEW id \in Src!Ids, id = source,
                    NEW rest \in SUBSET Items, rest = picked,
                    c = [ask |-> "bulk", op |-> op, from |-> id, to |-> id,
                         rest |-> rest, writing |-> FALSE]
             PROVE  SourceInv'
  BY <1>2 DEF Src!Entries, Src!Modals
<1>3. asked' = asked \cup {c}
  BY <1>2, <1>6
<1>4. c \in Src!Calls
  BY DEF Src!Calls
<1>5. GoodAsk(c)
  BY DEF GoodAsk
<1> QED
  BY <1>1, <1>2, <1>3, <1>4, <1>5, SentKeeps

(* ... of a folder or dashboard that is to go.                             *)
LEMMA RemoveItemKeeps ==
  ASSUME SourceInv, Src!RemoveItem, Src!Elsewhere, UNCHANGED Src!pageVars
  PROVE  SourceInv'
<1>1. UNCHANGED <<kind, sources, guarded, page, known, source, cache, shown, failed, picked, modals,
                  edits>>
  BY DEF Src!RemoveItem, Src!Elsewhere, Src!pageVars
<1>2. shown \in Src!Entries /\ shown.id = source /\ edits' \in 0..MaxEdits
  BY <1>1 DEF Src!RemoveItem, Src!Browsing, SourceInv, Src!TypeOK, Src!CatalogIsOwn
<1>3. source \in Src!Ids /\ shown.items \in SUBSET Items
  BY <1>2 DEF Src!Entries
<1>4. PICK u \in shown.items :
        asked' = asked \cup {Src!Write(OwnModal("item", "remove", u, shown.id), "remove", source)}
  BY DEF Src!RemoveItem, Src!Send, OwnModal
<1> SUFFICES ASSUME NEW m, m = OwnModal("item", "remove", u, shown.id),
                    NEW c, c = Src!Write(m, "remove", source)
             PROVE  SourceInv'
  OBVIOUS
<1>5. /\ m.what = "item" /\ m.meant = "remove" /\ m.uid = u /\ m.from = shown.id
      /\ m.excused \in BOOLEAN
  BY DEF OwnModal, Src!Modal
<1>6. /\ c \in Src!Calls /\ c.ask = "write" /\ c.op = "remove" /\ c.meant = "remove"
      /\ c.from = shown.id /\ c.to = source
  <2>1. m.what \in Src!Pages \cup {"item"} /\ "remove" \in Src!Ops /\ m.uid \in Items \cup {None}
    BY <1>3, <1>5 DEF Src!Ops
  <2> QED
    BY <1>2, <1>3, <1>5, <2>1, SourceWriteFacts
<1>7. GoodAsk(c)
  BY <1>2, <1>6 DEF GoodAsk
<1> QED
  BY <1>1, <1>2, <1>4, <1>6, <1>7, SentKeeps

-----------------------------------------------------------------------------
(* Answers.                                                                *)

(* What a call holds.                                                      *)
LEMMA AskedFacts ==
  ASSUME NEW c \in Src!Calls
  PROVE  /\ c.ask = "sources" => c.gone \in Src!Ids \cup {None}
         /\ c.ask = "catalog" => c \in [ask : {"catalog"}, id : Src!Ids,
                                        close : Src!Pages \cup {"item", None}]
         /\ c.ask = "manage" => c \in [ask : {"manage"}, op : {"save", "test", "remove"},
                                       id : Src!Ids \cup {None}]
         /\ c.ask = "meta" => c \in [ask : {"meta"}, id : Src!Ids, uid : Items]
         /\ c.ask = "write" => c \in [ask : {"write"}, what : Src!Pages \cup {"item"}, op : Src!Ops,
                                      meant : Src!Ops, uid : Items \cup {None}, from : Src!Ids,
                                        to : Src!Ids,
                                      excused : BOOLEAN]
         /\ c.ask = "bulk" => c \in [ask : {"bulk"}, op : Src!Ops, from : Src!Ids, to : Src!Ids,
                                     rest : SUBSET Items, writing : BOOLEAN]
BY DEF Src!Calls

(* A call that was not for a catalog is over,                              *)
LEMMA DroppedKeeps ==
  ASSUME SourceInv, NEW c \in asked, c.ask # "catalog", asked' = asked \ {c},
         edits' \in 0..MaxEdits, GoodModals(modals'),
         UNCHANGED <<kind, sources, guarded, page, known, source, cache, shown, failed, picked>>
  PROVE  SourceInv'
<1>1. GoodAsks(asked')
  BY DEF SourceInv, GoodAsks
<1>2. \A d \in asked : d.ask = "catalog" => d \in asked'
  OBVIOUS
<1> QED
  BY <1>1, <1>2, PageKept DEF SourceInv, Src!TypeOK

(* ... or another takes its place.                                         *)
LEMMA AnsweredKeeps ==
  ASSUME SourceInv, NEW c \in asked, c.ask # "catalog",
         NEW d \in Src!Calls, GoodAsk(d), asked' = (asked \ {c}) \cup {d},
         sources' \in [live : SUBSET Src!Ids, made : Src!Ids, items : [Src!Ids -> SUBSET Items]],
         UNCHANGED <<kind, guarded, page, known, source, cache, shown, failed, picked, modals,
           edits>>
  PROVE  SourceInv'
<1>1. GoodAsks(asked')
  BY DEF SourceInv, GoodAsks
<1>2. \A e \in asked : e.ask = "catalog" => e \in asked'
  OBVIOUS
<1> QED
  BY <1>1, <1>2, PageKept DEF SourceInv, Src!TypeOK

(* A dashboard is provisioned, or freed.                                   *)
LEMMA GuardKeeps ==
  ASSUME SourceInv, Src!Guard
  PROVE  SourceInv'
<1>1. UNCHANGED <<kind, sources, page, known, source, cache, shown, failed, picked, modals, asked>>
  BY DEF Src!Guard, Src!pageVars
<1>2. guarded' \in SUBSET Items
  BY DEF Src!Guard, SourceInv, Src!TypeOK
<1>3. edits' \in 0..MaxEdits
  <2>1. Src!Spend
    BY DEF Src!Guard
  <2> QED
    BY <2>1, SourceBounds DEF Src!Spend, SourceInv, Src!TypeOK
<1> QED
  BY <1>1, <1>2, <1>3, PageKept DEF SourceInv, Src!TypeOK

(* A source has been saved, tested or removed.                             *)
LEMMA ManagedKeeps ==
  ASSUME SourceInv, NEW c \in asked, Src!Managed(c)
  PROVE  SourceInv'
<1>1. UNCHANGED <<kind, guarded, page, known, source, cache, shown, failed, picked, modals, edits>>
  BY DEF Src!Managed, Src!pageVars
<1>2. /\ c.ask = "manage" /\ c \in Src!Calls
      /\ c \in [ask : {"manage"}, op : {"save", "test", "remove"}, id : Src!Ids \cup {None}]
  BY AskedFacts DEF Src!Managed, SourceInv, Src!TypeOK
<1> SUFFICES ASSUME NEW gone, gone = (IF c.op = "remove" THEN c.id ELSE None),
                    NEW d, d = [ask |-> "sources", gone |-> gone]
             PROVE  SourceInv'
  OBVIOUS
<1>3. gone \in Src!Ids \cup {None}
  BY <1>2
<1>4. d \in Src!Calls
  BY <1>3 DEF Src!Calls
<1>5. GoodAsk(d)
  BY DEF GoodAsk
<1>6. asked' = (asked \ {c}) \cup {d}
  BY DEF Src!Managed, Src!Send
<1>7. sources' \in [live : SUBSET Src!Ids, made : Src!Ids, items : [Src!Ids -> SUBSET Items]]
  <2> SUFFICES ASSUME NEW s, s = sources
               PROVE  sources' \in [live : SUBSET Src!Ids, made : Src!Ids,
                                    items : [Src!Ids -> SUBSET Items]]
    OBVIOUS
  <2>1. s \in [live : SUBSET Src!Ids, made : Src!Ids, items : [Src!Ids -> SUBSET Items]]
    BY DEF SourceInv, Src!TypeOK
  <2>2. CASE /\ s.made < MaxSources
             /\ sources' = [s EXCEPT !.live = @ \cup {s.made + 1}, !.made = @ + 1]
    <3>1. s.made + 1 \in Src!Ids
      BY <2>1, <2>2, SourceBounds DEF Src!Ids
    <3> QED
      BY <2>1, <2>2, <3>1
  <2>3. CASE sources' = [s EXCEPT !.live = @ \ {c.id}]
    BY <2>1, <2>3
  <2>4. CASE sources' = s
    BY <2>1, <2>4
  <2> QED
    BY <2>2, <2>3, <2>4 DEF Src!Managed
<1> QED
  BY <1>1, <1>2, <1>4, <1>5, <1>6, <1>7, AnsweredKeeps

(* The sources have been read.                                             *)
LEMMA GotSourcesKeeps ==
  ASSUME SourceInv, NEW c \in asked, Src!GotSources(c)
  PROVE  SourceInv'
<1>1. UNCHANGED <<kind, sources, guarded, edits>>
  BY DEF Src!GotSources, Src!Elsewhere
<1>2. /\ sources.live \in SUBSET Src!Ids /\ source \in Src!Ids \cup {None}
           /\ cache \in SUBSET Src!Entries
      /\ GoodModals(modals) /\ picked \in SUBSET Items
      /\ page \in BOOLEAN
  BY DEF SourceInv, Src!TypeOK
<1> SUFFICES ASSUME NEW cs, cs = asked \ {c}
             PROVE  SourceInv'
  OBVIOUS
<1>3. c.ask = "sources" /\ GoodAsks(cs)
  BY DEF Src!GotSources, SourceInv, GoodAsks
<1>4. CASE Src!Grafana
  <2>1. Src!Render(page, sources.live, source, {}, TRUE, cs) /\ Src!Keep(Src!ResetModals(modals), {})
    BY <1>4 DEF Src!GotSources
  <2>2. RenderedPage(sources.live, source, {}, cs)
    BY <1>2, <2>1, RenderAnew
  <2>3. GoodModals(Src!ResetModals(modals))
    BY <1>2, ResetFacts DEF GoodModals, GoodModal
  <2> QED
    BY <1>1, <1>2, <1>3, <2>1, <2>2, <2>3, RenderedKeeps
<1>5. CASE ~ Src!Grafana /\ c.gone # None
  <2>1. Src!Render(page, sources.live, source, Src!Without(cache, c.gone), c.gone # None, cs)
        /\ Src!Keep(modals, picked)
    BY <1>5 DEF Src!GotSources
  <2>2. Src!Render(page, sources.live, source, Src!Without(cache, c.gone), TRUE, cs)
    BY <1>5, <2>1 DEF Src!Render
  <2>3. RenderedPage(sources.live, source, Src!Without(cache, c.gone), cs)
    BY <1>2, <2>2, RenderAnew
  <2>4. Src!Without(cache, c.gone) \in SUBSET Src!Entries
    BY <1>2 DEF Src!Without
  <2> QED
    BY <1>1, <1>2, <1>3, <2>1, <2>3, <2>4, RenderedKeeps
<1>6. CASE ~ Src!Grafana /\ c.gone = None
  <2>1. Src!Render(page, sources.live, source, Src!Without(cache, c.gone), c.gone # None, cs)
        /\ Src!Keep(modals, picked)
    BY <1>6 DEF Src!GotSources
  <2>2. Src!Without(cache, c.gone) = cache
    BY <1>2, <1>6, SourceNone DEF Src!Without, Src!Cached, Src!Entries
  <2>3. Src!Render(page, sources.live, source, cache, FALSE, cs)
    BY <1>6, <2>1, <2>2 DEF Src!Render
  <2>4. Src!Reading(source) => Asked(source, cs)
    BY <1>3 DEF Src!Reading, Asked
  <2>5. RenderedPage(sources.live, source, cache, cs)
    BY <1>2, <2>3, <2>4, RenderAgain
  <2> QED
    BY <1>1, <1>2, <1>3, <2>1, <2>5, RenderedKeeps
<1> QED
  BY <1>4, <1>5, <1>6

(* A catalog has come, or its reading has failed.                          *)
LEMMA CatalogKeeps ==
  ASSUME SourceInv, NEW c \in asked, Src!GotCatalog(c) \/ Src!CatalogFails(c)
  PROVE  SourceInv'
<1>1. UNCHANGED <<kind, sources, guarded, edits>>
  BY DEF Src!GotCatalog, Src!CatalogFails, Src!Elsewhere
<1>2. /\ known \in SUBSET Src!Ids /\ source \in Src!Ids \cup {None} /\ cache \in SUBSET Src!Entries
      /\ GoodModals(modals) /\ picked \in SUBSET Items
      /\ page \in BOOLEAN /\ c \in Src!Calls
  BY DEF SourceInv, Src!TypeOK
<1>3. c.ask = "catalog" /\ c.id \in Src!Ids
  BY <1>2, AskedFacts DEF Src!GotCatalog, Src!CatalogFails
<1> SUFFICES ASSUME NEW cs, cs = asked \ {c}
             PROVE  SourceInv'
  OBVIOUS
<1>4. GoodAsks(cs)
  BY DEF SourceInv, GoodAsks
<1>5. ASSUME NEW new \in SUBSET Src!Entries, Src!Render(page, known, source, new, TRUE, cs),
             Src!After(c)
      PROVE  SourceInv'
  <2>1. RenderedPage(known, source, new, cs)
    BY <1>2, <1>5, RenderAnew
  <2> SUFFICES ASSUME NEW ms, ms = Src!Closed(modals, c.close),
                      NEW p, p = (IF c.close = "bulk" THEN {} ELSE picked)
               PROVE  SourceInv'
    OBVIOUS
  <2>2. GoodModals(ms) /\ p \in SUBSET Items
    BY <1>2, ModalsFacts
  <2>3. Src!Keep(ms, p)
    BY <1>5 DEF Src!After
  <2> QED
    BY <1>1, <1>2, <1>4, <1>5, <2>1, <2>2, <2>3, RenderedKeeps
<1>6. Src!Without(cache, c.id) \in SUBSET Src!Entries
  BY <1>2 DEF Src!Without
<1>7. CASE Src!GotCatalog(c)
  <2> SUFFICES ASSUME NEW e, e = [id |-> c.id, items |-> sources.items[c.id]]
               PROVE  SourceInv'
    OBVIOUS
  <2>1. sources.items[c.id] \in SUBSET Items
    BY <1>3 DEF SourceInv, Src!TypeOK
  <2>2. e \in Src!Entries
    BY <1>3, <2>1 DEF Src!Entries
  <2>3. Src!Render(page, known, source, Src!Without(cache, c.id) \cup {e}, TRUE, cs) /\ Src!After(c)
    BY <1>7 DEF Src!GotCatalog
  <2> QED
    BY <1>5, <1>6, <2>2, <2>3
<1>8. CASE Src!CatalogFails(c) /\ Src!Grafana
  BY <1>5, <1>6, <1>8 DEF Src!CatalogFails
<1>9. CASE Src!CatalogFails(c) /\ ~ Src!Grafana
  <2>1. /\ UNCHANGED <<page, known, source, cache, shown, picked, modals>> /\ asked' = cs
        /\ failed' = (failed \/ c.id = source)
    BY <1>9 DEF Src!CatalogFails, Src!Send
  <2>2. Src!TypeOK'
    BY <1>1, <1>4, <2>1 DEF SourceInv, Src!TypeOK, GoodAsks
  <2>3. Src!Reading(source) => Src!Reading(source)' \/ failed'
    BY <2>1 DEF Src!Reading
  <2>4. Src!CatalogIsOwn'
    BY <1>1, <1>9, <2>1, <2>3 DEF SourceInv, Src!CatalogIsOwn, Src!Cached, Src!Grafana
  <2>5. GoodModals(modals)' /\ GoodAsks(asked)'
    BY <1>4, <2>1 DEF SourceInv, GoodModals, GoodModal, GoodAsks, GoodAsk
  <2> QED
    BY <2>2, <2>4, <2>5 DEF SourceInv
<1> QED
  BY <1>7, <1>8, <1>9

(* A dashboard to edit has come: another source may be selected by now, or *)
(* another modal open.                                                     *)
LEMMA GotMetaKeeps ==
  ASSUME SourceInv, NEW c \in asked, Src!GotMeta(c), Src!Elsewhere, UNCHANGED Src!pageVars
  PROVE  SourceInv'
<1>1. UNCHANGED <<kind, sources, guarded, page, known, source, cache, shown, failed, picked, edits>>
  BY DEF Src!GotMeta, Src!Elsewhere, Src!pageVars
<1>2. edits' \in 0..MaxEdits /\ GoodModals(modals)
  BY <1>1 DEF SourceInv, Src!TypeOK
<1>3. c.ask = "meta" /\ c.id \in Src!Ids /\ c.uid \in Items
  BY AskedFacts DEF Src!GotMeta, SourceInv, Src!TypeOK
<1> DEFINE overtaken == c.id # source \/ \E n \in modals : n.what = "dashboard"
<1>9. overtaken \in BOOLEAN
  OBVIOUS
<1> SUFFICES ASSUME NEW op \in {"clone", "edit"},
                    op = (IF c.uid \in guarded THEN "clone" ELSE "edit"),
                    NEW excused \in BOOLEAN, excused = overtaken,
                    NEW m, m = [what |-> "dashboard", op |-> op, meant |-> op, uid |-> c.uid,
                                from |-> c.id, excused |-> excused]
             PROVE  SourceInv'
  BY <1>9
<1>4. modals' = Src!Opened(modals, m)
  BY DEF Src!GotMeta, Src!Modal
<1>5. m \in Src!Modals
  BY <1>3 DEF Src!Modals, Src!Pages, Src!Ops
<1>6. GoodModal(m)
  BY DEF GoodModal
<1>7. asked' = asked \ {c} /\ c.ask # "catalog"
  BY <1>3 DEF Src!GotMeta, Src!Send
<1>8. GoodModals(modals')
  BY <1>2, <1>4, <1>5, <1>6, ModalsFacts
<1> QED
  BY <1>1, <1>2, <1>7, <1>8, DroppedKeeps

(* A write is done, and then the catalog is read; or it is made again as a *)
(* copy.                                                                   *)
LEMMA SourceWrittenKeeps ==
  ASSUME SourceInv, NEW c \in asked, c.op # "remove", Src!Written(c), Src!Elsewhere,
         UNCHANGED Src!pageVars
  PROVE  SourceInv'
<1>1. UNCHANGED <<kind, sources, guarded, page, known, source, cache, shown, failed, picked, modals,
                  edits>>
  BY DEF Src!Written, Src!Elsewhere, Src!pageVars
<1>2. /\ c.ask = "write"
      /\ c \in [ask : {"write"}, what : Src!Pages \cup {"item"}, op : Src!Ops, meant : Src!Ops,
                uid : Items \cup {None}, from : Src!Ids, to : Src!Ids, excused : BOOLEAN]
  BY AskedFacts DEF Src!Written, SourceInv, Src!TypeOK
<1>3. sources' \in [live : SUBSET Src!Ids, made : Src!Ids, items : [Src!Ids -> SUBSET Items]]
  BY <1>1 DEF SourceInv, Src!TypeOK
<1>4. ASSUME NEW d \in Src!Calls, GoodAsk(d), asked' = (asked \ {c}) \cup {d}
      PROVE  SourceInv'
  BY <1>1, <1>2, <1>3, <1>4, AnsweredKeeps
<1>5. CASE c.what = "dashboard" /\ c.op = "edit" /\ c.uid \in guarded
  <2> SUFFICES ASSUME NEW d, d = [c EXCEPT !.op = "clone", !.meant = "clone"]
               PROVE  SourceInv'
    OBVIOUS
  <2>1. asked' = (asked \ {c}) \cup {d}
    BY <1>5 DEF Src!Written, Src!Send
  <2>2. d \in [ask : {"write"}, what : Src!Pages \cup {"item"}, op : Src!Ops, meant : Src!Ops,
               uid : Items \cup {None}, from : Src!Ids, to : Src!Ids, excused : BOOLEAN]
    BY <1>2 DEF Src!Ops
  <2>3. d \in Src!Calls
    BY <2>2, Zenon DEF Src!Calls
  <2>4. /\ d.ask = "write" /\ d.op = d.meant /\ d.from = c.from /\ d.to = c.to
        /\ (d.excused <=> c.excused)
    BY <1>2
  <2>5. GoodAsk(d)
    BY <1>2, <2>4 DEF SourceInv, GoodAsks, GoodAsk
  <2> QED
    BY <1>4, <2>1, <2>3, <2>5
<1>6. CASE ~ (c.what = "dashboard" /\ c.op = "edit" /\ c.uid \in guarded)
  <2> SUFFICES ASSUME NEW d, d = [Src!Catalog(c.to) EXCEPT !.close = c.what]
               PROVE  SourceInv'
    OBVIOUS
  <2>1. asked' = (asked \ {c}) \cup {d}
    BY <1>6 DEF Src!Written, Src!ThenCatalog, Src!Send
  <2>2. d \in Src!Calls /\ GoodAsk(d)
    BY <1>2, ClosingFacts
  <2> QED
    BY <1>4, <2>1, <2>2
<1> QED
  BY <1>5, <1>6

(* A folder or dashboard is gone.                                          *)
LEMMA RemovedKeeps ==
  ASSUME SourceInv, NEW c \in asked, Src!Removed(c)
  PROVE  SourceInv'
<1>1. UNCHANGED <<kind, guarded, page, known, source, cache, shown, failed, picked, modals, edits>>
  BY DEF Src!Removed, Src!pageVars
<1>2. c.ask = "write" /\ c.to \in Src!Ids
  BY AskedFacts DEF Src!Removed, SourceInv, Src!TypeOK
<1> SUFFICES ASSUME NEW d, d = [Src!Catalog(c.to) EXCEPT !.close = None]
             PROVE  SourceInv'
  OBVIOUS
<1>3. asked' = (asked \ {c}) \cup {d}
  BY DEF Src!Removed, Src!ThenCatalog, Src!Send
<1>4. d \in Src!Calls /\ GoodAsk(d)
  BY <1>2, ClosingFacts
<1>5. sources' \in [live : SUBSET Src!Ids, made : Src!Ids, items : [Src!Ids -> SUBSET Items]]
  <2> SUFFICES ASSUME NEW s, s = sources
               PROVE  sources' \in [live : SUBSET Src!Ids, made : Src!Ids,
                                    items : [Src!Ids -> SUBSET Items]]
    OBVIOUS
  <2>1. s \in [live : SUBSET Src!Ids, made : Src!Ids, items : [Src!Ids -> SUBSET Items]]
    BY DEF SourceInv, Src!TypeOK
  <2>2. sources' = [s EXCEPT !.items = [s.items EXCEPT ![c.to] = @ \ {c.uid}]]
    BY <1>2, <2>1 DEF Src!Removed
  <2> QED
    BY <1>2, <2>1, <2>2
<1> QED
  BY <1>1, <1>2, <1>3, <1>4, <1>5, AnsweredKeeps

(* A bulk action goes on, dashboard by dashboard, to the same source.      *)
LEMMA BulkKeeps ==
  ASSUME SourceInv, NEW c \in asked, Src!BulkStep(c) \/ Src!BulkDone(c), Src!Elsewhere,
         UNCHANGED Src!pageVars
  PROVE  SourceInv'
<1>1. UNCHANGED <<kind, sources, guarded, page, known, source, cache, shown, failed, picked, modals,
                  edits>>
  BY DEF Src!BulkStep, Src!BulkDone, Src!Elsewhere, Src!pageVars
<1>2. /\ c.ask = "bulk"
      /\ c \in [ask : {"bulk"}, op : Src!Ops, from : Src!Ids, to : Src!Ids, rest : SUBSET Items,
                writing : BOOLEAN]
  BY AskedFacts DEF Src!BulkStep, Src!BulkDone, SourceInv, Src!TypeOK
<1>3. sources' \in [live : SUBSET Src!Ids, made : Src!Ids, items : [Src!Ids -> SUBSET Items]]
  BY <1>1 DEF SourceInv, Src!TypeOK
<1>4. c.to = c.from
  BY <1>2 DEF SourceInv, GoodAsks, GoodAsk
<1>5. ASSUME NEW d \in [ask : {"bulk"}, op : Src!Ops, from : Src!Ids, to : Src!Ids,
                        rest : SUBSET Items, writing : BOOLEAN],
             d.from = c.from, d.to = c.to, asked' = (asked \ {c}) \cup {d}
      PROVE  SourceInv'
  <2>1. d \in Src!Calls
    BY Zenon DEF Src!Calls
  <2>2. d.ask = "bulk"
    OBVIOUS
  <2>3. GoodAsk(d)
    BY <1>4, <1>5, <2>2 DEF GoodAsk
  <2> QED
    BY <1>1, <1>2, <1>3, <1>5, <2>1, <2>3, AnsweredKeeps
<1>6. CASE Src!BulkStep(c)
  <2>1. PICK u \in c.rest :
          \/ asked' = (asked \ {c}) \cup {[c EXCEPT !.rest = @ \ {u}, !.writing = FALSE]}
          \/ asked' = (asked \ {c}) \cup {[c EXCEPT !.writing = TRUE]}
    BY <1>6 DEF Src!BulkStep, Src!Send
  <2>2. ASSUME NEW d, d = [c EXCEPT !.rest = @ \ {u}, !.writing = FALSE]
        PROVE  /\ d \in [ask : {"bulk"}, op : Src!Ops, from : Src!Ids, to : Src!Ids,
                         rest : SUBSET Items, writing : BOOLEAN]
               /\ d.from = c.from /\ d.to = c.to
    BY <1>2, <2>2
  <2>3. ASSUME NEW d, d = [c EXCEPT !.writing = TRUE]
        PROVE  /\ d \in [ask : {"bulk"}, op : Src!Ops, from : Src!Ids, to : Src!Ids,
                         rest : SUBSET Items, writing : BOOLEAN]
               /\ d.from = c.from /\ d.to = c.to
    BY <1>2, <2>3
  <2> QED
    BY <1>5, <2>1, <2>2, <2>3
<1>7. CASE Src!BulkDone(c)
  <2> SUFFICES ASSUME NEW d, d = [Src!Catalog(c.to) EXCEPT !.close = "bulk"]
               PROVE  SourceInv'
    OBVIOUS
  <2>1. asked' = (asked \ {c}) \cup {d}
    BY <1>7 DEF Src!BulkDone, Src!ThenCatalog, Src!Send
  <2>2. d \in Src!Calls /\ GoodAsk(d)
    BY <1>2, ClosingFacts DEF Src!Pages
  <2> QED
    BY <1>1, <1>2, <1>3, <2>1, <2>2, AnsweredKeeps
<1> QED
  BY <1>6, <1>7

(* A refusal.                                                              *)
LEMMA RefusedKeeps ==
  ASSUME SourceInv, NEW c \in asked, Src!Refused(c), Src!Elsewhere, UNCHANGED Src!pageVars
  PROVE  SourceInv'
<1>1. UNCHANGED <<kind, sources, guarded, page, known, source, cache, shown, failed, picked, modals,
                  edits>>
  BY DEF Src!Refused, Src!Elsewhere, Src!pageVars
<1>2. asked' = asked \ {c} /\ c.ask # "catalog"
  BY DEF Src!Refused, Src!Send
<1>3. edits' \in 0..MaxEdits /\ GoodModals(modals')
  BY <1>1 DEF SourceInv, Src!TypeOK
<1> QED
  BY <1>1, <1>2, <1>3, DroppedKeeps

-----------------------------------------------------------------------------
(* At the start nothing is read and nobody is doing anything.              *)
LEMMA SourceInitInv == Src!Init => SourceInv
<1> SUFFICES ASSUME Src!Init
             PROVE  SourceInv
  OBVIOUS
<1>1. /\ kind \in SourceKinds /\ guarded = {} /\ page = FALSE /\ known = {} /\ source = None
      /\ cache = {} /\ shown = None /\ picked = {} /\ modals = {} /\ failed = FALSE
      /\ edits = 0
  BY DEF Src!Init
<1>2. sources \in [live : SUBSET Src!Ids, made : Src!Ids, items : [Src!Ids -> SUBSET Items]]
  <2>1. PICK n \in Src!Ids : sources = [live |-> 1..n, made |-> n,
          items |-> [i \in Src!Ids |-> Items]]
    BY DEF Src!Init
  <2>2. 1..n \in SUBSET Src!Ids
    BY SourceBounds DEF Src!Ids
  <2> QED
    BY <2>1, <2>2
<1> SUFFICES ASSUME NEW d, d = [ask |-> "sources", gone |-> None]
             PROVE  SourceInv
  OBVIOUS
<1>3. d \in Src!Calls
  BY DEF Src!Calls
<1>4. GoodAsk(d)
  BY DEF GoodAsk
<1>5. asked = {d}
  BY DEF Src!Init
<1>6. 0 \in 0..MaxEdits
  BY SourceBounds
<1>7. Src!TypeOK
  BY <1>1, <1>2, <1>3, <1>5, <1>6 DEF Src!TypeOK
<1>8. Src!CatalogIsOwn
  BY <1>1 DEF Src!CatalogIsOwn, Src!Cached
<1>9. GoodModals(modals)
  BY <1>1 DEF GoodModals
<1> QED
  BY <1>3, <1>4, <1>5, <1>7, <1>8, <1>9 DEF SourceInv, GoodAsks

(* Every step keeps the invariant.                                         *)
LEMMA SourceNextInv == SourceInv /\ [Src!Next]_(Src!vars) => SourceInv'
<1> SUFFICES ASSUME SourceInv, [Src!Next]_(Src!vars)
             PROVE  SourceInv'
  OBVIOUS
<1>1. CASE Src!Visit \/ Src!SelectSource \/ Src!RefreshCatalog \/ Src!Manage \/ Src!Guard
  BY <1>1, BrowseKeeps, ManageKeeps, GuardKeeps
<1>2. CASE /\ Src!Pick \/ Src!OpenModal \/ Src!EditDashboard \/ Src!OpenBulk \/ Src!CloseModal
                \/ Src!SaveAsCopy
              \/ Src!SubmitModal \/ Src!SubmitBulk \/ Src!RemoveItem
           /\ Src!Elsewhere /\ UNCHANGED Src!pageVars
  BY <1>2, PickKeeps, OpenKeeps, EditDashboardKeeps, SaveAsCopyKeeps, SubmitModalKeeps,
     SubmitBulkKeeps, RemoveItemKeeps
<1>3. ASSUME NEW c \in asked,
             \/ Src!Managed(c) \/ Src!GotSources(c) \/ Src!GotCatalog(c) \/ Src!CatalogFails(c)
                  \/ Src!Removed(c)
      PROVE  SourceInv'
  BY <1>3, ManagedKeeps, GotSourcesKeeps, CatalogKeeps, RemovedKeeps
<1>4. ASSUME NEW c \in asked,
             /\ Src!GotMeta(c) \/ (c.ask = "write" /\ c.op # "remove" /\ Src!Written(c))
                \/ Src!BulkStep(c) \/ Src!BulkDone(c) \/ Src!Refused(c)
             /\ Src!Elsewhere /\ UNCHANGED Src!pageVars
      PROVE  SourceInv'
  BY <1>4, GotMetaKeeps, SourceWrittenKeeps, BulkKeeps, RefusedKeeps
<1>5. CASE UNCHANGED Src!vars
  <2>1. UNCHANGED <<kind, sources, guarded, page, known, source, cache, shown, failed, picked,
          modals,
                    asked, edits>>
    BY <1>5 DEF Src!vars, Src!pageVars
  <2> QED
    BY <2>1, PageKept DEF SourceInv, Src!TypeOK
<1> QED
  BY <1>1, <1>2, <1>3, <1>4, <1>5 DEF Src!Next

-----------------------------------------------------------------------------
(* Both invariants hold at every moment, whichever page is used.           *)
PagesInv == view \in Views /\ Inv /\ SourceInv

LEMMA PagesInvHolds == PagesSpec => []PagesInv
<1>1. PagesInit => PagesInv
  BY InitInv, SourceInitInv DEF PagesInit, PagesInv
<1>2. PagesInv /\ [PagesNext]_<<view, vars, sourceVars>> => PagesInv'
  <2> SUFFICES ASSUME PagesInv, [PagesNext]_<<view, vars, sourceVars>>
               PROVE  PagesInv'
    OBVIOUS
  <2>1. [Next]_vars /\ view' = view
    BY DEF PagesNext
  <2>2. [Src!Next]_(Src!vars)
    BY DEF PagesNext, sourceVars, Src!vars, Src!pageVars
  <2> QED
    BY <2>1, <2>2, NextInv, SourceNextInv DEF PagesInv
<1> QED
  BY <1>1, <1>2, PTL DEF PagesSpec

(* The list, the namespaces and the panels on screen are those of the      *)
(* selection and of the object in the drawer, or are being read, however   *)
(* the selection changes: but for what was refused, or was answered after  *)
(* another selection or object had taken its place and so took the place   *)
(* of what is selected (the effects of selectedClusterId and               *)
(* selectedResourceType, and openResourceDetail).                          *)
THEOREM ShownIsSelectedHolds == PagesSpec => []ShownIsSelected
<1>1. ASSUME Inv
      PROVE  ShownIsSelected
  <2>1. ASSUME NEW p \in Panels \ late, Shown, "detail" \notin crossed
        PROVE  \/ detail.panels[p] = detail.object
               \/ /\ detail.panels[p] = None
                  /\ HasPanel(detail, p) => [ask |-> p, of |-> detail.object] \in calls
    <3>1. Own /\ ~ detail.loading
      BY <2>1 DEF Own, Shown
    <3> QED
      BY <1>1, <3>1 DEF Inv, PanelsInv
  <2> QED
    BY <1>1, <2>1 DEF Inv, ListsInv, ShownIsSelected
<1>2. PagesInv => ShownIsSelected
  BY <1>1 DEF PagesInv
<1> QED
  BY <1>2, PagesInvHolds, PTL

(* A save, a deletion, a rollback or an autoscaler goes to the object it   *)
(* was read of and shown for, in its own cluster, and a rollback to a      *)
(* revision of its own history, though the cluster may be selected from    *)
(* elsewhere at any moment: but for one made from the editor that a new    *)
(* selection leaves open, from a row of another selection, or from what    *)
(* answered after its place had been taken (submitResource,                *)
(* removeResource, rollbackResourceDetailToRevision,                       *)
(* submitWorkloadAutoscaling).                                             *)
THEOREM WritesGoHomeHolds == PagesSpec => []WritesGoHome
<1>1. PagesInv => WritesGoHome
  BY DEF PagesInv, Inv, WritesInv, WritesGoHome, Writing, GoodWrite
<1> QED
  BY <1>1, PagesInvHolds, PTL

(* The catalog on screen is the cached one of the source selected, only    *)
(* what it shows is picked, and a catalog that is missing is being read,   *)
(* in whatever order the answers come (refreshRegistryArtifacts,           *)
(* refreshGrafanaCatalog and the effects that depend on them).             *)
THEOREM CatalogIsOwnHolds == PagesSpec => []CatalogIsOwn
<1>1. PagesInv => CatalogIsOwn
  BY DEF PagesInv, SourceInv, CatalogIsOwn
<1> QED
  BY <1>1, PagesInvHolds, PTL

(* A bulk action goes to the Grafana its dashboards are shown of, and any  *)
(* other write to the one its folder or dashboard was shown of, doing what *)
(* its modal was opened for: but for a modal opened or replaced by the     *)
(* late answer of an edit, and one open while another source was selected  *)
(* or the sources were read, from which the code does write elsewhere or   *)
(* something else.                                                         *)
THEOREM EditsGoHomeHolds == PagesSpec => []EditsGoHome
<1>1. PagesInv => EditsGoHome
  BY DEF PagesInv, SourceInv, GoodAsks, GoodAsk, EditsGoHome, Src!EditsGoHome
<1> QED
  BY <1>1, PagesInvHolds, PTL

(* What either page shows, keeps and has in flight has its type in every   *)
(* state.                                                                  *)
THEOREM PageTypesHold == PagesSpec => []PagesTypeOK
<1>1. PagesInv => PagesTypeOK
  BY DEF PagesInv, Inv, SourceInv, PagesTypeOK
<1> QED
  BY <1>1, PagesInvHolds, PTL
================================================================================
