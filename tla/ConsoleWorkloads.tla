--------------------------- MODULE ConsoleWorkloads ---------------------------
(***************************************************************************)
(* The console's page of Kubernetes objects: the selection of a cluster, a *)
(* kind and a namespace, the list read for it, the drawer of one object    *)
(* with its panels, the YAML editor, and what is written from them.        *)
(*                                                                         *)
(* A handler up to its await is one action with the effects of its render; *)
(* an answer comes in any order and with the selection of its asking.      *)
(* Objects are abstracted to where they are, and every place has them;     *)
(* identical requests in flight are one.  The search and the session are   *)
(* left out, and the cluster is also selected by what answers elsewhere.   *)
(***************************************************************************)
EXTENDS Naturals, FiniteSets

CONSTANTS Clusters, Kinds, Names,
          Namespaced,     (* the kinds that are in a namespace              *)
          NamespacesOf,   (* per cluster                                    *)
          Panels,         (* of those below, the ones instantiated          *)
          None,
          MaxCalls,       (* bound: requests in flight                      *)
          MaxMoves,       (* bound: selections made in a behaviour          *)
          MaxOpened       (* bound: drawers and dialogs opened in one       *)

ASSUME WorkloadBounds == {MaxCalls, MaxMoves, MaxOpened} \subseteq Nat

VARIABLES sel,         (* selectedClusterId, ...ResourceType, ...Namespace  *)
          namespaces,  (* the cluster they were read from                   *)
          list,        (* the selection resources were read for             *)
          detail,      (* resourceDetailOpen, ...Loading, ...Resource, and
                          which object each panel is of                     *)
          editor,      (* resourceDrawerOpen, editingResource               *)
          scaling,     (* autoscalingModalOpen, and what its form is of     *)
          dialog,      (* the write a modal.confirm would send              *)
          calls,       (* requests in flight                                *)
          late,        (* history: lists and panels not read for what they
                          are shown beside: refused, or answered too late   *)
          crossed,     (* history: surfaces that show an object of another
                          selection, or another than they were opened for   *)
          spent        (* selections made, drawers and dialogs opened       *)

vars == <<sel, namespaces, list, detail, editor, scaling, dialog, calls, late, crossed,
          spent>>

(* supportsPodOperations, supportsWorkloadHistory and their like.          *)
Supports ==
  [pods        |-> {"deployment", "statefulset", "daemonset", "job", "cronjob",
                    "knativeservice"},
   relations   |-> {"deployment", "statefulset", "daemonset", "job", "cronjob"},
   history     |-> {"deployment", "statefulset", "daemonset"},
   autoscaling |-> {"deployment", "statefulset", "knativeservice"}]

ASSUME PanelsAssumption == Panels \subseteq DOMAIN Supports

AllNamespaces == UNION {NamespacesOf[c] : c \in Clusters}
Scopes == [cluster : Clusters, kind : Kinds, ns : AllNamespaces \cup {""}]
Objects == [cluster : Clusters, kind : Kinds, ns : AllNamespaces \cup {""}, name : Names]
Writes == [ask : {"save", "delete", "rollback", "scale", "unscale"}, to : Objects,
           about : SUBSET Objects, scope : Scopes, excused : BOOLEAN]
Calls  == [ask : {"namespaces"}, cluster : Clusters] \cup [ask : {"list"}, scope : Scopes]
          \cup [ask : {"detail", "reread", "edit"} \cup Panels, of : Objects]

Forms  == [about : SUBSET Objects, excused : BOOLEAN]

(* Nothing is mistaken for None.                                           *)
ASSUME NoneAssumption == None \notin Clusters \cup Scopes \cup Objects \cup Writes \cup Forms

TypeOK ==
  /\ sel \in [cluster : Clusters \cup {None}, kind : Kinds, ns : AllNamespaces \cup {""}]
  /\ sel.kind \notin Namespaced => sel.ns = ""
  /\ namespaces \in Clusters \cup {None} /\ list \in Scopes \cup {None}
  /\ detail \in [open : BOOLEAN, loading : BOOLEAN, object : Objects \cup {None},
                 panels : [Panels -> Objects \cup {None}]]
  /\ editor \in [open : BOOLEAN, of : Objects \cup {None}]
  /\ scaling \in Forms \cup {None}
  /\ \A w \in {dialog} \ {None} : w \in Writes
  /\ \A c \in calls : c \in Calls \/ c \in Writes
  /\ Cardinality(calls) <= MaxCalls
  /\ late \subseteq Panels \cup {"list", "namespaces"}
  /\ crossed \subseteq {"detail", "editor"}
  /\ spent \in [moves : 0..MaxMoves, opened : 0..MaxOpened]

NoPanels == [p \in Panels |-> None]
NoDetail == [open |-> FALSE, loading |-> FALSE, object |-> None, panels |-> NoPanels]
NoEditor == [open |-> FALSE, of |-> None]

Init ==
  /\ sel \in [cluster : {None}, kind : Kinds \cap Namespaced, ns : {""}]
  /\ namespaces = None /\ list = None
  /\ detail = NoDetail /\ editor = NoEditor /\ scaling = None /\ dialog = None
  /\ calls = {} /\ late = {} /\ crossed = {} /\ spent = [moves |-> 0, opened |-> 0]

-----------------------------------------------------------------------------
(* Requests: buildNamespaceQuery asks for a namespace only where the kind  *)
(* has one.                                                                *)
Move == spent.moves < MaxMoves /\ spent' = [spent EXCEPT !.moves = @ + 1]
Open == spent.opened < MaxOpened /\ spent' = [spent EXCEPT !.opened = @ + 1]
Query(s)   == [s EXCEPT !.ns = IF s.kind \in Namespaced THEN @ ELSE ""]
Send(cs)   == calls' = cs /\ Cardinality(cs) <= MaxCalls
Reads(o, asks) == {[ask |-> a, of |-> o] : a \in asks}
Here(o)    == [o EXCEPT !.cluster = sel.cluster, !.kind = sel.kind]
ListOf(s)  == IF s.cluster = None THEN {} ELSE {[ask |-> "list", scope |-> Query(s)]}
SpacesOf(s) == IF s.cluster = None THEN {} ELSE {[ask |-> "namespaces", cluster |-> s.cluster]}

(* The effects of the panels, with the drawer at d: an object shown is     *)
(* asked for each panel its kind supports, the others are empty.           *)
HasPanel(d, p) == d.open /\ d.object # None /\ d.object.ns # "" /\ sel.kind \in Supports[p]

(* Faulty variant of the next: effects that do not depend on the object.   *)
PanelsOnTurn(d, s) == IF s = sel \/ s.cluster = None THEN {}
                      ELSE {[ask |-> p, of |-> [d.object EXCEPT !.cluster = s.cluster,
                                                                !.kind = s.kind]] :
                              p \in {q \in Panels : HasPanel(d, q)}}

PanelsOf(d, s) == IF s.cluster = None THEN {}
                  ELSE {[ask |-> p, of |-> [d.object EXCEPT !.cluster = s.cluster,
                                                            !.kind = s.kind]] :
                          p \in {q \in Panels : HasPanel(d, q)}}
Rendered(d) == [d EXCEPT !.panels = [p \in Panels |->
                                       IF HasPanel(d, p) THEN d.panels[p] ELSE None]]

(* Faulty variant of the next: the kind's own effect is missing.           *)
KeepNamespace(s, read) ==
  IF read = None \/ s.ns \in NamespacesOf[read] THEN s
  ELSE [s EXCEPT !.ns = IF "default" \in NamespacesOf[read] THEN "default"
                        ELSE CHOOSE n \in NamespacesOf[read] : TRUE]

(* The two effects of the namespace: none for a kind without one, and for  *)
(* the others one of those read, whatever was selected.                    *)
FitNamespace(s, read) ==
  IF s.kind \notin Namespaced THEN [s EXCEPT !.ns = ""]
  ELSE IF read = None \/ NamespacesOf[read] = {} THEN [s EXCEPT !.ns = ""]
  ELSE IF s.ns \in NamespacesOf[read] THEN s
  ELSE [s EXCEPT !.ns = IF "default" \in NamespacesOf[read] THEN "default"
                        ELSE CHOOSE n \in NamespacesOf[read] : TRUE]

(* Faulty variant of the next: no effect when the cluster changes.         *)
KeepDetail == UNCHANGED <<detail, crossed>>

(* The effect of a selection that changes: the drawer is emptied, the      *)
(* editor, the form of the autoscaler and a dialog stay.                   *)
EmptyDetail ==
  /\ detail' = NoDetail
  /\ crossed' = (crossed \ {"detail"}) \cup (IF editor.open THEN {"editor"} ELSE {})

(* s is selected and read are the namespaces by then: what each render     *)
(* asks besides cs, and what stays excused of ex.                          *)
Select(s, read, cs, ex) ==
  LET fit == FitNamespace(s, read) IN
  /\ sel' = fit /\ namespaces' = read
  /\ IF s = sel /\ fit = sel
     THEN Send(cs) /\ UNCHANGED <<detail, crossed>> /\ late' = ex
     ELSE /\ Send(cs \cup (IF s.cluster = sel.cluster THEN {} ELSE SpacesOf(s) \cup PanelsOf(detail, s))
                     \cup ListOf(fit) \cup (IF s = sel THEN {} ELSE ListOf(s)))
          /\ EmptyDetail
          /\ late' = ex \ ({"list"} \cup Panels
                         \cup IF s.cluster = sel.cluster THEN {} ELSE {"namespaces"})
  /\ UNCHANGED <<list, editor, scaling, dialog>>

-----------------------------------------------------------------------------
(* What the user does; a drawer or a dialog covers the page.               *)
Confirmed == {"delete", "rollback", "unscale"}
NoDialog  == dialog = None /\ ~ \E c \in calls : c.ask \in Confirmed
Uncovered == ~ detail.open /\ ~ editor.open /\ scaling = None /\ NoDialog

SelectCluster ==
  /\ Move
  /\ Uncovered
  /\ \E c \in Clusters \ {sel.cluster} : Select([sel EXCEPT !.cluster = c], namespaces, calls, late)

SelectKind ==
  /\ Move
  /\ Uncovered
  /\ \E k \in Kinds \ {sel.kind} : Select([sel EXCEPT !.kind = k], namespaces, calls, late)

SelectNamespace ==
  /\ Move
  /\ Uncovered /\ sel.kind \in Namespaced /\ namespaces # None
  /\ \E n \in (NamespacesOf[namespaces] \cup {""}) \ {sel.ns} :
       Select([sel EXCEPT !.ns = n], namespaces, calls, late)

(* An answer elsewhere selects a cluster: the list of clusters, a          *)
(* hydration, a provisioning job that has succeeded, a Helm deployment.    *)
ClusterTurns ==
  /\ Move
  /\ \E c \in Clusters \ {sel.cluster} : Select([sel EXCEPT !.cluster = c], namespaces, calls, late)

RefreshList ==
  /\ Uncovered /\ sel.cluster # None
  /\ Send(calls \cup ListOf(sel))
  /\ UNCHANGED <<sel, namespaces, list, detail, editor, scaling, dialog, late, crossed, spent>>

(* The rows are those of the list, clicked under the selection.            *)
Rows == IF list = None \/ sel.cluster = None THEN {}
        ELSE [cluster : {list.cluster}, kind : {list.kind}, name : Names,
              ns : IF list.ns = "" /\ list.kind \in Namespaced
                   THEN NamespacesOf[list.cluster] ELSE {list.ns}]

OpenDetail ==
  /\ Open
  /\ Uncovered
  /\ \E o \in Rows :
       /\ detail' = Rendered([detail EXCEPT !.open = TRUE, !.loading = TRUE,
            !.panels = [p \in Panels |-> IF p = "pods" THEN @[p] ELSE None]])
       /\ Send(calls \cup {[ask |-> "detail", of |-> Here(o)]} \cup PanelsOf(detail', sel))
  /\ late' = late \ (Panels \ {"pods"})
  /\ UNCHANGED <<sel, namespaces, list, editor, scaling, dialog, crossed>>

CloseDetail ==
  /\ detail.open /\ scaling = None /\ NoDialog
  /\ detail' = NoDetail /\ crossed' = crossed \ {"detail"}
  /\ UNCHANGED <<sel, namespaces, list, editor, scaling, dialog, calls, late, spent>>

(* openResourceEditor for an object, from its row ...                      *)
EditRow ==
  /\ Open
  /\ Uncovered
  /\ \E o \in Rows : Send(calls \cup {[ask |-> "edit", of |-> Here(o)]})
  /\ UNCHANGED <<sel, namespaces, list, detail, editor, scaling, dialog, late, crossed>>

Shown == detail.open /\ ~ detail.loading /\ detail.object # None /\ scaling = None /\ NoDialog

(* ... or from its drawer, which closes.                                   *)
EditShown ==
  /\ Open
  /\ Shown
  /\ detail' = NoDetail /\ crossed' = crossed \ {"detail"}
  /\ Send(calls \cup {[ask |-> "edit", of |-> Here(detail.object)]})
  /\ UNCHANGED <<sel, namespaces, list, editor, scaling, dialog, late>>

(* A copy of an object, or a template of the kind selected.                *)
OpenCopy ==
  /\ Open
  /\ Uncovered /\ sel.cluster # None
  /\ \E o \in Rows \cup [cluster : {sel.cluster}, kind : {sel.kind}, ns : {sel.ns}, name : Names] :
       /\ editor' = [open |-> TRUE, of |-> o]
       /\ crossed' = IF o = Here(o) THEN crossed \ {"editor"} ELSE crossed \cup {"editor"}
  /\ UNCHANGED <<sel, namespaces, list, detail, scaling, dialog, calls, late>>

CopyShown ==
  /\ Open
  /\ Shown
  /\ editor' = [open |-> TRUE, of |-> detail.object] /\ detail' = NoDetail
  /\ crossed' = IF detail.object = Here(detail.object) THEN {} ELSE {"editor"}
  /\ UNCHANGED <<sel, namespaces, list, scaling, dialog, calls, late>>

CloseEditor ==
  /\ editor.open /\ editor' = NoEditor /\ crossed' = crossed \ {"editor"}
  /\ UNCHANGED <<sel, namespaces, list, detail, scaling, dialog, calls, late, spent>>

(* A write about some objects shown, to one of the selection.              *)
Write(ask, o, about, excused) ==
  [ask |-> ask, to |-> Here(o), about |-> about \ {None}, scope |-> sel, excused |-> excused]

(* submitResource, after the review.                                       *)
Submit ==
  /\ editor.open /\ sel.cluster # None
  /\ Send(calls \cup {Write("save", editor.of, {editor.of}, "editor" \in crossed)})
  /\ UNCHANGED <<sel, namespaces, list, detail, editor, scaling, dialog, late, crossed, spent>>

(* removeResource, from a row or the drawer, asks first with what it knows.*)
RemoveRow ==
  /\ Open
  /\ Uncovered
  /\ \E o \in Rows : dialog' = Write("delete", o, {o}, o # Here(o))
  /\ UNCHANGED <<sel, namespaces, list, detail, editor, scaling, calls, late, crossed>>

RemoveShown ==
  /\ Open
  /\ Shown
  /\ dialog' = Write("delete", detail.object, {detail.object}, "detail" \in crossed)
  /\ detail' = NoDetail /\ crossed' = crossed \ {"detail"}
  /\ UNCHANGED <<sel, namespaces, list, editor, scaling, calls, late>>

(* rollbackResourceDetailToRevision, to a revision of the history shown,   *)
(* and removeWorkloadAutoscaling.                                          *)
AskFirst ==
  /\ Open
  /\ Shown /\ detail.object.ns # ""
  /\ \E op \in {<<"rollback", "history">>, <<"unscale", "autoscaling">>} :
       LET p == op[2] IN
       /\ p \in Panels /\ detail.panels[p] # None
       /\ dialog' = Write(op[1], detail.object, {detail.object, detail.panels[p]},
                          "detail" \in crossed \/ p \in late)
  /\ UNCHANGED <<sel, namespaces, list, detail, editor, scaling, calls, late, crossed>>

Cancel ==
  /\ dialog # None /\ dialog' = None
  /\ UNCHANGED <<sel, namespaces, list, detail, editor, scaling, calls, late, crossed, spent>>

Confirm ==
  /\ dialog # None /\ dialog' = None
  /\ Send(calls \cup {dialog})
  /\ UNCHANGED <<sel, namespaces, list, detail, editor, scaling, late, crossed, spent>>

(* The form of an autoscaler, filled from the panel; its submission takes  *)
(* the object of its own render.                                           *)
OpenScaling ==
  /\ Open
  /\ Shown /\ "autoscaling" \in Panels /\ sel.kind \in Supports.autoscaling
  /\ scaling' = [about |-> {detail.object, detail.panels.autoscaling} \ {None},
                 excused |-> "detail" \in crossed \/ "autoscaling" \in late]
  /\ UNCHANGED <<sel, namespaces, list, detail, editor, dialog, calls, late, crossed>>

SubmitScaling ==
  /\ scaling # None /\ sel.cluster # None /\ detail.object # None /\ detail.object.ns # ""
  /\ Send(calls \cup {Write("scale", detail.object, scaling.about \cup {detail.object},
                            scaling.excused \/ "detail" \in crossed)})
  /\ UNCHANGED <<sel, namespaces, list, detail, editor, scaling, dialog, late, crossed, spent>>

CloseScaling ==
  /\ scaling # None /\ scaling' = None
  /\ UNCHANGED <<sel, namespaces, list, detail, editor, dialog, calls, late, crossed, spent>>

-----------------------------------------------------------------------------
(* What the server answers.                                                *)
Exists(o) == o.ns \in (IF o.kind \in Namespaced THEN NamespacesOf[o.cluster] ELSE {""})
Mark(x, own) == late' = IF own THEN late \ {x} ELSE late \cup {x}

GotNamespaces(c) ==
  /\ c.ask = "namespaces"
  /\ Select(sel, c.cluster, calls \ {c},
            IF c.cluster = sel.cluster THEN late \ {"namespaces"} ELSE late \cup {"namespaces"})

(* The object chosen may be gone from the list, which closes its drawer.   *)
GotList(c) ==
  /\ c.ask = "list"
  /\ list' = c.scope
  /\ Mark("list", c.scope = Query(sel))
  /\ \/ UNCHANGED <<detail, crossed>>
     \/ detail.open /\ detail' = NoDetail /\ crossed' = crossed \ {"detail"}
  /\ Send(calls \ {c})
  /\ UNCHANGED <<sel, namespaces, editor, scaling, dialog>>

(* The drawer takes the object, also when it has been closed meanwhile or  *)
(* opened for another; as a new object it is asked for its panels.  A form *)
(* of its autoscaler stays open over it.                                   *)
ShowObject(o, loading, cs) ==
  /\ detail' = Rendered([detail EXCEPT !.object = o, !.loading = loading])
  /\ Send(cs \cup PanelsOf(detail', sel))
  /\ late' = late \cup {p \in Panels : detail'.panels[p] \notin {None, o}}
  /\ crossed' = IF /\ detail.open /\ o = Here(o) /\ detail.object \in {None, o}
                   /\ scaling = None \/ "detail" \notin crossed
                THEN crossed \ {"detail"} ELSE crossed \cup {"detail"}
  /\ UNCHANGED <<sel, namespaces, list, editor, scaling, dialog>>

GotDetail(c) == c.ask = "detail" /\ Exists(c.of) /\ ShowObject(c.of, FALSE, calls \ {c})
GotReread(c) == c.ask = "reread" /\ Exists(c.of) /\ ShowObject(c.of, detail.loading, calls \ {c})

GotEdit(c) ==
  /\ c.ask = "edit" /\ Exists(c.of)
  /\ editor' = [open |-> TRUE, of |-> c.of]
  /\ crossed' = IF c.of = Here(c.of) THEN crossed \ {"editor"} ELSE crossed \cup {"editor"}
  /\ Send(calls \ {c})
  /\ UNCHANGED <<sel, namespaces, list, detail, scaling, dialog, late>>

GotPanel(c) ==
  /\ c.ask \in Panels /\ Exists(c.of)
  /\ detail' = [detail EXCEPT !.panels[c.ask] = c.of]
  /\ Mark(c.ask, c.of = detail.object)
  /\ Send(calls \ {c})
  /\ UNCHANGED <<sel, namespaces, list, editor, scaling, dialog, crossed>>

(* A write is done: its surface closes and what it shows is read again,    *)
(* with the selection it was sent under.                                   *)
Written(c) ==
  /\ c.ask \in {"save", "delete", "rollback", "scale", "unscale"}
  /\ editor'  = IF c.ask = "save" THEN NoEditor ELSE editor
  /\ crossed' = IF c.ask = "save" THEN crossed \ {"editor"} ELSE crossed
  /\ scaling' = IF c.ask = "scale" THEN None ELSE scaling
  /\ Send((calls \ {c}) \cup
       CASE c.ask \in {"save", "delete"} -> ListOf(c.scope)
         [] c.ask = "rollback" -> Reads(c.to, {"reread"} \cup (Panels \cap {"history", "pods"}))
         [] OTHER -> Reads(c.to, Panels \cap {"autoscaling"}))
  /\ UNCHANGED <<sel, namespaces, list, detail, dialog, late>>

(* A failure is shown; a list stays, a panel is emptied, a drawer closes.  *)
Fails(c) ==
  /\ Send(calls \ {c})
  /\ CASE c.ask = "detail" -> /\ detail' = NoDetail
                              /\ crossed' = crossed \ {"detail"} /\ UNCHANGED late
       [] c.ask \in Panels -> /\ detail' = [detail EXCEPT !.panels[c.ask] = None]
                              /\ late' = late \cup {c.ask} /\ UNCHANGED crossed
       [] c.ask \in {"list", "namespaces"} -> late' = late \cup {c.ask}
                                              /\ UNCHANGED <<detail, crossed>>
       [] OTHER -> UNCHANGED <<detail, late, crossed>>
  /\ UNCHANGED <<sel, namespaces, list, editor, scaling, dialog>>

Next ==
  \/ SelectCluster \/ SelectKind \/ SelectNamespace \/ ClusterTurns \/ RefreshList
  \/ OpenDetail \/ CloseDetail \/ EditRow \/ EditShown \/ OpenCopy \/ CopyShown
  \/ CloseEditor \/ Submit \/ RemoveRow \/ RemoveShown \/ AskFirst \/ Cancel \/ Confirm
  \/ OpenScaling \/ SubmitScaling \/ CloseScaling
  \/ /\ \E c \in calls : GotNamespaces(c) \/ GotList(c) \/ GotDetail(c) \/ GotReread(c)
                         \/ GotEdit(c) \/ GotPanel(c) \/ Written(c) \/ Fails(c)
     /\ UNCHANGED spent

Spec == Init /\ [][Next]_vars

-----------------------------------------------------------------------------
(* The list is of the selection on screen, or is being read for it; and    *)
(* each panel of an open drawer is empty or of the object that the drawer  *)
(* names, and not empty for good: but for an answer that failed or came    *)
(* after another selection or object had taken its place, which then is    *)
(* what is on screen.                                                      *)
ShownIsSelected ==
  /\ sel.cluster = None \/ list = Query(sel) \/ "list" \in late \/ ListOf(sel) \subseteq calls
  /\ sel.cluster = None \/ namespaces = sel.cluster \/ "namespaces" \in late
     \/ SpacesOf(sel) \subseteq calls
  /\ \A p \in Panels \ late : Shown /\ "detail" \notin crossed =>
       \/ detail.panels[p] = detail.object
       \/ detail.panels[p] = None /\
            (HasPanel(detail, p) => [ask |-> p, of |-> detail.object] \in calls)

(* What is written goes to the object that was read and shown, in its      *)
(* cluster, and a rollback to a revision of its own history: also when the *)
(* cluster is selected from elsewhere while a drawer, a form or a dialog   *)
(* is open.  Excused are the rows, panels and drafts that answered after   *)
(* another selection or object had taken their place, and the editor,      *)
(* which a new selection leaves open: what is written from these may go    *)
(* elsewhere.                                                              *)
WritesGoHome ==
  \A c \in calls : c.ask \in {"save", "delete", "rollback", "scale", "unscale"} =>
    c.about \subseteq {c.to} \/ c.excused
=============================================================================
