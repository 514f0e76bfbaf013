----------------------------- MODULE ConsoleImport -----------------------------
(***************************************************************************)
(* The console's drawer for clusters that exist: the three steps that      *)
(* import one (kubeconfig, name and region, precheck) and the form that    *)
(* edits one.  Its header stays usable while a precheck is under way, and  *)
(* answers act on whatever the drawer holds when they come.                *)
(*                                                                         *)
(* A kubeconfig is a value; the name and the region are one field, filled  *)
(* or not.  A field of a step not shown keeps its value, but its watcher   *)
(* sees it empty.                                                          *)
(***************************************************************************)
EXTENDS Naturals

CONSTANTS Kubeconfigs,   (* those that parse                                 *)
          Blank,         (* an empty field; no preview or request            *)
          MaxPending     (* bound: requests and file reads in flight         *)

VARIABLES wizard,      (* clusterDrawerOpen, editingCluster, clusterWizardStep,
                          clusterForm and clusterConnectionPreview          *)
          previewing,  (* clusterPreviewLoading                             *)
          pending,     (* what is in flight                                 *)
          reached,     (* history: kubeconfigs a precheck could use         *)
          crossed      (* history: this drawer got an answer meant for what *)
                       (* it held before                                    *)

importVars == <<wizard, previewing, pending, reached, crossed>>

Places  == 1..MaxPending
Fields  == Kubeconfigs \cup {Blank}
Drawers == [open : BOOLEAN, editing : BOOLEAN, step : 0..2, kubeconfig : Fields,
            named : BOOLEAN, connected : Fields]
Pending == [kind : {"preview", "upload"}, kubeconfig : Kubeconfigs, drawer : Drawers]
           \cup [kind : {"create", "update"}, kubeconfig : Fields, excused : BOOLEAN]

ImportTypeOK ==
  /\ wizard \in Drawers /\ previewing \in BOOLEAN
  /\ pending \in [Places -> Pending \cup {Blank}]
  /\ reached \in SUBSET Kubeconfigs /\ crossed \in BOOLEAN

Closed == [open |-> FALSE, editing |-> FALSE, step |-> 0, kubeconfig |-> Blank,
           named |-> FALSE, connected |-> Blank]

ImportInit ==
  /\ wizard = Closed /\ previewing = FALSE
  /\ pending = [p \in Places |-> Blank]
  /\ reached = {} /\ crossed = FALSE

-----------------------------------------------------------------------------
HasPlace == \E p \in Places : pending[p] = Blank
Await(c) == HasPlace /\ pending' = [pending EXCEPT
              ![CHOOSE p \in Places :
                  pending[p] = Blank /\ \A q \in 1..(p - 1) : pending[q] # Blank] = c]
Done(p) == pending' = [pending EXCEPT ![p] = Blank]
IsPending(p, kind) == pending[p] # Blank /\ pending[p].kind = kind

(* Form.useWatch('kubeconfig').                                            *)
Watched(w) == IF w.editing \/ w.step = 0 THEN w.kubeconfig ELSE Blank

(* The effect that forgets the precheck when the watched kubeconfig, or    *)
(* what is edited, changes.                                                *)
Render(w) ==
  wizard' = IF ~ w.editing /\ <<Watched(w), w.editing>> # <<Watched(wizard), wizard.editing>>
            THEN [w EXCEPT !.connected = Blank] ELSE w

-----------------------------------------------------------------------------
(* Faulty variant of the definition below: the precheck's error is caught  *)
(* before the step.                                                        *)
PreviewFailsForward(p) ==
  /\ IsPending(p, "preview")
  /\ Render([wizard EXCEPT !.step = 2])
  /\ previewing' = FALSE /\ Done(p)
  /\ UNCHANGED <<reached, crossed>>

-----------------------------------------------------------------------------
(* openClusterDrawer, for a cluster or for a new one.                      *)
OpenDrawer ==
  /\ ~ wizard.open
  /\ \E editing \in BOOLEAN :
       Render([Closed EXCEPT !.open = TRUE, !.editing = editing, !.named = editing])
  /\ crossed' = FALSE
  /\ UNCHANGED <<previewing, pending, reached>>

CloseDrawer ==
  /\ wizard.open
  /\ Render(Closed) /\ crossed' = FALSE
  /\ UNCHANGED <<previewing, pending, reached>>

(* Typing; the spinner covers the steps during a precheck, not the form    *)
(* that edits.                                                             *)
TypeKubeconfig ==
  /\ wizard.open /\ (wizard.editing \/ (wizard.step = 0 /\ ~ previewing))
  /\ \E k \in Fields \ {wizard.kubeconfig} : Render([wizard EXCEPT !.kubeconfig = k])
  /\ UNCHANGED <<previewing, pending, reached, crossed>>

FillName ==
  /\ wizard.open /\ ~ wizard.editing /\ wizard.step = 1 /\ ~ previewing /\ ~ wizard.named
  /\ Render([wizard EXCEPT !.named = TRUE])
  /\ UNCHANGED <<previewing, pending, reached, crossed>>

(* handleClusterFileUpload.                                                *)
ChooseFile ==
  /\ wizard.open /\ ~ wizard.editing /\ wizard.step = 0 /\ ~ previewing
  /\ \E k \in Kubeconfigs :
       Await([kind |-> "upload", kubeconfig |-> k, drawer |-> wizard])
  /\ UNCHANGED <<wizard, previewing, reached, crossed>>

(* The button of the header that goes a step back.                         *)
StepBack ==
  /\ wizard.open /\ ~ wizard.editing /\ wizard.step > 0
  /\ Render([wizard EXCEPT !.step = @ - 1])
  /\ UNCHANGED <<previewing, pending, reached, crossed>>

(* continueClusterWizard, by step: an invalid field keeps the step.        *)
ContinueToName ==
  /\ wizard.open /\ ~ wizard.editing /\ wizard.step = 0 /\ ~ previewing
  /\ wizard.kubeconfig # Blank
  /\ Render([wizard EXCEPT !.step = 1])
  /\ UNCHANGED <<previewing, pending, reached, crossed>>

Preview ==
  /\ wizard.open /\ ~ wizard.editing /\ wizard.step = 1 /\ ~ previewing
  /\ wizard.named /\ wizard.kubeconfig # Blank
  /\ Await([kind |-> "preview", kubeconfig |-> wizard.kubeconfig, drawer |-> wizard])
  /\ previewing' = TRUE
  /\ UNCHANGED <<wizard, reached, crossed>>

(* submitCluster of the last step.                                         *)
SubmitImport ==
  /\ wizard.open /\ ~ wizard.editing /\ wizard.step = 2 /\ ~ previewing
  /\ IF wizard.named /\ wizard.kubeconfig # Blank
     THEN /\ Await([kind |-> "create", kubeconfig |-> wizard.kubeconfig,
                    excused |-> crossed])
          /\ UNCHANGED wizard
     ELSE /\ Render([wizard EXCEPT !.step = IF wizard.named THEN 0 ELSE 1])
          /\ UNCHANGED pending
  /\ UNCHANGED <<previewing, reached, crossed>>

(* submitCluster of the form that edits.                                   *)
SubmitEdit ==
  /\ wizard.open /\ wizard.editing
  /\ Await([kind |-> "update", kubeconfig |-> wizard.kubeconfig, excused |-> crossed])
  /\ UNCHANGED <<wizard, previewing, reached, crossed>>

-----------------------------------------------------------------------------
(* Answers.                                                                *)
Crossing(p) == crossed' = (crossed \/ wizard # pending[p].drawer)

Previewed(p) ==
  /\ IsPending(p, "preview")
  /\ Render([wizard EXCEPT !.step = 2, !.connected = pending[p].kubeconfig])
  /\ reached' = reached \cup {pending[p].kubeconfig}
  /\ previewing' = FALSE /\ Done(p) /\ Crossing(p)

PreviewFails(p) ==
  /\ IsPending(p, "preview")
  /\ previewing' = FALSE /\ Done(p)
  /\ UNCHANGED <<wizard, reached, crossed>>

Uploaded(p) ==
  /\ IsPending(p, "upload")
  /\ Render([wizard EXCEPT !.kubeconfig = pending[p].kubeconfig])
  /\ Done(p) /\ Crossing(p)
  /\ UNCHANGED <<previewing, reached>>

(* Success closes the drawer, whatever it has been opened for meanwhile.   *)
Saved(p) ==
  /\ IsPending(p, "create") \/ IsPending(p, "update")
  /\ Render(Closed) /\ crossed' = FALSE /\ Done(p)
  /\ UNCHANGED <<previewing, reached>>

SaveFails(p) ==
  /\ IsPending(p, "create") \/ IsPending(p, "update") \/ IsPending(p, "upload")
  /\ Done(p)
  /\ UNCHANGED <<wizard, previewing, reached, crossed>>

ImportNext ==
  \/ OpenDrawer \/ CloseDrawer \/ TypeKubeconfig \/ FillName \/ ChooseFile \/ StepBack
  \/ ContinueToName \/ Preview \/ SubmitImport \/ SubmitEdit
  \/ \E p \in Places : Previewed(p) \/ PreviewFails(p) \/ Uploaded(p) \/ Saved(p)
                       \/ SaveFails(p)

(* A cluster is only ever created from a kubeconfig that a precheck could  *)
(* use, and the last step vouches for the kubeconfig it would send: but    *)
(* for an answer that came to another drawer, or other contents, than it   *)
(* was asked from.                                                         *)
ImportWasPreviewed ==
  /\ \A p \in Places : IsPending(p, "create") =>
       pending[p].kubeconfig \in reached \/ pending[p].excused
  /\ wizard.connected \in {Blank, wizard.kubeconfig} \/ crossed
=============================================================================
