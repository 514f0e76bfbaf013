----------------------------- MODULE ConsolePages -----------------------------
(***************************************************************************)
(* The console's pages that select something and show what was read for    *)
(* it: that of Kubernetes objects, and those of image registries and of    *)
(* Grafana sources.  They share no state, so a behaviour is about one of   *)
(* the two, chosen at its start.                                           *)
(***************************************************************************)
EXTENDS ConsoleWorkloads

CONSTANTS Views,        (* bound: "workloads", "sources", one a behaviour     *)
          SourceKinds, Items,
          MaxSources, MaxAsked, MaxEdits   (* bounds of ConsoleIntegrations   *)

VARIABLES view,
          kind, sources, guarded, page, known, source, cache, shown, picked, modals,
          asked, failed, edits

Src == INSTANCE ConsoleIntegrations
             WITH Kinds <- SourceKinds, MaxCalls <- MaxAsked, sel <- source, calls <- asked

ASSUME SourcesWellFormed == Src!WellFormed

sourceVars == <<kind, sources, guarded, page, known, source, cache, shown, failed, picked,
                modals, asked, edits>>

PagesInit == view \in Views /\ Init /\ Src!Init

PagesNext ==
  /\ UNCHANGED view
  /\ \/ view = "workloads" /\ Next /\ UNCHANGED sourceVars
     \/ view = "sources" /\ Src!Next /\ UNCHANGED vars

PagesSpec == PagesInit /\ [][PagesNext]_<<view, vars, sourceVars>>
             /\ (view = "sources" => Src!Fairness)

PagesTypeOK == view \in Views /\ TypeOK /\ Src!TypeOK

-----------------------------------------------------------------------------
(* What is shown of a registry or a Grafana was read of it, whatever order *)
(* the answers come in (refreshRegistryArtifacts, refreshGrafanaCatalog).  *)
CatalogIsOwn == Src!CatalogIsOwn

(* What is written goes to the Grafana whose folder or dashboard was shown *)
(* (submitGrafanaFolder, submitGrafanaDashboard, submitGrafanaBulkAction). *)
EditsGoHome == Src!EditsGoHome

(* A Grafana that fails is asked again until it answers (the effect that   *)
(* reads a catalog that is not cached).                                    *)
CatalogReturns == Src!CatalogReturns
=============================================================================
