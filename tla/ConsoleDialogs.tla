---------------------------- MODULE ConsoleDialogs ----------------------------
(***************************************************************************)
(* The console's dialogs for clusters and accounts, and its review of a    *)
(* resource.  Each covers the page, so a user is in one at a time, and     *)
(* they share nothing but the lists read at the end: a behaviour is one    *)
(* task, chosen at its start.                                              *)
(***************************************************************************)
EXTENDS ConsoleProvision, ConsoleImport, ConsoleAdmin, ResourceReview

CONSTANT Tasks   (* bound: "provision", "import", "admin", "review", one a  *)
                 (* behaviour                                               *)

VARIABLE task

vars == <<task, provisionVars, importVars, adminVars, reviewVars>>

Init ==
  task \in Tasks /\ ProvisionInit /\ ImportInit /\ AdminInit /\ ReviewInit

Next ==
  /\ UNCHANGED task
  /\ \/ /\ task = "provision" /\ ProvisionNext
        /\ UNCHANGED <<importVars, adminVars, reviewVars>>
     \/ /\ task = "import" /\ ImportNext
        /\ UNCHANGED <<provisionVars, adminVars, reviewVars>>
     \/ /\ task = "admin" /\ AdminNext
        /\ UNCHANGED <<provisionVars, importVars, reviewVars>>
     \/ /\ task = "review" /\ ReviewNext
        /\ UNCHANGED <<provisionVars, importVars, adminVars>>

Spec == Init /\ [][Next]_vars /\ ProvisionFairness

TypeOK ==
  /\ task \in Tasks
  /\ ProvisionTypeOK /\ ImportTypeOK /\ AdminTypeOK /\ ReviewTypeOK

(* Nothing is created, neither from parameters nor from a kubeconfig, that *)
(* no check has let pass: but where the answer to a check, or the text of  *)
(* an uploaded file, came after an edit or an opening that it knew nothing *)
(* of, which the code takes for the answer to what is in the form then.    *)
CreatedWasChecked == SubmittedWasChecked /\ ImportWasPreviewed
=============================================================================
