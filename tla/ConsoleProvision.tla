--------------------------- MODULE ConsoleProvision ---------------------------
(***************************************************************************)
(* The console's drawer for creating a cluster: the form and the draft     *)
(* that mirrors it, the precheck that must have passed for what is sent,   *)
(* and the job, asked for again 2.5 s after each answer while it runs.     *)
(*                                                                         *)
(* Parameters are abstracted to the payload built from them.  Requests are *)
(* the closure of the handler that made them: the form's values and the    *)
(* job as they were then.                                                  *)
(***************************************************************************)
EXTENDS Naturals, Sequences

CONSTANTS Payloads,   (* parameters of a cluster, as the form is filled      *)
          Raw,        (* defaultClusterProvisionFormValues, whose template   *)
                      (* or image preset the catalog does not have           *)
          Fallback,   (* the same with those the catalog recommends          *)
          Nil,        (* no check, job or request                            *)
          MaxJobs,    (* bound: jobs accepted in a behaviour                 *)
          MaxAsked,   (* bound: requests in flight                           *)
          MaxLost     (* bound: polls that fail                              *)

ASSUME ProvisionBounds == MaxJobs \in Nat /\ MaxAsked \in Nat /\ MaxLost \in Nat

VARIABLES online,     (* a session, and with it a client                    *)
          catalog,    (* provisionTemplates has been read                   *)
          drawer,     (* clusterProvisionDrawerOpen                         *)
          form,       (* what the form's fields hold                        *)
          draft,      (* clusterProvisionDraft                              *)
          check,      (* clusterProvisionCheckResult and ...Fingerprint     *)
          job,        (* clusterProvisionJob                                *)
          timer,      (* the poll is armed, for the job shown               *)
          loading,    (* clusterProvisionSubmitting and ...CheckLoading     *)
          asked,      (* requests in flight                                 *)
          selected,   (* selectedClusterId, when a job's result             *)
          jobs,       (* the server's jobs                                  *)
          passed,     (* history: payloads a check found ready              *)
          lost        (* history: polls failed, one since the timer was set *)

provisionVars == <<online, catalog, drawer, form, draft, check, job, timer, loading,
                   asked, selected, jobs, passed, lost>>

Statuses == {"running", "succeeded", "failed"}
Values   == Payloads \cup {Raw, Fallback}
Jobs     == [id : 1..MaxJobs, status : Statuses]
Slots    == 1..MaxAsked
Asks     == [kind : {"check", "submit"}, payload : Values]
            \cup [kind : {"poll"}, job : Jobs] \cup [kind : {"clusters"}, job : Jobs]

ProvisionTypeOK ==
  /\ online \in BOOLEAN /\ catalog \in BOOLEAN /\ drawer \in BOOLEAN
  /\ form \in Values /\ draft \in Values
  /\ check \in [payload : Values, ready : BOOLEAN] \cup {Nil}
  /\ job \in Jobs \cup {Nil} /\ timer \in BOOLEAN
  /\ loading \in SUBSET {"check", "submit"}
  /\ asked \in [Slots -> Asks \cup {Nil}]
  /\ selected \in 0..MaxJobs
  /\ jobs \in UNION {[1..n -> Statuses] : n \in 0..MaxJobs}
  /\ passed \in SUBSET Values
  /\ lost \in [count : 0..MaxLost, now : BOOLEAN]

ProvisionInit ==
  /\ online = TRUE /\ catalog = FALSE /\ drawer = FALSE
  /\ form = Raw /\ draft = Raw
  /\ check = Nil /\ job = Nil /\ timer = FALSE /\ loading = {}
  /\ asked = [s \in Slots |-> Nil] /\ selected = 0
  /\ jobs = <<>> /\ passed = {} /\ lost = [count |-> 0, now |-> FALSE]

-----------------------------------------------------------------------------
HasSlot == \E s \in Slots : asked[s] = Nil
Put(a)  == [asked EXCEPT ![CHOOSE s \in Slots :
                             asked[s] = Nil /\ \A q \in 1..(s - 1) : asked[q] # Nil] = a]
Free(s) == [asked EXCEPT ![s] = Nil]
IsAsk(s, kind) == asked[s] # Nil /\ asked[s].kind = kind

isFinalProvisionStatus(status) == status \in {"succeeded", "failed"}

(* clusterProvisionCheckReady.                                             *)
CheckReady == check # Nil /\ check.ready /\ check.payload = draft

(* The effects that replace a template or preset which the catalog, once   *)
(* read, does not have, in the draft and in the form's fields.             *)
Fitted(v, read) == IF read /\ v = Raw THEN Fallback ELSE v
Draft(d, f, read) ==
  /\ draft' = Fitted(d, read)
  /\ form' = IF draft' = d THEN f ELSE Fitted(f, read)

(* Faulty variant of the next: without the job among its dependencies.     *)
ArmOnOpening(on, open, j) ==
  timer' = (on /\ open /\ j # Nil /\ ~ isFinalProvisionStatus(j.status)
            /\ ~ (online /\ drawer /\ job # Nil))
  /\ lost' = lost

(* The effect that arms the timer, whenever the client, the drawer or the  *)
(* job has changed; a job that has been answered again is a new object.    *)
Arm(on, open, j) ==
  LET armed == on /\ open /\ j # Nil /\ ~ isFinalProvisionStatus(j.status) IN
  timer' = armed /\ lost' = [lost EXCEPT !.now = @ /\ ~ armed]

-----------------------------------------------------------------------------
(* Faulty variant of Submit: trusts the check of its render.               *)
SubmitWhenReady ==
  /\ online /\ drawer /\ job = Nil /\ CheckReady /\ "submit" \notin loading
  /\ Draft(form, form, catalog)
  /\ HasSlot /\ asked' = Put([kind |-> "submit", payload |-> form])
  /\ loading' = loading \cup {"submit"}
  /\ UNCHANGED <<online, catalog, drawer, check, job, timer, selected, jobs, passed, lost>>

-----------------------------------------------------------------------------
(* What the administrator does.                                            *)
OpenProvision ==
  /\ online /\ ~ drawer /\ drawer' = TRUE /\ loading' = {}
  /\ job' = IF job # Nil /\ job.status = "failed" THEN Nil ELSE job
  /\ form' = draft
  /\ Arm(TRUE, TRUE, job')
  /\ UNCHANGED <<online, catalog, draft, check, asked, selected, jobs, passed>>

CloseProvision ==
  /\ online /\ drawer /\ drawer' = FALSE /\ loading' = {}
  /\ job' = IF job # Nil /\ job.status = "failed" THEN Nil ELSE job
  /\ Arm(TRUE, FALSE, job')
  /\ UNCHANGED <<online, catalog, form, draft, check, asked, selected, jobs, passed>>

(* handleClusterProvisionFormChange.                                       *)
EditForm ==
  /\ online /\ drawer /\ job = Nil
  /\ \E v \in Values \ {Raw, form} :
       /\ Draft(v, v, catalog)
       /\ check' = IF check # Nil /\ check.payload # v THEN Nil ELSE check
  /\ UNCHANGED <<online, catalog, drawer, job, timer, loading, asked, selected,
                 jobs, passed, lost>>

(* runClusterProvisionPrecheck.                                            *)
Precheck ==
  /\ online /\ drawer /\ job = Nil /\ "check" \notin loading
  /\ HasSlot /\ asked' = Put([kind |-> "check", payload |-> form])
  /\ loading' = loading \cup {"check"}
  /\ UNCHANGED <<online, catalog, drawer, form, draft, check, job, timer, selected,
                 jobs, passed, lost>>

(* submitClusterProvisionJob: the button needs the draft's check to have   *)
(* passed, the handler asks it of the form's values once more.             *)
Submit ==
  /\ online /\ drawer /\ job = Nil /\ CheckReady /\ "submit" \notin loading
  /\ Draft(form, form, catalog)
  /\ IF check.payload = form
     THEN /\ HasSlot /\ asked' = Put([kind |-> "submit", payload |-> form])
          /\ loading' = loading \cup {"submit"}
     ELSE /\ loading' = loading \ {"submit"}
          /\ UNCHANGED asked
  /\ UNCHANGED <<online, catalog, drawer, check, job, timer, selected, jobs, passed, lost>>

(* resetClusterProvisionDrawer, of a job that has ended.                   *)
NewJob ==
  /\ online /\ drawer /\ job # Nil /\ isFinalProvisionStatus(job.status)
  /\ job' = Nil /\ check' = Nil /\ loading' = {}
  /\ Draft(Raw, Raw, catalog)
  /\ Arm(TRUE, TRUE, Nil)
  /\ UNCHANGED <<online, catalog, drawer, asked, selected, jobs, passed>>

(* resumeClusterProvisionEditing, of one that has failed.                  *)
ResumeEditing ==
  /\ online /\ drawer /\ job # Nil /\ job.status = "failed"
  /\ job' = Nil /\ form' = draft
  /\ Arm(TRUE, TRUE, Nil)
  /\ UNCHANGED <<online, catalog, drawer, draft, check, loading, asked, selected,
                 jobs, passed>>

(* The session ends, and another begins: the drawer, its job and what was  *)
(* asked stay as they are.                                                 *)
SessionTurns ==
  /\ online' = ~ online
  /\ Arm(online', drawer, job)
  /\ UNCHANGED <<catalog, drawer, form, draft, check, job, loading, asked, selected,
                 jobs, passed>>

(* The hydration ends with the templates.                                  *)
CatalogArrives ==
  /\ online /\ ~ catalog /\ catalog' = TRUE
  /\ Draft(draft, form, TRUE)
  /\ UNCHANGED <<online, drawer, check, job, timer, loading, asked, selected, jobs,
                 passed, lost>>

(* The timer fires with the job it was set for.                            *)
Poll ==
  /\ timer /\ timer' = FALSE
  /\ HasSlot /\ asked' = Put([kind |-> "poll", job |-> job])
  /\ UNCHANGED <<online, catalog, drawer, form, draft, check, job, loading, selected,
                 jobs, passed, lost>>

-----------------------------------------------------------------------------
(* What the server does and answers.                                       *)

Show(j) == job' = j /\ Arm(online, drawer, j)

CheckAnswered(s) ==
  /\ IsAsk(s, "check")
  /\ \E ready \in BOOLEAN :
       /\ check' = [payload |-> asked[s].payload, ready |-> ready]
       /\ passed' = IF ready THEN passed \cup {asked[s].payload} ELSE passed
  /\ Draft(asked[s].payload, form, catalog)
  /\ loading' = loading \ {"check"} /\ asked' = Free(s)
  /\ UNCHANGED <<online, catalog, drawer, job, timer, selected, jobs, lost>>

Submitted(s) ==
  /\ IsAsk(s, "submit") /\ Len(jobs) < MaxJobs
  /\ jobs' = Append(jobs, "running")
  /\ Show([id |-> Len(jobs) + 1, status |-> "running"])
  /\ loading' = loading \ {"submit"} /\ asked' = Free(s)
  /\ UNCHANGED <<online, catalog, drawer, form, draft, check, selected, passed>>

JobEnds ==
  /\ \E i \in DOMAIN jobs, status \in {"succeeded", "failed"} :
       jobs[i] = "running" /\ jobs' = [jobs EXCEPT ![i] = status]
  /\ UNCHANGED <<online, catalog, drawer, form, draft, check, job, timer, loading,
                 asked, selected, passed, lost>>

(* refreshClusterProvisionJob: the job is shown as answered; one that has  *)
(* succeeded since the poll was set has the clusters read next.            *)
Polled(s) ==
  LET old == asked[s].job
      new == [old EXCEPT !.status = jobs[old.id]]
  IN  /\ IsAsk(s, "poll")
      /\ Show(new)
      /\ asked' = IF new.status = "succeeded" /\ old.status # "succeeded"
                  THEN [asked EXCEPT ![s] = [kind |-> "clusters", job |-> new]]
                  ELSE Free(s)
      /\ UNCHANGED <<online, catalog, drawer, form, draft, check, loading, selected,
                     jobs, passed>>

(* refreshClusters and refreshDashboard have both answered.                *)
ClustersRead(s) ==
  /\ IsAsk(s, "clusters")
  /\ selected' = asked[s].job.id /\ asked' = Free(s)
  /\ UNCHANGED <<online, catalog, drawer, form, draft, check, job, timer, loading,
                 jobs, passed, lost>>

(* A check, a submission or the reading of the clusters fails ...          *)
AskFails(s) ==
  /\ asked[s] # Nil /\ asked[s].kind # "poll"
  /\ loading' = loading \ {asked[s].kind} /\ asked' = Free(s)
  /\ UNCHANGED <<online, catalog, drawer, form, draft, check, job, timer, selected,
                 jobs, passed, lost>>

(* ... or a poll, which leaves the job as it was and sets no timer.        *)
PollFails(s) ==
  /\ IsAsk(s, "poll") /\ lost.count < MaxLost
  /\ lost' = [count |-> lost.count + 1, now |-> ~ timer] /\ asked' = Free(s)
  /\ UNCHANGED <<online, catalog, drawer, form, draft, check, job, timer, loading,
                 selected, jobs, passed>>

ProvisionNext ==
  \/ OpenProvision \/ CloseProvision \/ EditForm \/ Precheck \/ Submit \/ NewJob
  \/ ResumeEditing \/ SessionTurns \/ CatalogArrives \/ Poll \/ JobEnds
  \/ \E s \in Slots : CheckAnswered(s) \/ Submitted(s) \/ Polled(s) \/ ClustersRead(s)
                      \/ AskFails(s) \/ PollFails(s)

(* The timer fires, the server runs its jobs and answers polls; the rest   *)
(* is up to the administrator.                                             *)
ProvisionFairness ==
  /\ WF_provisionVars(Poll) /\ WF_provisionVars(JobEnds)
  /\ \A s \in Slots : WF_provisionVars(Polled(s))

(* What is sent for creation is a payload that a check found ready, also   *)
(* when the form was changed while the check was under way, and when its   *)
(* answer put the draft, but not the form, back to what was checked.       *)
SubmittedWasChecked ==
  \A s \in Slots : IsAsk(s, "submit") => asked[s].payload \in passed

(* A job shown in the open drawer is followed to its end: the console asks *)
(* again until it shows succeeded or failed, unless the drawer is closed,  *)
(* the session ends or a poll is lost, after which nothing asks again.     *)
Following   == online /\ drawer /\ job # Nil /\ ~ isFinalProvisionStatus(job.status)
JobFollowed == Following ~> (~ Following \/ lost.now)
=============================================================================
