--------------------------- MODULE ClusterObjects ---------------------------
(***************************************************************************)
(* What the server's handlers do to the objects of a cluster: batches of   *)
(* documents, updates, deletions, the autoscaler of a workload, Knative's  *)
(* annotations, rollback.  Each is several calls of the API server, and    *)
(* other clients change the same objects in between.                       *)
(*                                                                         *)
(* An object is abstracted to its resource version, the request that       *)
(* created it and whether it scales the workload.  One kind of scaler      *)
(* stands for HPAs and KEDA's ScaledObjects.  A call takes effect at once  *)
(* or never, and any may fail: once its client has hung up, all those of   *)
(* a request do.  What is checked before the first call is left out, and   *)
(* what a failed call does to the cluster's row is in ClusterControl.      *)
(***************************************************************************)
EXTENDS Naturals, SequencesExt

CONSTANTS Requests,     (* each is served once                               *)
          Workload,     (* the name of a workload                            *)
          Scalers,      (* names of scalers                                  *)
          Nil,          (* no object, version, creator or name               *)
          MaxRevision   (* bound: changes of the cluster                     *)

ASSUME ObjectsAssumption ==
  /\ Workload \notin Scalers /\ Nil \notin Scalers \cup {Workload} \cup Requests \cup Nat
  /\ MaxRevision \in Nat \ {0}

VARIABLES objects,    (* in the API server                                  *)
          revision,   (* its last resource version                          *)
          request     (* what each handler holds and where it stands        *)

objectVars == <<objects, revision, request>>

Names     == Scalers \cup {Workload}
Revisions == 1..MaxRevision
Objects   == [version : Revisions, creator : Requests \cup {Nil}, scales : BOOLEAN,
              listed : Revisions \cup {Nil}]   (* history: see FindScaler     *)
Batches   == {<<n>> : n \in Names} \cup (Names \X Names)

Calls ==
  [op : {"create", "update", "delete", "scale", "unscale", "annotate", "rollback"},
   at : {"create", "undo", "check", "find", "read", "write", "delete", "over"},
   batch : Seq(Names),               (* documents still to be created         *)
   created : Seq(Names),             (* createdRefs                           *)
   name : Names \cup {Nil},          (* the object it is about                *)
   version : Revisions \cup {Nil},   (* metadata.resourceVersion it sends     *)
   listed : Revisions \cup {Nil},    (* history: revision of its list         *)
   made : SUBSET Names,              (* history: what it has created          *)
   refused : BOOLEAN,                (* history: the batch was refused        *)
   lost : BOOLEAN]                   (* history: an answer or an undo was     *)

ASSUME NilAssumption == Nil \notin Objects /\ Nil \notin Calls

ObjectsTypeOK ==
  /\ objects \in [Names -> Objects \cup {Nil}]
  /\ revision \in Revisions
  /\ request \in [Requests -> Calls \cup {Nil}]

Exists(n) == objects[n] # Nil

(* A workload that others made.                                            *)
ObjectsInit ==
  /\ revision = 1
  /\ objects = [n \in Names |-> IF n = Workload
                  THEN [version |-> 1, creator |-> Nil, scales |-> FALSE, listed |-> Nil]
                  ELSE Nil]
  /\ request = [r \in Requests |-> Nil]

-----------------------------------------------------------------------------
At(r, step)       == request[r] # Nil /\ request[r].at = step
Become(r, call)   == request' = [request EXCEPT ![r] = call]
Continue(r, step) == Become(r, [request[r] EXCEPT !.at = step])

(* What is left of a call when its handler has returned.                   *)
Over(call) == [call EXCEPT !.at = "over", !.batch = <<>>, !.created = <<>>, !.name = Nil,
                           !.version = Nil, !.listed = Nil, !.made = {}]
Return(r)  == Become(r, Over(request[r]))

(* What an object may be turned into.                                      *)
Scaling(n) == IF n \in Scalers THEN BOOLEAN ELSE {FALSE}

(* The API server's side of a call: POST, PUT or PATCH, DELETE.            *)
Store(n, object) ==
  /\ revision < MaxRevision /\ revision' = revision + 1
  /\ objects' = [objects EXCEPT ![n] = object]
Make(n, r, scales, listed) ==
  /\ ~ Exists(n)
  /\ Store(n, [version |-> revision + 1, creator |-> r, scales |-> scales, listed |-> listed])
Change(n, scales, listed) ==
  /\ Exists(n)
  /\ Store(n, [objects[n] EXCEPT !.version = revision + 1, !.scales = scales,
                                 !.listed = listed])
Delete(n) == Exists(n) /\ Store(n, Nil)
Nothing   == UNCHANGED <<objects, revision>>

-----------------------------------------------------------------------------
(* Faulty variants of definitions below.                                   *)

(* The loop of the undoing ends before the first reference.                *)
MoreButFirst(call) == Len(call.created) > 1

(* A document is noted before it is created.                               *)
RefusedNoted(call) == [call EXCEPT !.at = "undo", !.refused = TRUE,
                                   !.created = Append(@, Head(call.batch))]

(* The update is sent without a resource version.                          *)
AnyVersion(call) == Exists(call.name)

(* The scaler is looked up by the name in the payload.                     *)
NamedScaler(call) == {s \in Scalers : s = call.name /\ Exists(s) /\ objects[s].scales}

-----------------------------------------------------------------------------
(* A request arrives at createResource, updateResource (its manifest has   *)
(* no resource version, or the object's, which may be an old one when it   *)
(* is written), deleteResource, the handlers of autoscaling (with a name   *)
(* for a new scaler, the default one included) or rollbackWorkload.        *)
Call(op, at, batch, name, version) ==
  [op |-> op, at |-> at, batch |-> batch, created |-> <<>>, name |-> name,
   version |-> version, listed |-> Nil, made |-> {},
   refused |-> FALSE, lost |-> FALSE]

Arrive(r) ==
  /\ request[r] = Nil /\ Nothing
  /\ \/ \E batch \in Batches : Become(r, Call("create", "create", batch, Nil, Nil))
     \/ \E n \in Names : \/ Become(r, Call("update", "read", <<>>, n, Nil))
                         \/ /\ Exists(n)
                            /\ Become(r, Call("update", "write", <<>>, n, objects[n].version))
                         \/ Become(r, Call("delete", "delete", <<>>, n, Nil))
     \/ \E s \in Scalers : Become(r, Call("scale", "check", <<>>, s, Nil))
     \/ Become(r, Call("unscale", "check", <<>>, Nil, Nil))
     \/ Become(r, Call("annotate", "check", <<>>, Workload, Nil))
     \/ Become(r, Call("rollback", "read", <<>>, Workload, Nil))

-----------------------------------------------------------------------------
(* createResource: the next document is created and noted; or created, but *)
(* the answer is lost; or refused.                                         *)
Refused(call) == [call EXCEPT !.at = "undo", !.refused = TRUE]

CreateNext(r) ==
  /\ At(r, "create")
  /\ LET call == request[r]
         n    == Head(call.batch)
         made == [call EXCEPT !.made = @ \cup {n}]
     IN \/ /\ \E scales \in Scaling(n) : Make(n, r, scales, Nil)
           /\ \/ /\ Len(call.batch) > 1
                 /\ Become(r, [made EXCEPT !.created = Append(@, n), !.batch = Tail(@)])
              \/ Len(call.batch) = 1 /\ Return(r)
              \/ Become(r, [Refused(made) EXCEPT !.lost = TRUE])
        \/ Become(r, Refused(call)) /\ Nothing

(* rollbackCreatedResources: by name, the last first, and errors ignored.  *)
More(call) == call.created # <<>>

UndoLast(r) ==
  /\ At(r, "undo") /\ More(request[r])
  /\ LET n    == Last(request[r].created)
         rest == [request[r] EXCEPT !.created = Front(@)]
     IN \/ Delete(n) /\ Become(r, rest)
        \/ Become(r, [rest EXCEPT !.lost = @ \/ Exists(n)]) /\ Nothing

Undone(r) ==
  /\ At(r, "undo") /\ ~ More(request[r]) /\ Return(r) /\ Nothing

-----------------------------------------------------------------------------
(* ensureAutoscalingWorkloadExists.                                        *)
CheckWorkload(r) ==
  /\ At(r, "check") /\ Exists(Workload)
  /\ Continue(r, IF request[r].op = "annotate" THEN "read" ELSE "find")
  /\ Nothing

(* findWorkloadHPA, findWorkloadScaledObject: by what a scaler refers to,  *)
(* in whatever order the list has.  A new one keeps the payload's name.    *)
WorkloadScalers(call) == {s \in Scalers : Exists(s) /\ objects[s].scales}

FindScaler(r) ==
  /\ At(r, "find") /\ Nothing
  /\ LET call == [request[r] EXCEPT !.listed = revision,
                    !.at = IF request[r].op = "scale" THEN "write" ELSE "delete"]
     IN \/ \E s \in WorkloadScalers(call) :
             Become(r, [call EXCEPT !.name = s, !.version = objects[s].version])
        \/ /\ WorkloadScalers(call) = {}
           /\ Become(r, IF call.op = "scale" THEN call ELSE Over(call))

(* The GET before an update, or a rollback.                                *)
ReadObject(r) ==
  /\ At(r, "read") /\ Exists(request[r].name) /\ Nothing
  /\ Become(r, [request[r] EXCEPT !.at = "write",
                                  !.version = objects[request[r].name].version])

(* An update is refused unless the object has the version that is sent.    *)
Current(call) == Exists(call.name) /\ objects[call.name].version = call.version

(* The write of updateResource, UpsertWorkloadHPA and its siblings, or the *)
(* rollbacker's patch, which has no version.                               *)
WriteObject(r) ==
  /\ At(r, "write")
  /\ LET call == request[r]
         n    == call.name
     IN \/ /\ call.op = "update" /\ Current(call)
           /\ \E scales \in Scaling(n) : Change(n, scales, Nil)
        \/ call.op = "annotate" /\ Current(call) /\ Change(n, FALSE, Nil)
        \/ call.op = "rollback" /\ Change(n, FALSE, Nil)
        \/ /\ call.op = "scale" /\ call.version # Nil /\ Current(call)
           /\ Change(n, TRUE, objects[n].listed)
        \/ call.op = "scale" /\ call.version = Nil /\ Make(n, r, TRUE, call.listed)
  /\ Return(r)

(* deleteResource, DeleteWorkloadHPA, DeleteWorkloadScaledObject: by name. *)
DeleteObject(r) ==
  /\ At(r, "delete") /\ Delete(request[r].name) /\ Return(r)

(* A call that is refused or fails ends a request other than a batch; so   *)
(* does a workload without Knative's annotations their removal.            *)
CallFails(r) ==
  /\ \E step \in {"check", "find", "read", "write", "delete"} : At(r, step)
  /\ Return(r) /\ Nothing

(* kubectl, controllers, other consoles.                                   *)
OthersAct(n) ==
  /\ UNCHANGED request
  /\ \/ \E scales \in Scaling(n) : Make(n, Nil, scales, Nil) \/ Change(n, scales, Nil)
     \/ Delete(n)

ObjectsNext ==
  \/ \E r \in Requests :
       \/ Arrive(r) \/ CreateNext(r) \/ UndoLast(r) \/ Undone(r)
       \/ CheckWorkload(r) \/ FindScaler(r) \/ ReadObject(r) \/ WriteObject(r)
       \/ DeleteObject(r) \/ CallFails(r)
  \/ \E n \in Names : OthersAct(n)

-----------------------------------------------------------------------------
(* A batch that was refused leaves nothing behind of what it created, also *)
(* where others have changed it since, provided that no answer to it was   *)
(* lost and no deletion failed: as soon as its client hangs up they all do *)
(* (createResource, rollbackCreatedResources under the request's context). *)
BatchIsUndone ==
  \A r \in Requests : At(r, "over") /\ request[r].refused /\ ~ request[r].lost
    => \A n \in Names : Exists(n) => objects[n].creator # r

(* A request to undo a batch or to end scaling deletes no object that had  *)
(* nothing to do with it: the first only names it has created itself, so   *)
(* never the one a document collided with, the second only what scales the *)
(* workload, or has changed since it was found.                            *)
DeletesAreOwn ==
  [][\A r \in Requests, n \in Names :
       request'[r] # request[r] /\ Exists(n) /\ ~ Exists(n)'
       => \/ request[r].op = "delete"
          \/ At(r, "undo") /\ n \in request[r].made
          \/ /\ request[r].op = "unscale"
             /\ objects[n].scales \/ objects[n].version > request[r].listed]_objectVars

(* A workload gets a second scaler only in a race: when the handler that   *)
(* created one has looked for others, the other was not there or scaled    *)
(* something else (UpsertWorkloadHPA, UpsertWorkloadScaledObject).         *)
OneScalerEach ==
  \A s, t \in Scalers :
    /\ s # t /\ Exists(s) /\ Exists(t)
    /\ objects[s].scales /\ objects[t].scales /\ objects[s].listed # Nil
    => objects[t].version > objects[s].listed

(* No request writes over a change that it, or the user whose manifest has *)
(* a version, has not seen; a rollback does, deliberately (updateResource, *)
(* UpsertWorkloadHPA and its siblings).                                    *)
ChangesAreSeen ==
  [][\A r \in Requests, n \in Names :
       /\ request'[r] # request[r] /\ request[r] # Nil /\ request[r].op # "rollback"
       /\ Exists(n) /\ Exists(n)' /\ objects'[n] # objects[n]
       => objects[n].version = request[r].version]_objectVars
=============================================================================
