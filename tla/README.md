# KubeFeel in TLA+

KubeFeel is a web console for several Kubernetes clusters: one Go server (Gin,
GORM over SQLite), one React page, and, outside of it, the API servers of the
clusters, Docker for Kubespray, image registries and Grafana. This directory
models the server's parts and the console's pages that keep state, checks them
with TLC, and proves with TLAPS the safety properties of all of them. Paths below
are relative to `src/internal/` unless they start with `src/`; the console is
`src/frontend/src/AppShell.tsx` and the client it uses, `api/client.ts`.

## 1. The system

| part | state it keeps | operations | talks to |
|---|---|---|---|
| provisioning jobs (`api/provision_jobs.go`) | table `cluster_provision_jobs`, one goroutine per job | accept a job, poll it; the goroutine runs Kubespray, imports the cluster and reports; recovery at start | Kubespray runner, clusters table, node scheduling |
| Kubespray runner (`provision/kubespray.go`) | `jobs/<id>/` on disk with the nodes' private key, a container of the Docker daemon | prepare, pull, probe SSH, `docker run`, collect the kubeconfig | Docker, the nodes |
| clusters (`api/clusters.go`) | table `clusters` | list, get, preview, create, update, delete, test, namespaces; switch `mode` | runtime cache, nodes |
| runtime cache (`kube/client.go`) | `Factory.cache`: id -> client connection, under a mutex per map access | `Runtime`, `Invalidate` | API servers |
| node scheduling (`kube/nodes.go`) | `spec.unschedulable` of the worker nodes | cordon, uncordon, one node at a time | API servers |
| registries (`api/registries.go`) | table, artifact cache (45 s) | create, update, delete, test, list artifacts | registries |
| Grafana (`api/observability.go`) | table, session cache (30 min at most) | create, update, delete, test, catalogue, folders, dashboards, reverse proxy | Grafana |
| users and roles (`api/rbac.go`, `rbac/catalog.go`, `api/middleware.go`) | tables `users`, `roles`, `permissions` and two join tables | create, update, delete; login; admission of every request; `Seed` at start | every handler |
| resources, autoscaling, history (`api/resources.go`, `kube/workload_*.go`) | none; objects of the API servers | create several documents with rollback, update, delete, HPA/KEDA/Knative upsert, roll back to a revision | API servers |
| Helm templates (`helm/`) | none; release records in the cluster | install or upgrade | API servers |
| pods (`api/pod_ops.go`, `kube/pod_streams.go`) | a terminal session's goroutines, pipe and size queue | logs, terminal, files | API servers |
| inspection, statistics, dashboard | none | computed per request | API servers |
| console: session (`ConsoleSession`'s part of `AppShell.tsx`) | the session, its copy in `localStorage`, the view, the lists shown | login, logout, a refused call, hydration, reload | the server |
| console: pod streams | a log stream, a terminal and its socket | open, choose pod and container, close | the server |
| console: cluster, account and review dialogs | the drawers' steps, forms, checks, a job that is followed | provision, import, edit, delete, review | the server |
| console: Kubernetes objects | cluster, kind and namespace selected; list, detail and its panels; editor | select, open, edit, save, delete, roll back, scale | the server |
| console: registries and Grafana | source selected, catalogs cached, modals | select, refresh, move, delete, in bulk too | the server |

How they interact. Every handler is a goroutine of its own; nothing but single
map accesses is locked, and SQLite is opened without foreign keys and without
default transactions, so what is atomic is one SQL statement, one map access,
one call of a foreign server. A handler loads a row, waits for a foreign server
(seconds), then saves *all* columns of its copy; `db.Save` of a row that is
gone inserts it again. Provisioning and `/api/clusters` share the clusters
table and the nodes; all handlers of resources share the runtime cache with
them. A restart loses goroutines and caches and keeps tables, files, nodes and
running containers. The console is single-threaded: a handler runs to its first await with
the effects of its render, and each answer finds whatever state the page is in
by then. No request is cancelled but a log stream's.

What is hard, and therefore what the properties are about:

* copies saved late: lost updates and rows that come back after deletion;
* caches filled by a handler that read before a change and stored after it;
* work on several nodes, or in several statements, that stops in the middle;
* crashes between a write and the report of it, and recovery at start;
* answers in the console that come after the session, the cluster, the drawer
  or the source they were asked for has changed, and writes made of an object
  that was read elsewhere;
* names and ids: a name checked an hour before it is used, ids that other
  tables, caches and sessions go on naming after the row is gone.

What makes each part correct: a job row tells the truth about the cluster it
made and settles once; a cluster's mode is what its nodes are in, and its
connection is its own kubeconfig's; a cached listing or session is its row's;
roles and users are what was last asked for, what is deleted stays deleted, and
a start restores the administrator; a batch of objects is created as a whole or
not at all, and no write covers a change its author has not seen; a terminal
session winds up however it ends. The console has the
session its user asked for and shows what that session read; what it sends was
checked as it is and goes where it was read; what is selected has what it shows
read. The console does not reach this where answers come late; sections 3 and 4
say what is excepted.

## 2. Modules

| module | models | state |
|---|---|---|
| `GormTable` | `db.Save`, `db.Delete` and the unique index, as used by all others | - |
| `JobLifecycle` | abstract: what polls of a job may see | `status`, `result` |
| `Provisioning` | jobs, goroutines, runner, import, recovery, administrators' calls on the same table | see below |
| `ProvisioningProofs` | theorems about `Provisioning` | |
| `ClusterControl` | handlers of `/api/clusters`, `kube.Factory`, nodes | rows, cache, cordoned nodes, handlers |
| `ClusterControlProofs` | theorems about `ClusterControl` | |
| `RegistryCache` | handlers of `/api/registries`, artifact cache | rows, cache, clock, handlers |
| `GrafanaSession` | one data source, its session, retry and proxy | row, session, Grafana's cookies, handlers |
| `MCIntegrations` | `RegistryCache` and `GrafanaSession`, one a behaviour | which |
| `IntegrationsProofs` | theorems about the two, as they are composed | |
| `Access` | users, roles, login, admission, `Seed` | four tables, seed stage, handlers |
| `AccessProofs` | theorems about `Access` | |
| `ClusterObjects` | batches, updates, deletions, autoscaling and rollback of a cluster's objects | objects, their versions, handlers' calls |
| `PodTerminal` | a terminal in a container, with its goroutines | socket, pipe, queue of sizes, goroutines, process |
| `ClusterWork` | the two above, one a behaviour | which |
| `ClusterWorkProofs` | theorems about `ClusterWork` | |
| `ConsoleSession` | login, logout, 401, hydration, reload, the views a user may open | session, storage, view, lists, calls |
| `ConsoleStreams` | a pod's log and terminal; EXTENDS `ConsoleSession` | streams, sockets, modals |
| `ConsoleStreamsProofs` | theorems about the two above | |
| `ConsoleProvision` | the provisioning drawer: form, draft, precheck, polls | drawer, job, timer, the server's jobs |
| `ConsoleImport` | the wizard for a kubeconfig, and the form that edits a cluster | drawer, requests |
| `ConsoleAdmin` | forms and lists of users, roles and clusters | tables' versions, lists, reads, writes |
| `ResourceReview` | `buildYamlDiffLines` and `buildYamlDiffRows`, a cell or a line a step | table, walk, rows |
| `ConsoleDialogs` | the four above, one a behaviour | which |
| `ConsoleDialogsProofs` | theorems about `ConsoleDialogs` and its parts | |
| `ConsoleWorkloads` | the Kubernetes objects page | selection, list, detail, editor, calls |
| `ConsoleIntegrations` | the pages of registries and of Grafana | sources, cache, snapshot, modal, calls |
| `ConsolePages` | the two above, one a behaviour | which |
| `ConsolePagesProofs` | theorems about `ConsolePages` and its parts | |
| `MC*` | the instances for TLC: symmetry; bounds are in the `.cfg` files | |

All modules have one shape. A handler (or goroutine) is a record, or a `pc`,
that names its next step; one action is one atomic step of the code, with the
code's early returns and error paths as further disjuncts. A foreign server may
answer or fail at each call. Requests arrive at any time until a bound on their
number is used up. Variables marked *history* only record what a property needs
to name (what was submitted, who overlapped); no guard reads them.

**Provisioning.** `CheckName`, `InsertJob` are the two halves of the POST
(`createClusterProvisionJob`), so that a name can be taken between them.
`Start` .. `Finish` are `runClusterProvisionJob`; `PrepareJob` ..
`CollectArtifact` are `Runner.Run`, with `FailInRun` for its error returns and
`RemoveKey` for the deferred `os.Remove`. `LoseDocker` is a `docker run` whose
client fails while the container goes on. Every `updateJob` may fail unnoticed
(`unsaved`). `Load`, `SaveLoaded`, `DeleteLoaded`, `Register` are what the
other handlers do to the clusters table. `Crash`, `Restart`,
`RecoverProvisionJobs` are the end of the process and `NewServer`.

**ClusterControl.** `View`, `Create`, `Update`, `DeleteTestUse` are the
requests; they run through `Fetch`/`StoreRuntime` (`Factory.Runtime`: look up,
build, store), `Invalidate`, `ListWorkers`/`PatchWorker`
(`SetWorkerNodesSchedulable`), `CallServer`, `DetectVersions`, `CheckHealth`,
`SaveRow`, `DeleteRow`, in the order each handler has. Row names are left out;
that `db.Save` may fail is not. `Over` ends a row: in `listClusters` the next one
begins, with no runtime in hand. Each kubeconfig leads to a cluster of its own;
nodes changed from outside the platform are not modelled.

**RegistryCache.** `Lookup` and `Judge` are the two halves of
`loadRegistryArtifactCache` (read under the lock, judged after it). An artifact
list is abstracted to the place it was listed from. A restart is left out: it
empties the cache and drops the handlers, which is where the model starts.

**GrafanaSession.** `Ensure`, `DropExpired`, `Login`, `StoreSession` are
`ensureGrafanaSession`; `SendRequests`, `DropForRetry` are
`withGrafanaSessionRetry`, whose second attempt drops nothing when it is refused
(`api/observability.go:992`; `refused` records who saw it); `MarkConnected`, `Forward`, `RefreshSession`,
`DropDead` are `proxyGrafana` with `ModifyResponse`. A cookie is an account and
a number; whether Grafana accepts another account's cookie is left open,
because an update may change the account and stay at the same server.

**Access.** gorm writes associations with their owner. So a handler's copy of a
user is written as row (`SaveUser`), its roles with their keys (`SaveRoles`),
its joins (`BindUser`), and, for `Association.Replace`, once more and trimmed
(`RebindUser`, `TrimUser`); roles alike (`SaveRole`/`CreateRole`, `BindRole`,
`TrimRole`). `login` updates one column and takes the same way. An INSERT puts
the column's default where `active` is false, so a user created as inactive is
active (`api/rbac.go:74-79`); what was asked is recorded as it was asked
(`UserAsks`), and `Stored` in `UserAsAsked` names this one difference. Of the statements of `Seed`,
the loop over permissions is taken as done. The permission a request needs is
read from the tables in the model itself, so only somebody admitted acts.

**ClusterObjects.** A request is a record that holds what its handler has in
hand: the documents left and the references noted (`CreateNext`, `UndoLast`,
`Undone`), the name and the resource version it will send (`FindScaler`,
`ReadObject`, `WriteObject`), the step it is in. `Store` and its users are the
API server: every write gets the next version, a PUT is refused unless the
version is the object's (`Current`), POST unless the name is free. `OthersAct`
is anybody else at the same API server, and may do anything to an object between
two steps of a handler. Any call may fail. A creation or a deletion that took
effect may be reported as failed (`lost`): the undoing runs under the request's
context, so that this is also what a client that hangs up does to it. An object
is a version, who created it and whether it scales the workload.

**PodTerminal.** The handler greets, probes one shell after the other, connects,
streams and unwinds; the reader takes what the browser sends and hands input to
an `io.Pipe` and sizes to the queue; the copier, the printer and the resizer are
client-go's goroutines, modelled from how they are used. `TryPut`, `Drain` and
`Put` are the three channel operations of `terminalSizeQueue.Push`, between
which the resizer may take sizes.

**ConsoleSession** and **ConsoleStreams.** `SubmitLogin`, `Logout`,
`Refresh`, `OpenView`, `ReadList` and `Reload` are what a user does; `LoggedIn`
.. `GotList` the answers, each with the token it was asked with; `Unauthorized`
is the callback `onUnauthorized` that a client is made with. `Fill` is
`hydrateWorkspace`'s part after `/auth/me`. A list stands for all lists that
login, logout and a 401 treat alike. `RunLogs` and `RunTerm` are the two
effects; a socket that was closed still has its close event to deliver, and
`Hear` is what its handlers, which stay installed, do with it.

**ConsoleDialogs.** A dialog covers the page, so the four parts share nothing
but the lists read at the end: `task` is chosen at the start. In
`ConsoleProvision` the form and the draft are two (`Fitted`, `Draft` are the
effects that mirror one into the other), `Arm` is the timer of 2.5 s, set again
only when the job held changes. In `ConsoleImport`, `Watched` is the field as
`Form.useWatch` sees it, empty in a step that does not show it. In
`ConsoleAdmin` a read is served by the server in one step and shown in another,
so that two of them can cross; a write that is answered with an error, or not at
all, may still change its table (`WriteFails`, `TakesEffect`). `ResourceReview` has one step per cell, line and
row; the table is a state variable.

**ConsoleWorkloads.** `Select` is what a change of the cluster, the kind or the
namespace does with all its effects; `GotNamespaces` .. `GotPanel` are answers;
`Written` and `Fails` are those to writes. An object is the place it was read at
and its name. The two runs of `ConsolePages` choose one part each and give the
constants of the other the least it can start with.

**ConsoleIntegrations.** Registries and Grafana are handled alike but for what
empties the cache, so one module has both, `kind` says which. `Render` is the
effect that shows what the cache has of the source selected and asks for a
catalog that it has not; `BulkStep` is one call of a bulk action. There is one
modal of each kind; `Opened` replaces one that is open, as `GotMeta` does with an
answer that comes while the user is at another dashboard.

## 3. Runs

| run | bounds | states | shows |
|---|---|---|---|
| `provisioning` | 2 jobs, 1 other handler, 1 name, 3 rows, 1 crash | 0.35 M | a job's result is the cluster it imported and no other; no row is unfinished without a goroutine; the key is on disk only in `Runner.Run`; settled rows are final; deleted clusters stay deleted unless a copy is still held; the rows implement `JobLifecycle`; every accepted job settles, or the write that settles it was lost |
| `provisioning_interrupted` | 1 job, 1 crash | violation | see Findings |
| `cluster_modes` | 2 handlers, 1 row, 2 kubeconfigs, 2 workers, 3 requests, 1 restart | 2.0 M | a mode reported as applied is the nodes' mode; a cluster in maintenance has all workers cordoned unless calls overlapped or stopped halfway |
| `cluster_cache` | 2 handlers, 2 rows, 2 kubeconfigs, 4 requests | 0.6 M | no cluster is served with another's kubeconfig; the cache is the row's when calls did not overlap; a connection test repairs it |
| `cluster_console` | 1 handler, 1 kubeconfig, 2 workers, 3 requests | violation | see Findings |
| `integrations` | 2 handlers; 2 registries with 2 namespaces, 2 rows, 5 requests, TTL 1 of 3 ticks; 2 accounts with passwords and 1 token, 3 cookies, 5 requests | 4.3 M | a cached listing is the registry's own and of the row's place, but for one TTL after an overlap; the session is the row's account's; one refused at a first attempt or in the proxy is not used again |
| `access` | 2 handlers, 2 user names, 3 role names, 3 requests or crashes | 3.9 M | users and roles are as last asked; built-in roles stay; each start restores the administrator |
| `cluster_work` | 2 requests, 2 scalers, 4 resource versions (3 writes); queue of 2, 2 shells, 2 messages on the wire, 5 sizes | 1.2 M | a refused batch is undone, and nothing that is not its own; a second autoscaler takes a race; no write covers a change unseen; the process has the last size of the window; a terminal winds up however it ends |
| `console` | an administrator's login and one of a user with one of two rights, 2 requests in flight, 1 cluster, 1 pod with 2 containers, 2 sockets; the artifacts of the registries are read again | 3.1 M | the session is one asked for; the dashboard, the clusters and the users on screen were read by it, and what else may survive is named; what is streamed is of the pod shown |
| `console_dialogs` | 3 sets of parameters, 1 job, 1 lost poll; 2 kubeconfigs; 2 writes; texts of up to 3 lines over 3 lines | 0.8 M | what is created was checked as it is; lists catch up with writes that succeeded; a job is followed to its end unless a poll is lost; the review is sound, shortest and complete |
| `console_workloads` | 2 clusters, one with a namespace more, 2 kinds, 1 name, 2 panels, 2 selections, 3 drawers, 3 requests | 3.2 M | what is selected has what it shows read; a write goes where its object was read; what answered too late, the rows of another selection and the editor a selection leaves open are excepted |
| `console_integrations` | both kinds, 2 sources, 1 uid, 2 modals asked for, 2 requests | 0.27 M | the catalog shown is the source's own; an edit goes where it was read, unless the selection or a late answer changed its modal; a catalog that can be read is shown in the end |

Why the bounds are enough. The hazards on the server are between two handlers
(or a job and a handler) on one row, after at most one crash; a third request
sets the scene (creates the row, or uses it afterwards). Two rows, two
kubeconfigs, two namespaces or two jobs are what it takes to mistake one for the
other. Two workers make a half-done switch, one retry and one expiry a second
login. Three writes are one
of a request, one of another request or client between its steps, and one after
both; a batch of two documents has a first to be undone and a second to be
refused. The queue of sizes holds 8 in the program (`kube/pod_streams.go:404`): 2 are
enough to be full with an oldest and a newest, and 5 sizes to fill it, what is on
the wire and the resizer's hand at once; the proof is for any length. Of eleven
shells two are tried, the first and another. The clock of the registry cache runs
to three times the TTL so that
entries stored late expire within the run. In the console a hazard is an answer
that finds another selection: two of each thing that can be selected, two or
three requests to cross, one change more than it takes to come back. Three lines
over three contents give a comparison with every kind of line, and equal lines
that may be matched in more than one way. Of the lists that a page of `console`
reads again one is enough for a late answer; it is the one that may reach another
account without. That the selected cluster moves when clusters are read is there
with the hydrations; the proof is for any lists.

Exceptions in the properties. Several properties hold only "unless calls
overlapped", or, in the console, unless an answer came late. That is not
caution: without the exception TLC finds a lost update, a stale store or an
answer shown beside another selection, because the code has neither locks nor
conditional writes, and cancels no request. The exception is tied to the object
(row, user, role, list, panel, drawer) and to a handler or call that was under
way when the object changed, so the property still binds all other objects. How
long it lasts differs. In `RegistryCache` it ends with the TTL, in `Access` with
the next request that changes the thing alone and finishes, in the console when
what answered late is replaced. `mishaps` of `ClusterControl` is never cleared:
`CacheFresh`, `SwitchTakesEffect` and `MaintenanceHonest` say nothing more of a
row on which calls once overlapped, only `RuntimeIsOwn` and `TestHeals` do. The
histories are `behind` (`ConsoleAdmin`: a list has a reason to be out of date:
answers that crossed, a reading that failed, a write that took effect although it
was answered with an error, or a role that changed under the list of users),
`late` and `crossed` in `ConsoleWorkloads`, `crossed` in `ConsoleImport`,
`overtaken` in `ConsoleSession`, `excused` in requests and modals; the comment at
each property says what they admit. Where an exception is what the code does
wrong under a late answer, the property does not claim otherwise: it shows that
nothing else goes wrong. `ShownIsSessions` names the lists it excepts, so that a
list which one of the ways to end a session forgets to clear is not excepted by
itself: of the five that survive a logout, the artifacts of the registries are
shown to the next account even after its hydration.

Each property has a mutant in `PROJECT.json`: a faulty variant of one action,
defined in the module above the action it stands for, which breaks it. Every
module states a type invariant; the runs check it where it guards something
that is easily got wrong, and spend their time on other properties elsewhere.
It is proved for all modules.

Fairness. Four runs assume some. `provisioning`: goroutines are scheduled (weak
fairness of each `JobStep`), launchd restarts the server (`KeepAlive` in
`src/scripts/install_local_service.sh:160-163`), and a Kubespray run ends. The
last one is an assumption about the container: `docker run` is started without a
deadline, and a job hangs as long as its playbook does. `console_dialogs`
(`ProvisionFairness`): the timer fires, the server's job ends, a poll is
answered; that it may fail is up to TLC. `console_integrations`: a catalog asked
for again and again is answered some day (strong fairness of `GotCatalog` for
each source): it may fail any number of times before. `cluster_work`
(`TerminalFairness`): goroutines are scheduled, the API server answers or fails,
output ends with its process, and a shell whose input has ended ends; the shell
may run for ever while its input is open, and the browser may stay for ever.
Nothing is assumed of
users, administrators, other handlers, or of Docker staying up. `CHECK_DEADLOCK
FALSE` is set everywhere because a behaviour stops when its requests are used
up.

### Findings

* `provisioning_interrupted`: after a restart the row says that the job was
  interrupted and should be submitted again (`api/provision_jobs.go:241`); the
  Kubespray container is a child of the Docker daemon and may still be changing
  the nodes.
* `cluster_console`: the console says of a connected cluster in maintenance that
  its workers are cordoned (`src/frontend/src/AppShell.tsx:11502-11506`). A
  switch to ready that fails after the first worker keeps the mode, and
  `testCluster` makes the row connected again without looking at the nodes. An
  update with a new kubeconfig whose mode cannot be applied ends the same way.

## 4. Proofs

**Provisioning.** `ProvisioningProofs` proves, for every set of jobs, handlers
and names and for every bound, all safety properties of `Provisioning` that the
run `provisioning` checks, that a settled row never changes again
(`TerminalIsFinal`, which the refinement implies, so the run leaves it out), and
the refinement of `JobLifecycle`. The assumptions
are those of the module: `PlatformAssumption` (the mark for rows that no job
imported is not a job) and `BoundsAssumption` (the bounds are naturals).

The argument. `IndInv` is inductive. Its parts are `TypeOK`; `PhasesAgree`,
which says for each step of a goroutine what its row, its request and its copy
of the cluster look like; and `IdsInv`: ids in rows, copies and goroutines are
below the table's sequence (so a new row takes none of them), an id was
imported by at most one job, a row with that id has that job as its origin, and
a job reports no other id. Without the first, `Register` could reuse an id a
job reports; without the third, a late `db.Save` could write another origin
under it; `PhasesAgree` carries from the INSERT to the report that the
goroutine still holds what it inserted. `ResultTracksImport`, `NoZombieJob`,
`KeyScope` are inductive relative to these; `ResultNeverForeign`,
`TerminalIsFinal`, `GoneForGood` follow from them. For the refinement,
`JobRowStep` maps each step to a step of `JobLifecycle` or a stutter.

**The console's session and streams.** `ConsoleStreamsProofs` proves, for any
rights, any number of logins and of requests in flight, and any clusters, pods,
containers and sockets, all properties of the run `console`:
`SessionIsEarnedHolds`, `ShownIsSessionsHolds`, `StreamsAreCurrentHolds`, and
`ConsoleTypesHold`. Assumptions: `SessionBounds` and `MaxSocketsAssumption` (the
bounds are naturals), `NoneAssumption` and `NoneIsNothing` (the mark for "none" is
no session, request, token, cluster, container or socket).

The argument. For the session, what may still happen is in the requests in
flight: each has the token of the last login, or of a session whose end overtook
it (`Known`). While nobody is logged in, or a login is on its way, all of them
are of the second kind, and so is what is on screen of the lists that every end
of a session clears (`OverInv`): the next token is new, so nothing in flight can
pass for it. An answer changes the requests only to what follows from them
(`Onwards`), which is shown once for all actions. That the view shown is the
first one allowed needs a first place in the menu, by well-founded induction on
naturals. For the streams, `LogsCurrent` and `TermCurrent` are stated beside a
cluster and a token, not beside the console's: so each effect is shown once to
leave the right connection for the cluster and the token it runs with
(`RunLogsCurrent`, `RunTermCurrent`), and the actions that change either one have
only to say with which the effects run. To the properties they add that a modal
is open only beside a session and a cluster, without which the end of a session
with no cluster selected, where no effect runs, could leave a connection; and that
a terminal gets a socket only after its modal has opened, without which a status
of a socket now gone could stay.

**The console's dialogs and its review.** `ConsoleDialogsProofs` proves all
safety properties of the run `console_dialogs`, for any number of parameters,
kubeconfigs, jobs, writes and requests in flight and for texts of any length over
any lines: that nothing is created that no check has let pass,
unless an answer came to another drawer than had asked (`CreatedWasCheckedHolds`); that lists catch up with the writes,
but for three kinds of list that the property names (`ListsCatchUpHolds`); that the comparison accounts for every line of both texts
once, in order and under its number (`ReviewIsSound`); that no way to match the
two texts keeps more lines (`ReviewIsShortest`); that the rows lose no line
(`RowsLoseNothingHolds`); and that all values stay of their types, so that no cell
of the table and no line is read out of bounds (`DialogTypesHold`). Assumptions:
`ProvisionBounds` and `AdminBounds` (the bounds are naturals) and `LineAssumption`
(the mark for "no line" is not a line).

Nothing is shared between the dialogs, so each has an invariant of its own
(`OneTask`). `CheckedInv`: a check that says ready has the server's word for its
payload, and a job the console knows of is one of the server's. `PreviewedInv`:
unless an answer has come to another drawer than it was asked from, the wizard at
its last step has a kubeconfig that a precheck could use; this needs to be known
of all answers on their way (`AskedFrom`), since each of them may be the next to
change the wizard, and of the effect that forgets a precheck (`RenderFacts`).
`CaughtUpInv`: a list that is not behind shows its tables as they are, or an
answer is on its way that does (`WillShow`). An older answer may come in between;
that it then puts the list back, and so counts as behind, holds as nothing shown
or read is ahead of the tables (`NotAhead`).

For the review the invariant has five parts. `Bookkeeping` says how the numbers
and the positions of the walk belong together; `Sound` that the lines found so
far cover what was walked; `Table` that every filled cell is what the recurrence
says (`TableIsFilled`) and bounds every matching of the two texts from there on
(`TableIsBound`); `PromiseIsKept` that the lines kept so far and the promise of
the cell the walk is at sum up to the first cell; `RowsInv` that each line read
is in the rows or still pending, and that what is pending came after the last
unchanged line (`Collected`, a fact about sequences that three lemmas carry through
a flush, a line put by and a line passed). The bound is the heart: a matching of two suffixes with different first lines leaves one of them
out; with equal ones it loses at most one pair with them. Because the table is a
state variable, filled a cell a step, this is an invariant of a state machine
and no induction over data is needed. `FiniteSetTheorems` gives the
cardinalities.

**Work in a cluster.** `ClusterWorkProofs` proves, for any number of requests,
scalers, writes, shells, messages and sizes and any length of the queue, every
safety property of the run `cluster_work`: `BatchUndoneHolds`,
`DeletesOwnHolds`, `OneScalerHolds`, `ChangesSeenHolds`, `LastSizeHolds`. The
assumptions are `ObjectsAssumption`, `NilAssumption` (the mark for "none" is no
name, version, object or call) and `TerminalBounds`.

The argument. None of the properties is inductive. For the objects `ObjectsInv`
adds what a handler may rely on between its steps (`CallGood`): `ListComplete`,
that what its list did not have came, and what it had has changed, after the
list; `OwnNoted`, that what a batch created and still exists is among its
references; `CallFits`, what a call holds in each step; and `VersionsGrow`. A
scaler remembers the revision of its maker's list, and `OneScalerEach` compares
it with the version of the other: the new one is either later than the list, or
was not in it. Since a write of one handler is a change like anybody else's to
all others, `OthersGood` shows once that any write keeps their part, and each
action is left with its own request. The two action properties follow from
`WriteSeen` and `OtherStepsKeep`, which say what each step may do to an object
that exists. For the terminal, `TerminalInv` follows the size sent last:
`SentOrRead` says that it is the last on the wire or the last the reader has
read, `ReadOrSent` that the last read, once it was pushed, is the newest of the
queue, or with an empty queue the one being sent, or the process's. While the
reader pushes, `ReadOrSent` promises nothing: what it drains from a full queue
is older than what it has in hand.

**Clusters.** `ClusterControlProofs` proves, for any number of handlers, rows,
kubeconfigs, workers, requests and restarts, every safety property of
`ClusterControl` that the runs `cluster_modes` and `cluster_cache` check and
that the code has: `RuntimeIsOwnHolds`, `CacheFreshHolds`, `TestHealsHolds`,
`SwitchTakesEffectHolds`, `MaintenanceHonestHolds`. Assumptions:
`BoundsAssumption` and `NothingAssumption` (the mark for "none" is no kubeconfig
and no call).

The argument. `OwnInv` follows the kubeconfigs through the four places that hold
one: a row, a handler's copy of a row, an entry of the runtime cache, a runtime
in use. Each was given for the id it is kept under (`Known`, `Sound`), and every
such id is below the table's sequence. The second part is what makes it
inductive: `createCluster` writes under a new id, and without it that id could
have something in the cache or in a handler's hands. `NewestFacts` shows that
`listClusters` has a newest row to go on with, by well-founded induction on ids
(from the library, for a fixed relation).

The other four rest on `Promised`, relative to `OwnInv`. None of them is
inductive, as a handler reads the row at its start and uses the copy many steps
later. `CopyOK` says what the copy is worth: unless somebody overlapped on the
row, it agrees with the table (`Kept`) and the cache has nothing or the copy's
kubeconfig. The exception is a request that still carries a mode or a kubeconfig
to the nodes (`Switching`), whose copy is ahead of the table; `SwitchOK` says for
it that the workers yet to be patched are all that are not as wanted. `RowOK` says
the same of a row that nobody is switching, and `Apart` that two requests on one
row know of each other, so that the history of mishaps misses none: a step of one
request then cannot disturb what another was promised (`Touches`, `CallKept`).
`HealOK` follows a test through the invalidation, the fetch and the probe.
A request that stops halfway leaves a row that differs from the nodes but not from
the cache, which is why `CacheFresh` admits that mishap and `MaintenanceHonest`
does not. TLC checked `OwnInv /\ Promised` on the constants of both runs before
the proof was tried.

**Registries.** `IntegrationsProofs` proves, for any number of handlers,
registries, namespaces and requests, any TTL and any length of time,
`ListedIsOwnHolds` and `CacheCurrentHolds`, under `BoundsAssumption` and
`NothingAssumption` (the mark for "none" is no call, entry or time). Here and for
Grafana the specification is `EitherSpec`, the one TLC runs, in which each
behaviour is about one of the two: the invariant of either is proved of its own
steps, and the other's leave it alone.

The argument. Places are followed as kubeconfigs are above. For the second,
`CurrentInv` leaves the clock out: an entry that is not of the row's place, when
no handler is about to clear the cache, was loaded no later than the row's last
mishap. An entry still served is younger than the TTL, so the mishap is too; the
step that lets time pass needs no case of its own.

**Grafana.** `IntegrationsProofs` proves, for any number of handlers, accounts,
cookies and requests, `SessionIsRowsHolds` and `RefusedIsGoneHolds`, under
`GrafanaWellFormed` (the bounds are naturals; the mark for "none" is no account,
cookie, entry or call).

The argument. A cookie that a handler is about to put into the session
(`Pending`) is a number Grafana has given, is not in the session, was never seen
to be refused, and no other handler has it (`Fresh`, `Apart`): so what is put is
new, and what another handler sees refused is something else. A handler learns
cookies only from the session, where none is pending, or from Grafana (`Mine`).
What each step may do to the session, to the row and to what is known to be
refused (`SessionStep`, `RowStep`, `RefusedStep`) is enough to keep the other
handlers' part (`OthersKept`), so that each action is left with its own call. A
write of the row puts every call so far behind it; `Rightful` speaks only of
calls that are not.

**Users and roles.** `AccessProofs` proves, for any number of requests, users,
roles and keys and through any number of crashes, all four properties that the
run `access` checks: `RoleAsAskedHolds`, `UserAsAskedHolds`, `BuiltInsStayHolds`,
`SeedRestoresHolds`. Assumptions: those of `Access` on names, keys and bounds, and
`NothingAssumption` (the mark for "none" is no user and no call).

The argument. `Types` says what a call holds at each stage of its operation
(`Shaped`), that ids and names are unique in both tables, and that every id in
use is below its table's sequence; the rest is relative to it. A role stays
built in because its row and all copies of it agree on the flag (`OneFlag`);
`Seeded` says how far a start has come. The hard ones are the first two: gorm
writes the copies in a handler's hands back. In `RolesInv` and `UsersInv`, a call
that is not behind with a thing holds of it what the tables have, so that
writing the copy back changes nothing (`SameRole`, `SameUser`); one that is
behind blurs what it writes, and the property excuses it. An update that leaves
keys or roles out keeps what was there; that this is what was asked holds unless
another call is still at the same thing (`Others`), which will then settle or
blur it. `RoleStep` and `UserStep` show once what a step must do for the
invariant to go on; each action is left with the thing it is about.

**The console's Kubernetes objects page.** `ConsolePagesProofs` proves
`ShownIsSelectedHolds` and `WritesGoHomeHolds` for any clusters, kinds, names and
namespaces, any of the panels and any number of selections, drawers and requests
in flight. Assumptions: `WorkloadBounds`, `PanelsAssumption` (the panels are
those the code has) and `NoneAssumption`.

The argument. A write is made long after the object it is about was read: the
drawer takes an object from an answer, a panel is read for it, a form is filled
from the panel, a dialog asks first. `WritesGoHome` therefore needs to know of
each of these what it holds: `DetailInv`, that the drawer's object is of the
selection (or the drawer is `crossed`); `PanelsInv`, that a panel is the
object's, empty, or `late`; `FormInv` and `EditorInv`, the same of a form over
the drawer and of the editor; `WritesInv`, of a dialog and of what is in flight.
A change of the selection (`SelectKeeps`) empties the drawer, so that all but the
editor hold of nothing, and asks anew for what was shown (`ListsInv`). The one
answer that may break it is an object for the drawer (`ShowObjectKeeps`): it
asks for the panels of the new object and marks those that are of another.
The attempt to prove this corrected the model. The mark `crossed` went when the
same late object came twice, though a form filled for the object before it was
still open, and the form's write was then excused by nothing. TLC shows it too,
but only with two names, four requests and five drawers and dialogs, which is more
than a run can afford; the mark now stays while such a form is open. TLC checked
`Inv` on the constants of the run before the proof was tried.

**The console's pages of registries and of Grafana.** `ConsolePagesProofs`
proves, for any number of sources, folders, dashboards and requests in flight,
`CatalogIsOwnHolds` and `EditsGoHomeHolds`. Assumptions: `SourcesWellFormed`, that
`ConsoleIntegrations`' bounds are numbers and that the mark for "none" is no
source, cache entry or modal.

The argument. What is shown is not kept by the actions but left behind by a
render, so that the invariant speaks of what a render makes of the cache and of
the selection (`RenderedPage`): a step that changes either works out the catalog
anew (`RenderAnew`), and a render after which no dependency of the effect
differs lacks a catalog only if it lacked it before, when it was on its way or
had failed (`RenderAgain`). For `EditsGoHome` the requests alone do not do: a
request gets its source when the modal is submitted, so the modal must be known
to be of the source selected up to then (`GoodModal`), which holds since
whatever selects another source, or reads the sources again, excuses the modal
that is open. That there is a first source to fall back on where there is any
(`FirstFacts`) is that the naturals are well founded.

Only model-checked: liveness (`JobSettles`, `JobFollowed`, `CatalogReturns`,
`SessionWindsUp`), which TLAPS 1.4.5 with the provers used cannot prove under
fairness.

## 5. Not modelled, and the plan

Not modelled, with the reason:

* Helm on the server: a deployment is one call of a library that decides what
  becomes of a release; its locks and its storage are not in this repository.
  So the race between two deployments of one release has no property;
* listing, searching, history and relations of objects, and what is checked of a
  manifest before the first call: they change nothing;
* the goroutine of client-go that waits for sizes after a terminal has wound up:
  `terminalSizeQueue.Close` (`kube/pod_streams.go:431`) has no caller, so it
  waits for ever; `WoundUp` names everything but it;
* logs, files and single commands of a pod: copies from one stream to another;
* inspection, statistics, dashboard: sums and verdicts per request;
* configuration, secrets and opening the database: run once, before anything is
  concurrent;
* the retry of a request over three base addresses (`src/frontend/src/api/client.ts`): the server sees it as
  one more request, which its models have;
* the console's wording, layout, search, sorting, parsing of YAML and of
  kubeconfigs; charts and the installer.

Next, in this order:

1. Pure algorithms against reference definitions over bounded inputs: grouping
   of a registry's artifacts, the rollout verdict of a deployment.
2. Abstract specifications of what the two caches promise, a map that forgets,
   and that `ClusterControl` and `RegistryCache` implement them.
