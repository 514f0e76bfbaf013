---------------------------- MODULE ConsoleStreams ----------------------------
(***************************************************************************)
(* The pod log stream and the pod terminal of the console, beside the      *)
(* session and the cluster they belong to.  Both live in an effect that    *)
(* closes the last connection and opens the next whenever what it is for   *)
(* changes; a connection that was closed still has events to deliver.      *)
(*                                                                         *)
(* A fetch that was aborted delivers nothing more.  A WebSocket closed by  *)
(* its owner delivers its close event later, after an error event when it  *)
(* was still connecting, and its handlers stay installed.  What a closed   *)
(* modal still holds, which opening it overwrites, is left out.            *)
(***************************************************************************)
EXTENDS ConsoleSession

CONSTANTS Clusters, Pods, Containers,
          MaxSockets   (* bound: WebSockets not yet closed                  *)

VARIABLES cluster,      (* selectedClusterId                                *)
          logs,         (* podLogsOpen, podLogsViewer, ...Status, ...Content*)
          logStreams,   (* fetches not yet ended or aborted                 *)
          term,         (* podTerminalOpen, ...ModalReady, ...Workspace, ...Status *)
          sockets       (* WebSockets whose close event has not come        *)

streamVars == <<cluster, logs, logStreams, term, sockets>>
vars == <<sessionVars, streamVars>>

Targets == Pods \X Containers
Streams == [cluster : Clusters, target : Targets, token : Tokens, live : BOOLEAN]
Slots   == 1..MaxSockets
Sockets == [cluster : Clusters, target : Targets, token : Tokens,
            state : {"connecting", "open"}]
           \cup [state : {"aborted", "closing"}]   (* close() was called     *)

ASSUME MaxSocketsAssumption == MaxSockets \in Nat
ASSUME NoneIsNothing == None \notin Clusters \cup Targets \cup Slots \cup Sockets

StreamTypeOK ==
  /\ cluster \in Clusters \cup {None}
  /\ logs \in [open : BOOLEAN, viewer : Targets \cup {None}, content : SUBSET Targets,
               status : {"stopped", "connecting", "live", "error"}]
  /\ logStreams \in SUBSET Streams
  /\ term \in [open : BOOLEAN, ready : BOOLEAN, workspace : Targets \cup {None},
               status : {"disconnected", "connecting", "connected", "error"},
               socket : Slots \cup {None}]
  /\ sockets \in [Slots -> Sockets \cup {None}]

NoLogs == [open |-> FALSE, viewer |-> None, content |-> {}, status |-> "stopped"]
NoTerm == [open |-> FALSE, ready |-> FALSE, workspace |-> None,
           status |-> "disconnected", socket |-> None]

Init ==
  /\ SessionInit
  /\ cluster = None
  /\ logs = NoLogs /\ logStreams = {}
  /\ term = NoTerm /\ sockets = [i \in Slots |-> None]

-----------------------------------------------------------------------------
(* The effects.                                                            *)

(* Faulty variant of the next: the connection is only forgotten.           *)
KeepSocket(s) == s

(* socket.close(): a socket not yet open fails first.                      *)
CloseSocket(s) ==
  IF s = None \/ s.state \notin {"connecting", "open"} THEN s
  ELSE [state |-> IF s.state = "connecting" THEN "aborted" ELSE "closing"]
AllClosed == [i \in Slots |-> CloseSocket(sockets[i])]

(* The effect of the log stream, run with state l: abort the last fetch    *)
(* and, with a viewer on a cluster, start the next.                        *)
RunLogs(l, cl, token) ==
  IF l.open /\ l.viewer # None /\ cl # None
  THEN /\ logs' = [l EXCEPT !.status = "connecting", !.content = {}]
       /\ logStreams' = {[cluster |-> cl, target |-> l.viewer, token |-> token,
                          live |-> FALSE]}
  ELSE logs' = NoLogs /\ logStreams' = {}

(* The effect of the terminal, run with state t: close the last socket     *)
(* and, once the modal has opened, connect the next.                       *)
RunTerm(t, cl, token) ==
  IF t.open /\ t.ready /\ t.workspace # None /\ cl # None
  THEN \E i \in Slots :
         /\ sockets[i] = None /\ \A j \in 1..(i - 1) : sockets[j] # None
         /\ term' = [t EXCEPT !.status = "connecting", !.socket = i]
         /\ sockets' = [AllClosed EXCEPT ![i] = [cluster |-> cl, target |-> t.workspace,
                                                 token |-> token, state |-> "connecting"]]
  ELSE /\ term' = IF t.open THEN [t EXCEPT !.socket = None]
                  ELSE [NoTerm EXCEPT !.ready = t.ready]
       /\ sockets' = AllClosed

(* The selected cluster changes: the effect that empties the detail drawer *)
(* closes both; the modal reports that it has closed later.                *)
Empty(cl) ==
  /\ cluster' = cl
  /\ logs' = NoLogs /\ logStreams' = {}
  /\ term' = [NoTerm EXCEPT !.ready = term.ready] /\ sockets' = AllClosed

Select(cl) == IF cl = cluster THEN UNCHANGED streamVars ELSE Empty(cl)

(* A new token alone runs both effects again, each for what it shows.      *)
FollowToken ==
  IF TokenOf(session') = TokenOf(session) THEN UNCHANGED streamVars
  ELSE /\ UNCHANGED cluster
       /\ RunLogs(logs, cluster, TokenOf(session'))
       /\ RunTerm(term, cluster, TokenOf(session'))

-----------------------------------------------------------------------------
(* What the user does with pods; a modal covers the rest of the page.      *)
Uncovered == ~ logs.open /\ ~ term.open
OnPods    == session # None /\ activeView = "resources" /\ Uncovered

SelectCluster ==
  /\ OnPods
  /\ \E cl \in Clusters : cl # cluster /\ Select(cl)

OpenLogs ==
  /\ OnPods /\ cluster # None
  /\ \E t \in Targets : RunLogs([NoLogs EXCEPT !.open = TRUE, !.viewer = t],
                                cluster, session.token)
  /\ UNCHANGED <<cluster, term, sockets>>

(* The other container, or 重新连接 for the same one.                      *)
ReopenLogs ==
  /\ logs.open /\ logs.viewer # None /\ session # None
  /\ \E c \in Containers : RunLogs([logs EXCEPT !.viewer[2] = c], cluster, session.token)
  /\ UNCHANGED <<cluster, term, sockets>>

CloseLogs ==
  /\ logs.open
  /\ logs' = NoLogs /\ logStreams' = {}
  /\ UNCHANGED <<cluster, term, sockets>>

OpenTerminal ==
  /\ OnPods /\ cluster # None
  /\ \E t \in Targets :
       RunTerm([NoTerm EXCEPT !.open = TRUE, !.workspace = t, !.status = "connecting"],
               cluster, session.token)
  /\ UNCHANGED <<cluster, logs, logStreams>>

ReopenTerminal ==
  /\ term.open /\ term.workspace # None /\ session # None
  /\ \E c \in Containers :
       RunTerm([term EXCEPT !.workspace[2] = c], cluster, session.token)
  /\ UNCHANGED <<cluster, logs, logStreams>>

CloseTerminal ==
  /\ term.open
  /\ term' = NoTerm /\ sockets' = AllClosed
  /\ UNCHANGED <<cluster, logs, logStreams>>

(* afterOpenChange, once the modal has opened or closed.                   *)
ModalMoved ==
  /\ term.ready # term.open
  /\ RunTerm([term EXCEPT !.ready = term.open], cluster, TokenOf(session))
  /\ UNCHANGED <<cluster, logs, logStreams>>

(* The workload is gone from a list read meanwhile: the modals close.      *)
WorkloadGone ==
  /\ ~ Uncovered
  /\ RunLogs([logs EXCEPT !.open = FALSE], cluster, TokenOf(session))
  /\ RunTerm([term EXCEPT !.open = FALSE], cluster, TokenOf(session))
  /\ UNCHANGED cluster

-----------------------------------------------------------------------------
(* What the connections deliver.                                           *)

(* The stream is accepted, sends lines, ends, or fails.                    *)
LogEvent(s) ==
  /\ \/ /\ ~ s.live
        /\ logs' = [logs EXCEPT !.status = "live"]
        /\ logStreams' = (logStreams \ {s}) \cup {[s EXCEPT !.live = TRUE]}
     \/ /\ s.live
        /\ logs' = [logs EXCEPT !.content = @ \cup {s.target}]
        /\ UNCHANGED logStreams
     \/ /\ logs' = [logs EXCEPT !.status = IF s.live THEN "stopped" ELSE "error"]
        /\ logStreams' = logStreams \ {s}
     \/ logs' = [logs EXCEPT !.status = "error"] /\ logStreams' = logStreams \ {s}
  /\ UNCHANGED <<cluster, term, sockets>>

Hear(i, socket, status) ==
  /\ sockets' = [sockets EXCEPT ![i] = socket]
  /\ term' = [term EXCEPT !.status = status,
                          !.socket = IF socket = None /\ @ = i THEN None ELSE @]
  /\ UNCHANGED <<cluster, logs, logStreams>>

InState(i, states) == sockets[i] # None /\ sockets[i].state \in states
Quiet == IF term.status = "error" THEN "error" ELSE "disconnected"

(* onopen, onerror and onclose set the status whichever socket is current. *)
SocketOpens(i) == /\ InState(i, {"connecting"})
                  /\ Hear(i, [sockets[i] EXCEPT !.state = "open"], "connected")
SocketFails(i) == /\ InState(i, {"connecting", "open", "aborted"})
                  /\ Hear(i, [state |-> "closing"], "error")
SocketCloses(i) == InState(i, {"open", "closing"}) /\ Hear(i, None, Quiet)

(* Faulty variant of the next: the status is shown as the server sends it. *)
ServerSaysRaw(i) ==
  /\ InState(i, {"open"})
  /\ \E status \in {"closed", "error"} : Hear(i, sockets[i], status)

(* The server's status and error messages, of an open socket only.         *)
ServerSays(i) ==
  /\ InState(i, {"open"})
  /\ \E status \in {"disconnected", "error"} : Hear(i, sockets[i], status)

-----------------------------------------------------------------------------
StreamStep ==
  \/ SelectCluster \/ OpenLogs \/ ReopenLogs \/ CloseLogs
  \/ OpenTerminal \/ ReopenTerminal \/ CloseTerminal \/ ModalMoved \/ WorkloadGone
  \/ \E s \in logStreams : LogEvent(s)
  \/ \E i \in Slots :
       SocketOpens(i) \/ SocketFails(i) \/ SocketCloses(i) \/ ServerSays(i)

(* Answers that bring clusters select the preferred one of them.           *)
ListsArrive(r) ==
  \/ (GotCatalogs(r) \/ GotSummary(r))
     /\ IF calls'[r] = None THEN \E cl \in Clusters \cup {None} : Select(cl)
        ELSE UNCHANGED streamVars
  \/ /\ GotList(r)
     /\ IF calls[r].list = "clusters" THEN \E cl \in Clusters \cup {None} : Select(cl)
        ELSE UNCHANGED streamVars

Next ==
  \/ StreamStep /\ UNCHANGED sessionVars
  \/ Logout /\ Uncovered /\ Select(None)
  \/ Reload /\ cluster' = None /\ logs' = NoLogs /\ logStreams' = {}
            /\ term' = NoTerm /\ sockets' = [i \in Slots |-> None]
  \/ (Refresh \/ \E v \in Views : OpenView(v)) /\ Uncovered /\ UNCHANGED streamVars
  \/ (SubmitLogin \/ \E l \in Lists : ReadList(l)) /\ UNCHANGED streamVars
  \/ \E r \in Requests :
       \/ (LoggedIn(r) \/ GotMe(r)) /\ FollowToken
       \/ ListsArrive(r)
       \/ CallFails(r) /\ UNCHANGED streamVars
       \/ Unauthorized(r) /\ Select(None)

Spec == Init /\ [][Next]_vars

-----------------------------------------------------------------------------
TypeOK == SessionTypeOK /\ StreamTypeOK

(* The console holds at most one log stream and one terminal, each of the  *)
(* session, cluster and container on screen; both are gone when the modal, *)
(* the selected cluster or the session is; the lines shown are all of the  *)
(* container named above them; and 已连接 is shown only of a live socket.  *)
StreamsAreCurrent ==
  /\ \A s \in logStreams :
       /\ logs.open /\ <<s.cluster, s.target, s.token>>
                       = <<cluster, logs.viewer, TokenOf(session)>>
  /\ logs.content \subseteq {logs.viewer} \/ ~ logs.open
  /\ logs.status = "live" <=> \E s \in logStreams : s.live
  /\ \A i \in Slots : InState(i, {"connecting", "open"}) =>
       /\ i = term.socket /\ term.open
       /\ <<sockets[i].cluster, sockets[i].target, sockets[i].token>>
          = <<cluster, term.workspace, TokenOf(session)>>
  /\ term.status = "connected" =>
       term.socket # None /\ InState(term.socket, {"open"})
=============================================================================
