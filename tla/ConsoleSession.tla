---------------------------- MODULE ConsoleSession ----------------------------
(***************************************************************************)
(* The browser console's session: who is logged in, what localStorage      *)
(* remembers of it, the view shown and the lists loaded for it.            *)
(*                                                                         *)
(* A user's action is a handler up to its first await with the effects     *)
(* that follow its render; an answer of the server is an action of its own,*)
(* taken in any order and with the values the handler had when it asked.   *)
(* A list is abstracted to the token it was read with, a user's rights to  *)
(* the keys /auth/me returns, which the server may change at any time.     *)
(***************************************************************************)
EXTENDS Naturals

CONSTANTS Rights,       (* per login, the sets of keys its user may have     *)
          Refreshed,    (* bound: lists a page reads again by itself         *)
          None,         (* no session, call or list                          *)
          MaxLogins,    (* bound: logins in a behaviour                      *)
          MaxRequests   (* bound: requests in flight                         *)

ASSUME SessionBounds == {MaxLogins, MaxRequests} \subseteq Nat

VARIABLES session,     (* the state of that name                            *)
          stored,      (* localStorage                                      *)
          activeView,
          calls,       (* requests in flight                                *)
          shown,       (* the token each list on screen was read with       *)
          logins,      (* tokens issued                                     *)
          overtaken,   (* history: tokens whose session ended during a call *)
          hydrated     (* history: the session's lists have all been read   *)

sessionVars == <<session, stored, activeView, calls, shown, logins,
                 overtaken, hydrated>>

(* menuDefinitions: the views with the key each asks for.                  *)
menuDefinitions ==
  << <<"dashboard", "dashboard:read">>, <<"clusters", "clusters:read">>,
     <<"inspection", "clusters:read">>, <<"appTemplates", "resources:read">>,
     <<"resources", "resources:read">>,
     <<"registryIntegrations", "registries:read">>,
     <<"registryArtifacts", "registries:read">>,
     <<"observabilityDashboards", "observability:read">>,
     <<"observabilitySources", "observability:read">>,
     <<"users", "users:read">>, <<"roles", "roles:read">> >>

Views    == {menuDefinitions[i][1] : i \in DOMAIN menuDefinitions}
Tokens   == 1..MaxLogins
Requests == 1..MaxRequests

(* The key a list is read with.  One list stands for each treatment that   *)
(* logout, a 401 and hydrateWorkspace give the lists between them.         *)
Needs == [dashboard            |-> "dashboard:read",
          clusters             |-> "clusters:read",
          users                |-> "users:read",
          imageRegistryPresets |-> "clusters:write",
          provisionTemplates   |-> "clusters:write",
          registries           |-> "registries:read",
          registryArtifacts    |-> "registries:read",
          grafanaCatalogs      |-> "observability:read"]
Lists == DOMAIN Needs

(* Faulty variant of the next: the users stay on screen.                   *)
ClearedByLogoutButUsers == {"dashboard", "clusters", "imageRegistryPresets",
                            "grafanaCatalogs"}
ClearedByLogout == {"dashboard", "clusters", "users", "imageRegistryPresets",
                    "grafanaCatalogs"}
ClearedBy401    == {"dashboard", "clusters", "users", "registries",
                    "registryArtifacts"}
ReadAtHydration == Lists \ {"registryArtifacts", "grafanaCatalogs"}

Keysets  == UNION {Rights[t] : t \in Tokens}
Sessions == [token : Tokens, keys : Keysets]
Calls ==
  [kind : {"login"}]
  \cup [kind : {"me"}, token : Tokens]
  \cup [kind : {"catalogs", "summary"}, token : Tokens, keys : Keysets]
  \cup [kind : {"list"}, token : Tokens, list : Lists]
  \cup [kind : {"orphan"}, token : Tokens]

ASSUME NoneAssumption == None \notin Sessions \cup Calls \cup Tokens

SessionTypeOK ==
  /\ session \in Sessions \cup {None} /\ stored \in Sessions \cup {None}
  /\ activeView \in Views
  /\ calls \in [Requests -> Calls \cup {None}]
  /\ shown \in [Lists -> Tokens \cup {None}]
  /\ logins \in 0..MaxLogins
  /\ overtaken \in SUBSET Tokens /\ hydrated \in BOOLEAN

Blank == [l \in Lists |-> None]

SessionInit ==
  /\ session = None /\ stored = None /\ activeView = "dashboard"
  /\ calls = [r \in Requests |-> None] /\ shown = Blank
  /\ logins = 0
  /\ overtaken = {} /\ hydrated = FALSE

-----------------------------------------------------------------------------
(* Requests in flight.                                                     *)
HasRoom(cs)  == \E r \in Requests : cs[r] = None
Ask(cs, c)   == [cs EXCEPT ![CHOOSE r \in Requests :
                               cs[r] = None /\ \A q \in 1..(r - 1) : cs[q] # None] = c]
Answered(r)  == [calls EXCEPT ![r] = None]
Awaiting(r, kind) == calls[r] # None /\ calls[r].kind = kind
Asked(token) == \E r \in Requests : calls[r] # None /\ calls[r].kind # "login"
                                    /\ calls[r].token = token

TokenOf(s) == IF s = None THEN None ELSE s.token
KeysOf(s)  == IF s = None THEN {} ELSE s.keys

(* accessibleViews: their places in the menu.                              *)
Accessible(keys) == {i \in DOMAIN menuDefinitions : menuDefinitions[i][2] \in keys}

(* The effect that leaves a view the user may not (or no longer) open.     *)
MayShow(view, open) == open = {} \/ \E i \in open : menuDefinitions[i][1] = view
Allowed(view, open) == IF MayShow(view, open) THEN view
                       ELSE menuDefinitions[CHOOSE i \in open : \A j \in open : i <= j][1]

(* A new session is rendered: a new token makes a new client, and with it  *)
(* the effect that hydrates the workspace; cs are the calls left in flight.*)
Enter(s, cs) ==
  /\ session' = s
  /\ activeView' = Allowed(activeView, Accessible(s.keys))
  /\ IF TokenOf(session) = s.token
     THEN calls' = cs /\ UNCHANGED hydrated
     ELSE HasRoom(cs) /\ calls' = Ask(cs, [kind |-> "me", token |-> s.token])
          /\ hydrated' = FALSE

(* Faulty variant of the next: localStorage keeps the session.             *)
LeaveStored(cleared, cs) ==
  /\ session' = None /\ calls' = cs /\ hydrated' = FALSE
  /\ shown' = [l \in Lists |-> IF l \in cleared THEN None ELSE shown[l]]
  /\ UNCHANGED <<stored, activeView, logins, overtaken>>

(* The session is over; what is in flight is not cancelled.                *)
Leave(cleared, cs) ==
  /\ session' = None /\ stored' = None
  /\ shown' = [l \in Lists |-> IF l \in cleared THEN None ELSE shown[l]]
  /\ calls' = cs
  /\ overtaken' = overtaken \cup
       {cs[r].token : r \in {q \in Requests : cs[q] # None /\ cs[q].kind # "login"}}
  /\ hydrated' = FALSE
  /\ UNCHANGED <<activeView, logins>>

-----------------------------------------------------------------------------
(* What the user does.                                                     *)

(* handleLogin up to its await; the button shows its loading state.        *)
SubmitLogin ==
  /\ session = None /\ HasRoom(calls) /\ logins < MaxLogins
  /\ ~ \E r \in Requests : Awaiting(r, "login")
  /\ calls' = Ask(calls, [kind |-> "login"])
  /\ UNCHANGED <<session, stored, activeView, shown, logins, overtaken, hydrated>>

Logout == session # None /\ Leave(ClearedByLogout, calls)

(* The refresh button of the header, also during a hydration.              *)
Refresh ==
  /\ session # None /\ HasRoom(calls)
  /\ calls' = Ask(calls, [kind |-> "me", token |-> session.token])
  /\ UNCHANGED <<session, stored, activeView, shown, logins, overtaken, hydrated>>

OpenView(view) ==
  /\ view # activeView
  /\ \E i \in DOMAIN menuDefinitions :
       menuDefinitions[i][1] = view /\ menuDefinitions[i][2] \in KeysOf(session)
  /\ activeView' = view
  /\ UNCHANGED <<session, stored, calls, shown, logins, overtaken, hydrated>>

(* A page reads one of its lists: refreshClusters, refreshUsers and their  *)
(* like return at once without the key.                                    *)
ReadList(list) ==
  /\ list \in Refreshed /\ Needs[list] \in KeysOf(session) /\ HasRoom(calls)
  /\ calls' = Ask(calls, [kind |-> "list", token |-> session.token, list |-> list])
  /\ UNCHANGED <<session, stored, activeView, shown, logins, overtaken, hydrated>>

(* F5: loadSession, a fresh workspace, nothing in flight.                  *)
Reload ==
  /\ session' = stored /\ shown' = Blank
  /\ activeView' = Allowed("dashboard", Accessible(KeysOf(stored)))
  /\ calls' = IF stored = None THEN [r \in Requests |-> None]
              ELSE [[r \in Requests |-> None] EXCEPT
                      ![1] = [kind |-> "me", token |-> stored.token]]
  /\ hydrated' = FALSE
  /\ UNCHANGED <<stored, logins, overtaken>>

-----------------------------------------------------------------------------
(* What the server answers.                                                *)
LoggedIn(r) ==
  /\ Awaiting(r, "login")
  /\ logins' = logins + 1
  /\ \E keys \in Rights[logins + 1] :
       LET s == [token |-> logins + 1, keys |-> keys] IN
         stored' = s /\ Enter(s, Answered(r))
  /\ UNCHANGED <<shown, overtaken>>

(* hydrateWorkspace: /auth/me is stored and shown with the token it was    *)
(* asked with, whatever the session is by now; the catalogs come next.     *)
GotMe(r) ==
  /\ Awaiting(r, "me")
  /\ \E keys \in Rights[calls[r].token] :
       LET t == calls[r].token
           s == [token |-> t, keys |-> keys]
       IN  stored' = s /\ Enter(s, [calls EXCEPT ![r] =
                                     [kind |-> "catalogs", token |-> t, keys |-> keys]])
  /\ UNCHANGED <<shown, logins, overtaken>>

(* The lists of a hydration, each only with its key, are shown at its end. *)
Fill(c) ==
  /\ shown' = [l \in Lists |->
                 IF l \in ReadAtHydration
                 THEN IF Needs[l] \in c.keys THEN c.token ELSE None
                 ELSE IF l = "grafanaCatalogs" THEN None ELSE shown[l]]
  /\ hydrated' = (hydrated \/ c.token = TokenOf(session))

GotCatalogs(r) ==
  LET c == calls[r] IN
  /\ Awaiting(r, "catalogs")
  /\ IF "dashboard:read" \in c.keys
     THEN /\ calls' = [calls EXCEPT ![r] = [c EXCEPT !.kind = "summary"]]
          /\ UNCHANGED <<shown, hydrated>>
     ELSE calls' = Answered(r) /\ Fill(c)
  /\ UNCHANGED <<session, stored, activeView, logins, overtaken>>

GotSummary(r) ==
  /\ Awaiting(r, "summary")
  /\ Fill(calls[r])
  /\ calls' = Answered(r)
  /\ UNCHANGED <<session, stored, activeView, logins, overtaken>>

GotList(r) ==
  /\ Awaiting(r, "list")
  /\ shown' = [shown EXCEPT ![calls[r].list] = calls[r].token]
  /\ calls' = Answered(r)
  /\ UNCHANGED <<session, stored, activeView, logins, overtaken, hydrated>>

(* A request fails, at login, in a hydration or of a list: the others of a *)
(* hydration's Promise.all go on and may still be refused.                 *)
CallFails(r) ==
  /\ calls[r] # None
  /\ \/ calls' = Answered(r)
     \/ /\ calls[r].kind = "catalogs"
        /\ calls' = [calls EXCEPT ![r] = [kind |-> "orphan", token |-> @.token]]
  /\ UNCHANGED <<session, stored, activeView, shown, logins, overtaken, hydrated>>

(* A 401: onUnauthorized of the client that asked, whatever client is the  *)
(* session's by now.  Login asks without one.                              *)
Unauthorized(r) ==
  /\ calls[r] # None /\ calls[r].kind # "login"
  /\ \/ Leave(ClearedBy401, Answered(r))
     \/ /\ calls[r].kind = "catalogs"
        /\ Leave(ClearedBy401,
                 [calls EXCEPT ![r] = [kind |-> "orphan", token |-> @.token]])

SessionStep ==
  \/ SubmitLogin \/ Logout \/ Refresh \/ Reload
  \/ \E v \in Views : OpenView(v)
  \/ \E l \in Lists : ReadList(l)
  \/ \E r \in Requests :
       LoggedIn(r) \/ GotMe(r) \/ GotCatalogs(r) \/ GotSummary(r) \/ GotList(r)
       \/ CallFails(r) \/ Unauthorized(r)

SessionSpec == SessionInit /\ [][SessionStep]_sessionVars

-----------------------------------------------------------------------------
(* What the user sees is the account last logged in with, localStorage     *)
(* brings the same session back after a reload, and the view is one the    *)
(* user may open: but for a session whose end overtook one of its own      *)
(* requests, which hydrateWorkspace's late answer may bring back.          *)
SessionIsEarned ==
  /\ stored = session
  /\ session # None =>
       /\ session.token = logins \/ session.token \in overtaken
       /\ MayShow(activeView, Accessible(session.keys))

(* The dashboard, the clusters and the users on screen are never those     *)
(* that the account logged in before has read, but by a late answer.  The  *)
(* lists named here may be, until the new session is hydrated; and the     *)
(* artifacts of the registries may be for as long as the page is open,     *)
(* since neither a logout nor a hydration, only a 401, forgets them.       *)
Survivors == {"registries", "registryArtifacts", "provisionTemplates",
              "imageRegistryPresets", "grafanaCatalogs"}
Kept == {"registryArtifacts"}
ShownIsSessions ==
  session # None /\ session.token \notin overtaken =>
    \A l \in Lists \ (IF hydrated THEN Kept ELSE Survivors) :
      shown[l] \in {None, session.token} \cup overtaken
=============================================================================
