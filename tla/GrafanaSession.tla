--------------------------- MODULE GrafanaSession ---------------------------
(***************************************************************************)
(* One Grafana data source: its row, the session the server keeps for it   *)
(* (grafanaSessionCache), and the handlers that use both - the catalog     *)
(* calls, which log in again once when a session is refused, the reverse   *)
(* proxy, which takes over the cookies of every response, and the calls    *)
(* that change the row and drop the session.                               *)
(*                                                                         *)
(* A cookie is abstracted to the account it logged in and a number.  An    *)
(* update may change the account and stay at the same Grafana, which then  *)
(* goes on accepting the old account's session: whether Grafana accepts    *)
(* another account's cookie is left open.                                  *)
(***************************************************************************)
EXTENDS Naturals

CONSTANTS Handlers,     (* requests served at the same time                 *)
          Accounts,     (* endpoint and credentials a row can hold          *)
          Tokens,       (* those without name and password: no session      *)
          Nothing,      (* no handler, no row, no cookie                    *)
          MaxCookies,   (* bound: cookies Grafana sets in a behaviour       *)
          MaxCalls      (* bound: requests served in a behaviour            *)

VARIABLES source,    (* the row's account; Nothing: no such row             *)
          created,   (* createObservabilitySource has inserted it           *)
          session,   (* grafanaSessionCache[source.ID]                      *)
          live,      (* the cookies Grafana accepts as a session            *)
          issued,    (* how many it has set                                 *)
          handler,   (* what each handler holds and where it stands         *)
          calls,
          changed,   (* history: calls when the row last changed            *)
          refused    (* history: cookies seen to be refused, or set then    *)

vars == <<source, created, session, live, issued, handler, calls, changed, refused>>
rowVars == <<source, created, changed>>
grafanaVars == <<live, issued>>

Cookies == [account : Accounts, no : 1..MaxCookies]
Entries == [cookie : Cookies, expired : BOOLEAN,
            late : BOOLEAN]   (* history: of a handler that read an older row *)
Refusals == [cookie : Cookies, retry : BOOLEAN]   (* seen by a retry, which gives up *)

Ops   == {"api", "proxy", "test", "create", "update", "delete"}
Steps == {"ensure", "expire", "login", "store", "send", "retry", "connected", "forward",
          "refresh", "drop", "mark", "save", "delete", "clear"}
Calls == [op : Ops, at : Steps, account : Accounts, no : 1..MaxCalls,
          cookie : Cookies \cup {Nothing},
          attempt : {1, 2},
          set : Cookies \cup {Nothing},   (* the cookie a proxied response sets *)
          dead : BOOLEAN,                 (* it says that the session is dead   *)
          late : BOOLEAN]                 (* history: cookie of a late entry    *)

(* What the module takes for granted of its constants: the bounds are      *)
(* numbers, and nothing is mistaken for Nothing.                           *)
WellFormed ==
  /\ {MaxCookies, MaxCalls} \subseteq Nat
  /\ Nothing \notin Accounts \cup Cookies \cup Entries \cup Calls

TypeOK ==
  /\ source \in Accounts \cup {Nothing} /\ created \in BOOLEAN
  /\ session \in Entries \cup {Nothing}
  /\ live \in SUBSET Cookies /\ issued \in 0..MaxCookies
  /\ handler \in [Handlers -> Calls \cup {Nothing}]
  /\ calls \in 0..MaxCalls /\ changed \in 0..MaxCalls
  /\ refused \in SUBSET Refusals

Init ==
  /\ source = Nothing /\ created = FALSE
  /\ session = Nothing
  /\ live = {} /\ issued = 0
  /\ handler = [h \in Handlers |-> Nothing]
  /\ calls = 0 /\ changed = 0
  /\ refused = {}

-----------------------------------------------------------------------------
At(h, step) == handler[h] # Nothing /\ handler[h].at = step
Become(h, c) == handler' = [handler EXCEPT ![h] = c] /\ UNCHANGED calls
Go(h, step) == Become(h, [handler[h] EXCEPT !.at = step])
Over(h) == Become(h, Nothing)

Arrive(h, op, at, account) ==
  /\ handler[h] = Nothing /\ calls < MaxCalls /\ calls' = calls + 1
  /\ handler' = [handler EXCEPT ![h] =
       [op |-> op, at |-> at, account |-> account, no |-> calls', cookie |-> Nothing,
        attempt |-> 1, set |-> Nothing, dead |-> FALSE, late |-> FALSE]]

(* A row has been written or deleted and its session is still to be dropped. *)
Clearing == \E h \in Handlers : At(h, "clear")

(* The row has changed since h read it.                                    *)
Behind(h) == handler[h].no <= changed

(* Grafana sets a cookie: a session's, or some other.                      *)
NewCookie(account) == [account |-> account, no |-> issued + 1]
Issue(cookie, alive) == /\ issued < MaxCookies /\ issued' = issued + 1
                        /\ live' = IF alive THEN live \cup {cookie} ELSE live

(* The request goes out with h's cookie, or with credentials if it has none. *)
MayAccept(c) == c.cookie = Nothing \/ c.cookie \in live
MayRefuse(c) == c.cookie \in live => c.cookie.account # c.account

(* A handler sees them to be refused, on a retry or not.                   *)
Refuse(cookies, retry) ==
  refused' = refused \cup [cookie : cookies \ {Nothing}, retry : {retry}]

Put(h, cookie, late) == session' = [cookie |-> cookie, expired |-> FALSE, late |-> late]

-----------------------------------------------------------------------------
(* Faulty variants of the actions below. *)

(* An update that leaves the session to the handlers that use it. *)
SaveRowKeepingSession(h) ==
  /\ At(h, "save") /\ Over(h)
  /\ source' = handler[h].account /\ changed' = calls
  /\ UNCHANGED <<created, session, grafanaVars, refused>>

(* A proxied response whose cookies are taken over after the session was   *)
(* dropped for being dead.                                                 *)
ForwardDroppingFirst(h) ==
  LET c == handler[h] IN
  /\ At(h, "forward")
  /\ \E new \in {Nothing, NewCookie(c.account)}, dead \in BOOLEAN :
       /\ dead => MayRefuse(c)
       /\ IF new = Nothing THEN UNCHANGED grafanaVars ELSE Issue(new, FALSE)
       /\ session' = IF dead THEN Nothing ELSE session
       /\ IF dead THEN Refuse({c.cookie, new}, FALSE) ELSE UNCHANGED refused
       /\ IF new = Nothing THEN Over(h)
          ELSE Become(h, [c EXCEPT !.at = "refresh", !.set = new])
  /\ UNCHANGED rowVars
-----------------------------------------------------------------------------
(* The requests. *)

Create(h) ==
  /\ ~ created /\ created' = TRUE
  /\ \E a \in Accounts : Arrive(h, "create", "clear", a) /\ source' = a
  /\ changed' = calls'
  /\ UNCHANGED <<session, grafanaVars, refused>>

(* updateObservabilitySource, which probes what the row is to become with  *)
(* a login of its own; deleteObservabilitySource.                          *)
UpdateOrDelete(h) ==
  /\ source # Nothing
  /\ \/ \E a \in Accounts : Arrive(h, "update", "save", a)
     \/ Arrive(h, "delete", "delete", source)
  /\ UNCHANGED <<rowVars, session, grafanaVars, refused>>

(* The catalog's calls, the proxy, and testStoredObservabilitySource, which *)
(* does not use the cached session: loadObservabilityEndpoint.              *)
UseSource(h) ==
  /\ source # Nothing
  /\ \/ \E op \in {"api", "proxy"} : Arrive(h, op, "ensure", source)
     \/ Arrive(h, "test", "mark", source)
  /\ UNCHANGED <<rowVars, session, grafanaVars, refused>>

-----------------------------------------------------------------------------
(* ensureGrafanaSession: load, log in, store, each under the lock alone.   *)

Ready(c) == IF c.op = "proxy" THEN "connected" ELSE "send"

Ensure(h) ==
  LET c == handler[h] IN
  /\ At(h, "ensure")
  /\ \/ c.account \in Tokens /\ Go(h, Ready(c))
     \/ /\ c.account \notin Tokens /\ session # Nothing /\ ~ session.expired
        /\ Become(h, [c EXCEPT !.at = Ready(c), !.cookie = session.cookie,
                               !.late = session.late \/ Clearing])
     \/ /\ c.account \notin Tokens /\ session # Nothing /\ session.expired
        /\ Go(h, "expire")
     \/ c.account \notin Tokens /\ session = Nothing /\ Go(h, "login")
  /\ UNCHANGED <<rowVars, session, grafanaVars, refused>>

DropExpired(h) ==
  /\ At(h, "expire") /\ Go(h, "login")
  /\ session' = Nothing
  /\ UNCHANGED <<rowVars, grafanaVars, refused>>

Login(h) ==
  LET c == handler[h]
      new == NewCookie(c.account)
  IN
  /\ At(h, "login")
  /\ \/ /\ Issue(new, TRUE)
        /\ Become(h, [c EXCEPT !.at = "store", !.cookie = new, !.late = FALSE])
     \/ Go(h, "mark") /\ UNCHANGED grafanaVars
  /\ UNCHANGED <<rowVars, session, refused>>

StoreSession(h) ==
  /\ At(h, "store") /\ Go(h, Ready(handler[h]))
  /\ Put(h, handler[h].cookie, Behind(h))
  /\ UNCHANGED <<rowVars, grafanaVars, refused>>

-----------------------------------------------------------------------------
(* withGrafanaSessionRetry: the requests of a catalog call, made again from *)
(* the first with a new session when one of them is refused.  If that is    *)
(* refused too the call fails, and the session stays where it is.  The      *)
(* outcome is marked in the row, unless the handler itself refused (a       *)
(* protected dashboard, a folder that is not empty).                        *)

SendRequests(h) ==
  LET c == handler[h] IN
  /\ At(h, "send")
  /\ \/ MayAccept(c) /\ (Go(h, "mark") \/ Over(h)) /\ UNCHANGED refused
     \/ Go(h, "mark") /\ UNCHANGED refused
     \/ /\ MayRefuse(c) /\ c.account \notin Tokens
        /\ \/ c.attempt = 1 /\ Go(h, "retry") /\ UNCHANGED refused
           \/ c.attempt = 2 /\ Go(h, "mark") /\ Refuse({c.cookie}, TRUE)
  /\ UNCHANGED <<rowVars, session, grafanaVars>>

DropForRetry(h) ==
  /\ At(h, "retry")
  /\ Become(h, [handler[h] EXCEPT !.at = "ensure", !.attempt = 2, !.cookie = Nothing])
  /\ session' = Nothing
  /\ Refuse({handler[h].cookie}, FALSE)
  /\ UNCHANGED <<rowVars, grafanaVars>>

(* db.Save of the handler's copy, its error dropped: it may put back an    *)
(* account that was replaced, or the row itself.                           *)
SaveCopy(account) ==
  \/ /\ source # account
     /\ source' = account /\ changed' = calls
     /\ session' = IF session = Nothing THEN Nothing ELSE [session EXCEPT !.late = TRUE]
     /\ UNCHANGED created
  \/ UNCHANGED <<rowVars, session>>

MarkRow(h) ==
  /\ At(h, "mark") /\ Over(h)
  /\ SaveCopy(handler[h].account)
  /\ UNCHANGED <<grafanaVars, refused>>

-----------------------------------------------------------------------------
(* proxyGrafana: the row is marked before the request goes out, and        *)
(* ModifyResponse first takes over the cookies, then drops the session if  *)
(* the response is a 401 that says it is dead.                             *)

MarkConnected(h) ==
  /\ At(h, "connected") /\ Go(h, "forward")
  /\ SaveCopy(handler[h].account)
  /\ UNCHANGED <<grafanaVars, refused>>

Forward(h) ==
  LET c == handler[h]
      owner == IF c.cookie = Nothing THEN c.account ELSE c.cookie.account
  IN
  /\ At(h, "forward")
  /\ \/ Over(h) /\ UNCHANGED grafanaVars
     \/ /\ MayRefuse(c) /\ Become(h, [c EXCEPT !.at = "drop", !.dead = TRUE])
        /\ UNCHANGED grafanaVars
     \/ \E dead, alive \in BOOLEAN :
          /\ dead => MayRefuse(c) /\ ~ alive
          /\ alive => MayAccept(c)
          /\ Issue(NewCookie(owner), alive)
          /\ Become(h, [c EXCEPT !.at = "refresh", !.set = NewCookie(owner), !.dead = dead])
  /\ UNCHANGED <<rowVars, session, refused>>

RefreshSession(h) ==
  LET c == handler[h] IN
  /\ At(h, "refresh")
  /\ Put(h, c.set, Behind(h) \/ c.late)
  /\ IF c.dead THEN Go(h, "drop") ELSE Over(h)
  /\ UNCHANGED <<rowVars, grafanaVars, refused>>

DropDead(h) ==
  /\ At(h, "drop") /\ Over(h)
  /\ session' = Nothing
  /\ Refuse({handler[h].cookie, handler[h].set}, FALSE)
  /\ UNCHANGED <<rowVars, grafanaVars>>

-----------------------------------------------------------------------------
(* The write of an update or a deletion, then clearGrafanaSessionCache.    *)

SaveRow(h) ==
  /\ At(h, "save")
  /\ \/ /\ source' = handler[h].account /\ changed' = calls
        /\ Go(h, "clear") /\ UNCHANGED created
     \/ Over(h) /\ UNCHANGED rowVars
  /\ UNCHANGED <<session, grafanaVars, refused>>

DeleteRow(h) ==
  /\ At(h, "delete")
  /\ \/ /\ source' = Nothing /\ changed' = calls
        /\ Go(h, "clear") /\ UNCHANGED created
     \/ Over(h) /\ UNCHANGED rowVars
  /\ UNCHANGED <<session, grafanaVars, refused>>

ClearSession(h) ==
  /\ At(h, "clear") /\ Over(h)
  /\ session' = Nothing
  /\ UNCHANGED <<rowVars, grafanaVars, refused>>

(* Half an hour passes, or the cookie's own time; Grafana ends a session.  *)
Expire == /\ session # Nothing /\ session' = [session EXCEPT !.expired = TRUE]
          /\ UNCHANGED <<rowVars, grafanaVars, handler, calls, refused>>

EndSession == /\ \E k \in live : live' = live \ {k}
              /\ UNCHANGED <<rowVars, session, issued, handler, calls, refused>>

-----------------------------------------------------------------------------
Request(h) == Create(h) \/ UpdateOrDelete(h) \/ UseSource(h)

Step(h) == \/ Ensure(h) \/ DropExpired(h) \/ Login(h) \/ StoreSession(h)
           \/ SendRequests(h) \/ DropForRetry(h) \/ MarkRow(h)
           \/ MarkConnected(h) \/ Forward(h) \/ RefreshSession(h) \/ DropDead(h)
           \/ SaveRow(h) \/ DeleteRow(h) \/ ClearSession(h)

Next == (\E h \in Handlers : Request(h) \/ Step(h)) \/ Expire \/ EndSession

Spec == Init /\ [][Next]_vars

-----------------------------------------------------------------------------
(* The session kept for a source is one of the account its row names, so   *)
(* that an update takes effect at once.  It may be another's only if a     *)
(* handler that read the row before the change stored it, or put the old   *)
(* row back, after the change (updateObservabilitySource,                  *)
(* refreshGrafanaSessionCacheFromResponse).                                *)
SessionIsRows ==
  session # Nothing /\ ~ session.late /\ ~ Clearing /\ source # Nothing
    => session.cookie.account = source

(* A session that the first attempt of a call or the proxy has seen to be  *)
(* refused, and a cookie set by a response that said so, is never used     *)
(* again.  One that only retries have seen to be refused may still be in   *)
(* the cache, since a retry drops nothing: it goes when a first attempt is *)
(* refused (withGrafanaSessionRetry, ModifyResponse).                      *)
RefusedIsGone ==
  session # Nothing => \A r \in refused : r.cookie = session.cookie => r.retry
=============================================================================
