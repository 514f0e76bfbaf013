------------------------- MODULE ConsoleStreamsProofs -------------------------
(***************************************************************************)
(* Proofs about the console's session and its pod streams, for any rights, *)
(* number of logins, requests, clusters, pods and sockets.                 *)
(*                                                                         *)
(* The session: a request in flight belongs to the last login or to a      *)
(* session whose end overtook it, and while nobody is logged in, or a      *)
(* login is on its way, all of them do.  The streams: a modal is open only *)
(* beside a session and a cluster, there is one connection at most that    *)
(* is not yet closed, and it is the one the modal shows.                   *)
(***************************************************************************)
EXTENDS ConsoleStreams, WellFoundedInduction, TLAPS

LoginPending == \E r \in Requests : Awaiting(r, "login")

(* Sessions that requests in flight outlived, and the last login's.        *)
Known == overtaken \cup {logins}

(* What a request in flight was asked with.                                *)
Asking(c)    == c # None /\ c.kind # "login"
CallKnown(c) == Asking(c) => c.token \in Known
CallOver(c)  == Asking(c) => c.token \in overtaken

CallsInv ==
  /\ overtaken \subseteq 1..logins
  /\ \A r \in Requests : CallKnown(calls[r])
  /\ \A q, r \in Requests : Awaiting(q, "login") /\ Awaiting(r, "login") => q = r
  /\ LoginPending => logins < MaxLogins

(* The lists that every end of a session clears.                           *)
Cleared == ClearedByLogout \cap ClearedBy401
ListInv == \A l \in Cleared : shown[l] \in {None} \cup Known

(* Nobody is logged in, or not for long.                                   *)
Away == session = None \/ LoginPending
AllOver == \A r \in Requests : CallOver(calls[r])
ListsOver == \A l \in Cleared : shown[l] \in {None} \cup overtaken
OverInv == Away => /\ session # None => session.token \in overtaken
                   /\ AllOver /\ ListsOver

SessionInv ==
  SessionTypeOK /\ CallsInv /\ ListInv /\ OverInv /\ SessionIsEarned /\ ShownIsSessions

(* The log stream and the terminal beside a cluster and a session's token: *)
(* a modal is open only beside both, and shows a container; a terminal has *)
(* a socket only when its modal has opened.                                *)
LogStates == [open : BOOLEAN, viewer : Targets \cup {None}, content : SUBSET Targets,
              status : {"stopped", "connecting", "live", "error"}]
TermStates == [open : BOOLEAN, ready : BOOLEAN, workspace : Targets \cup {None},
               status : {"disconnected", "connecting", "connected", "error"},
               socket : Slots \cup {None}]

Shows(open, target, cl, token) ==
  open => target \in Targets /\ cl # None /\ token # None

LogsCurrent(cl, token) ==
  /\ logs \in LogStates /\ logStreams \in SUBSET Streams
  /\ Shows(logs.open, logs.viewer, cl, token)
  /\ \A s \in logStreams :
       logs.open /\ s.cluster = cl /\ s.target = logs.viewer /\ s.token = token
  /\ logs.content \subseteq {logs.viewer} \/ ~ logs.open
  /\ logs.status = "live" <=> \E s \in logStreams : s.live
  /\ \A s, t \in logStreams : s = t

Joined(i) == InState(i, {"connecting", "open"})

TermCurrent(cl, token) ==
  /\ term \in TermStates /\ sockets \in [Slots -> Sockets \cup {None}]
  /\ Shows(term.open, term.workspace, cl, token)
  /\ term.open /\ ~ term.ready => term.socket = None
  /\ \A i \in Slots : Joined(i) =>
       /\ i = term.socket /\ term.open
       /\ sockets[i].cluster = cl /\ sockets[i].target = term.workspace
       /\ sockets[i].token = token
  /\ term.status = "connected" => term.socket # None /\ InState(term.socket, {"open"})

StreamInv ==
  /\ cluster \in Clusters \cup {None}
  /\ LogsCurrent(cluster, TokenOf(session)) /\ TermCurrent(cluster, TokenOf(session))

Inv == SessionInv /\ StreamInv

-----------------------------------------------------------------------------
(* The requests in flight.                                                 *)

(* What a call holds, by its kind.                                         *)
LEMMA CallFacts ==
  ASSUME NEW c \in Calls
  PROVE  /\ c # None
         /\ c.kind \in {"login", "me", "catalogs", "summary", "list", "orphan"}
         /\ c.kind # "login" => c.token \in Tokens
         /\ c.kind \in {"catalogs", "summary"} =>
              /\ c.keys \in Keysets
              /\ [c EXCEPT !.kind = "summary"] \in Calls
              /\ [c EXCEPT !.kind = "summary"].kind = "summary"
              /\ [c EXCEPT !.kind = "summary"].token = c.token
         /\ c.kind = "list" => c.list \in Lists
BY NoneAssumption DEF Calls

LEMMA NewCalls ==
  ASSUME NEW t \in Tokens
  PROVE  /\ [kind |-> "login"] \in Calls
         /\ [kind |-> "me", token |-> t] \in Calls
         /\ [kind |-> "orphan", token |-> t] \in Calls
         /\ \A keys \in Keysets : [kind |-> "catalogs", token |-> t, keys |-> keys] \in Calls
         /\ \A l \in Lists : [kind |-> "list", token |-> t, list |-> l] \in Calls
BY DEF Calls

(* A request more is one in one place, and all others as they were.        *)
LEMMA AskFacts ==
  ASSUME NEW cs \in [Requests -> Calls \cup {None}], NEW c \in Calls
  PROVE  /\ Ask(cs, c) \in [Requests -> Calls \cup {None}]
         /\ \A q, r \in Requests :
              \/ Ask(cs, c)[q] = cs[q]
              \/ Ask(cs, c)[q] = c /\ (q = r \/ Ask(cs, c)[r] = cs[r])
<1> SUFFICES ASSUME NEW x, Ask(cs, c) = [cs EXCEPT ![x] = c]
             PROVE  /\ Ask(cs, c) \in [Requests -> Calls \cup {None}]
                    /\ \A q, r \in Requests :
                         \/ Ask(cs, c)[q] = cs[q]
                         \/ Ask(cs, c)[q] = c /\ (q = r \/ Ask(cs, c)[r] = cs[r])
  BY DEF Ask
<1> QED
  OBVIOUS

LEMMA AnsweredFacts ==
  ASSUME calls \in [Requests -> Calls \cup {None}], NEW r \in Requests
  PROVE  /\ Answered(r) \in [Requests -> Calls \cup {None}]
         /\ \A q \in Requests : Answered(r)[q] = IF q = r THEN None ELSE calls[q]
BY DEF Answered

(* A call that may be sent, or may take another's place, in this state.    *)
Follows(c) == /\ c # None /\ c.kind # "login" /\ c.token \in Known
              /\ Away => c.token \in overtaken

(* The requests cs are those in flight but for some that follow them.      *)
Onwards(cs) ==
  /\ cs \in [Requests -> Calls \cup {None}]
  /\ \A q \in Requests : cs[q] = calls[q] \/ cs[q] = None \/ Follows(cs[q])

(* A call in flight is followed by calls with its own token.               *)
LEMMA FollowsFacts ==
  ASSUME SessionInv, NEW r \in Requests, calls[r] # None, calls[r].kind # "login"
  PROVE  /\ Follows(calls[r]) /\ calls[r] \in Calls /\ calls[r].token \in Tokens
         /\ \A c : c # None /\ c.kind # "login" /\ c.token = calls[r].token => Follows(c)
<1>1. calls[r] \in Calls
  BY DEF SessionInv, SessionTypeOK
<1>2. calls[r].token \in Tokens
  BY <1>1, CallFacts
<1>3. CallKnown(calls[r]) /\ (Away => CallOver(calls[r]))
  BY DEF SessionInv, CallsInv, OverInv, AllOver
<1> QED
  BY <1>1, <1>2, <1>3 DEF Follows, CallKnown, CallOver, Asking

(* The session's own calls.                                                *)
LEMMA SessionFollows ==
  ASSUME SessionInv, session # None
  PROVE  /\ session \in Sessions /\ session.token \in Tokens /\ session.keys \in Keysets
         /\ session.token \in Known /\ (Away => session.token \in overtaken)
         /\ \A c : c # None /\ c.kind # "login" /\ c.token = session.token => Follows(c)
<1>1. session \in Sessions
  BY DEF SessionInv, SessionTypeOK
<1>2. session.token \in Tokens /\ session.keys \in Keysets
  BY <1>1 DEF Sessions
<1>3. session.token \in Known /\ (Away => session.token \in overtaken)
  BY DEF SessionInv, SessionIsEarned, Known, OverInv
<1> QED
  BY <1>1, <1>2, <1>3 DEF Follows

LEMMA AskOnwards ==
  ASSUME SessionInv, NEW c \in Calls, Follows(c)
  PROVE  Onwards(Ask(calls, c))
<1> SUFFICES ASSUME NEW cs, cs = Ask(calls, c)
             PROVE  Onwards(cs)
  OBVIOUS
<1>1. calls \in [Requests -> Calls \cup {None}]
  BY DEF SessionInv, SessionTypeOK
<1>2. /\ cs \in [Requests -> Calls \cup {None}]
      /\ \A q \in Requests : cs[q] = calls[q] \/ cs[q] = c
  BY <1>1, AskFacts
<1> QED
  BY <1>2 DEF Onwards

LEMMA AnsweredOnwards ==
  ASSUME SessionInv, NEW r \in Requests
  PROVE  Onwards(Answered(r))
<1> SUFFICES ASSUME NEW cs, cs = Answered(r)
             PROVE  Onwards(cs)
  OBVIOUS
<1>1. calls \in [Requests -> Calls \cup {None}]
  BY DEF SessionInv, SessionTypeOK
<1>2. /\ cs \in [Requests -> Calls \cup {None}]
      /\ \A q \in Requests : cs[q] = IF q = r THEN None ELSE calls[q]
  BY <1>1, AnsweredFacts
<1> QED
  BY <1>2 DEF Onwards

(* A call that takes the place of one with the same token.                 *)
LEMMA PlaceOnwards ==
  ASSUME SessionInv, NEW r \in Requests, calls[r] # None, calls[r].kind # "login",
         NEW c \in Calls, c.kind # "login", c.token = calls[r].token
  PROVE  Onwards([calls EXCEPT ![r] = c])
<1> SUFFICES ASSUME NEW cs, cs = [calls EXCEPT ![r] = c]
             PROVE  Onwards(cs)
  OBVIOUS
<1>1. calls \in [Requests -> Calls \cup {None}]
  BY DEF SessionInv, SessionTypeOK
<1>2. Follows(c)
  BY CallFacts, FollowsFacts
<1> QED
  BY <1>1, <1>2 DEF Onwards

LEMMA OrphanOnwards ==
  ASSUME SessionInv, NEW r \in Requests, calls[r] # None, calls[r].kind # "login"
  PROVE  Onwards([calls EXCEPT ![r] = [kind |-> "orphan", token |-> @.token]])
<1>1. calls \in [Requests -> Calls \cup {None}] /\ calls[r].token \in Tokens
  BY FollowsFacts DEF SessionInv, SessionTypeOK
<1> SUFFICES ASSUME NEW c, c = [kind |-> "orphan", token |-> calls[r].token]
             PROVE  Onwards([calls EXCEPT ![r] = c])
  BY <1>1
<1>2. c \in Calls /\ c.kind # "login" /\ c.token = calls[r].token
  BY <1>1, NewCalls
<1> QED
  BY <1>2, PlaceOnwards

(* While nobody logs in, nothing is known to be over that was not, and     *)
(* what is in flight goes on, the requests stay as they should.            *)
LEMMA CallsKept ==
  ASSUME SessionInv, Onwards(calls'), UNCHANGED <<logins, overtaken>>
  PROVE  /\ calls' \in [Requests -> Calls \cup {None}]
         /\ CallsInv' /\ (LoginPending' => LoginPending) /\ (Away => AllOver')
<1>1. \A q \in Requests : \/ calls'[q] = calls[q] \/ calls'[q] = None \/ Follows(calls'[q])
  BY DEF Onwards
<1>2. \A q \in Requests : Awaiting(q, "login")' => Awaiting(q, "login")
  BY <1>1 DEF Awaiting, Follows
<1>3. (\A q \in Requests : CallKnown(calls[q]))'
  BY <1>1 DEF SessionInv, CallsInv, CallKnown, Asking, Follows, Known
<1>4. Away => AllOver'
  BY <1>1 DEF SessionInv, OverInv, AllOver, CallOver, Asking, Follows
<1>5. LoginPending' => LoginPending
  BY <1>2 DEF LoginPending
<1>6. CallsInv'
  BY <1>2, <1>3, <1>5 DEF SessionInv, CallsInv
<1> QED
  BY <1>4, <1>5, <1>6 DEF Onwards

-----------------------------------------------------------------------------
(* The lists on screen.                                                    *)

(* A step that neither begins nor ends a session: what is in flight goes   *)
(* on, and what is shown anew was read by the session's last or an earlier *)
(* token.                                                                  *)
ListsFrom(token) ==
  /\ shown' \in [Lists -> Tokens \cup {None}]
  /\ \A l \in Lists : shown'[l] \in {shown[l], None, token}

LEMMA ListsKept ==
  ASSUME SessionInv, NEW c, Follows(c), ListsFrom(c.token), UNCHANGED <<logins, overtaken>>
  PROVE  ListInv' /\ (Away => ListsOver')
<1>1. \A l \in Cleared : l \in Lists
  BY DEF Cleared, ClearedByLogout, Lists, Needs
<1>2. \A l \in Cleared : shown'[l] \in {shown[l], None, c.token}
  BY <1>1 DEF ListsFrom
<1> QED
  BY <1>2 DEF SessionInv, ListInv, OverInv, ListsOver, Follows, Known

(* Survivors are all the others; all but those kept are replaced when a    *)
(* hydration ends.                                                         *)
LEMMA SurvivorFacts ==
  /\ Survivors = Lists \ Cleared
  /\ Kept \subseteq Survivors
  /\ Lists = ReadAtHydration \cup Kept \cup {"grafanaCatalogs"}
BY DEF Survivors, Kept, Cleared, ClearedByLogout, ClearedBy401, ReadAtHydration, Lists, Needs

(* The lists that must be the session's own.                               *)
LEMMA OwnFacts ==
  ASSUME ShownIsSessions, session # None, session.token \notin overtaken,
         NEW l \in Lists, l \notin IF hydrated THEN Kept ELSE Survivors
  PROVE  shown[l] \in {None, session.token} \cup overtaken
BY DEF ShownIsSessions

(* Quiet: the session, what is stored of it and its view stay.             *)
LEMMA QuietKeeps ==
  ASSUME SessionInv, Onwards(calls'),
         UNCHANGED <<session, stored, activeView, shown, logins, overtaken, hydrated>>
  PROVE  SessionInv'
<1>1. /\ calls' \in [Requests -> Calls \cup {None}]
      /\ CallsInv' /\ (LoginPending' => LoginPending) /\ (Away => AllOver')
  BY CallsKept
<1>2. SessionTypeOK'
  BY <1>1 DEF SessionInv, SessionTypeOK
<1>3. ListInv' /\ (Away' => Away) /\ (Away => ListsOver')
  BY <1>1 DEF SessionInv, ListInv, OverInv, ListsOver, Away, Known
<1>4. OverInv'
  BY <1>1, <1>3 DEF SessionInv, OverInv
<1>5. SessionIsEarned' /\ ShownIsSessions'
  BY DEF SessionInv, SessionIsEarned, ShownIsSessions
<1> QED
  BY <1>1, <1>2, <1>3, <1>4, <1>5 DEF SessionInv

(* A list is shown beside the session as it is.                            *)
LEMMA ShowingKeeps ==
  ASSUME SessionInv, Onwards(calls'), NEW c, Follows(c), ListsFrom(c.token),
         UNCHANGED <<session, stored, activeView, logins, overtaken>>,
         hydrated' \in BOOLEAN, ShownIsSessions'
  PROVE  SessionInv'
<1>1. /\ calls' \in [Requests -> Calls \cup {None}]
      /\ CallsInv' /\ (LoginPending' => LoginPending) /\ (Away => AllOver')
  BY CallsKept
<1>2. SessionTypeOK'
  BY <1>1 DEF SessionInv, SessionTypeOK, ListsFrom
<1>3. ListInv' /\ (Away' => Away) /\ (Away => ListsOver')
  BY <1>1, ListsKept DEF Away
<1>4. OverInv'
  BY <1>1, <1>3 DEF SessionInv, OverInv
<1>5. SessionIsEarned'
  BY DEF SessionInv, SessionIsEarned
<1> QED
  BY <1>1, <1>2, <1>3, <1>4, <1>5 DEF SessionInv

(* What one session is shown: its own lists or an overtaken session's, but *)
(* for those that neither an end of the last session nor its own           *)
(* hydration replaced.                                                     *)
LEMMA ShownFacts ==
  ASSUME SessionInv, NEW c, Follows(c), ListsFrom(c.token), UNCHANGED <<session, overtaken>>,
         hydrated' = hydrated
  PROVE  ShownIsSessions'
<1> SUFFICES ASSUME session # None, session.token \notin overtaken, NEW l \in Lists,
                    l \notin IF hydrated THEN Kept ELSE Survivors
             PROVE  shown'[l] \in {None, session.token} \cup overtaken
  BY DEF ShownIsSessions
<1>1. c.token \in {session.token} \cup overtaken
  BY SessionFollows DEF Follows, Known
<1>2. CASE shown'[l] # shown[l]
  BY <1>1, <1>2 DEF ListsFrom
<1>3. CASE shown'[l] = shown[l]
  BY <1>3, OwnFacts DEF SessionInv
<1> QED
  BY <1>2, <1>3

-----------------------------------------------------------------------------
(* The actions of the session.                                             *)

LEMMA SubmitLoginKeeps ==
  ASSUME SessionInv, SubmitLogin
  PROVE  SessionInv'
<1> DEFINE c == [kind |-> "login"]
<1>1. /\ session = None /\ logins < MaxLogins /\ calls' = Ask(calls, c)
      /\ UNCHANGED <<session, stored, activeView, shown, logins, overtaken, hydrated>>
      /\ \A r \in Requests : ~ Awaiting(r, "login")
  BY DEF SubmitLogin
<1>2. c \in Calls /\ c.kind = "login"
  BY DEF Calls
<1>3. calls \in [Requests -> Calls \cup {None}]
  BY DEF SessionInv, SessionTypeOK
<1> HIDE DEF c
<1>4. /\ calls' \in [Requests -> Calls \cup {None}]
      /\ \A q, r \in Requests :
           \/ calls'[q] = calls[q]
           \/ calls'[q] = c /\ (q = r \/ calls'[r] = calls[r])
  BY <1>1, <1>2, <1>3, AskFacts
<1>5. \A q \in Requests : calls'[q] = calls[q] \/ calls'[q] = c
  BY <1>4
<1>6. (\A q, r \in Requests : Awaiting(q, "login") /\ Awaiting(r, "login") => q = r)'
  BY <1>1, <1>2, <1>4 DEF Awaiting
<1>7. (\A r \in Requests : CallKnown(calls[r]))'
  BY <1>1, <1>2, <1>5 DEF SessionInv, CallsInv, CallKnown, Asking, Known
<1>8. CallsInv'
  BY <1>1, <1>6, <1>7 DEF SessionInv, CallsInv
<1>9. Away /\ ListsOver'
  BY <1>1 DEF Away, SessionInv, OverInv, ListsOver
<1>10. AllOver'
  BY <1>1, <1>2, <1>5, <1>9 DEF SessionInv, OverInv, AllOver, CallOver, Asking
<1>11. OverInv'
  BY <1>1, <1>9, <1>10 DEF OverInv
<1>12. SessionTypeOK' /\ ListInv'
  BY <1>1, <1>4 DEF SessionInv, SessionTypeOK, ListInv, Known
<1>13. SessionIsEarned' /\ ShownIsSessions'
  BY <1>1 DEF SessionInv, SessionIsEarned, ShownIsSessions
<1> QED
  BY <1>8, <1>11, <1>12, <1>13 DEF SessionInv

LEMMA RefreshKeeps ==
  ASSUME SessionInv, Refresh
  PROVE  SessionInv'
<1>1. session # None
  BY DEF Refresh
<1> SUFFICES ASSUME NEW c, c = [kind |-> "me", token |-> session.token]
             PROVE  SessionInv'
  OBVIOUS
<1>2. c \in Calls /\ c # None /\ c.kind # "login" /\ c.token = session.token
  BY <1>1, SessionFollows, NewCalls, CallFacts
<1>3. Follows(c)
  BY <1>1, <1>2, SessionFollows
<1>4. Onwards(Ask(calls, c))
  BY <1>2, <1>3, AskOnwards
<1>5. calls' = Ask(calls, c)
  BY DEF Refresh
<1>6. Onwards(calls')
  BY <1>4, <1>5
<1> QED
  BY <1>6, QuietKeeps DEF Refresh

LEMMA ReadListKeeps ==
  ASSUME SessionInv, NEW l \in Lists, ReadList(l)
  PROVE  SessionInv'
<1>1. session # None
  BY DEF ReadList, KeysOf
<1> SUFFICES ASSUME NEW c, c = [kind |-> "list", token |-> session.token, list |-> l]
             PROVE  SessionInv'
  OBVIOUS
<1>2. c \in Calls /\ c # None /\ c.kind # "login" /\ c.token = session.token
  BY <1>1, SessionFollows, NewCalls, CallFacts
<1>3. Follows(c)
  BY <1>1, <1>2, SessionFollows
<1>4. Onwards(Ask(calls, c))
  BY <1>2, <1>3, AskOnwards
<1>5. calls' = Ask(calls, c)
  BY DEF ReadList
<1>6. Onwards(calls')
  BY <1>4, <1>5
<1> QED
  BY <1>6, QuietKeeps DEF ReadList

(* The menu offers only views the user may open.                           *)
LEMMA OpenViewKeeps ==
  ASSUME SessionInv, NEW v \in Views, OpenView(v)
  PROVE  SessionInv'
<1>1. /\ activeView' = v
      /\ UNCHANGED <<session, stored, calls, shown, logins, overtaken, hydrated>>
      /\ session # None
  BY DEF OpenView, KeysOf
<1>2. PICK i \in DOMAIN menuDefinitions :
        menuDefinitions[i][1] = v /\ menuDefinitions[i][2] \in session.keys
  BY <1>1 DEF OpenView, KeysOf
<1>3. MayShow(v, Accessible(session.keys))
  BY <1>2, Zenon DEF MayShow, Accessible
<1>4. SessionTypeOK' /\ CallsInv' /\ ListInv' /\ OverInv'
  BY <1>1 DEF SessionInv, SessionTypeOK, CallsInv, CallKnown, Asking, Known, LoginPending,
              Awaiting, ListInv, OverInv, Away, AllOver, CallOver, ListsOver
<1>5. SessionIsEarned'
  BY <1>1, <1>3 DEF SessionInv, SessionIsEarned
<1>6. ShownIsSessions'
  BY <1>1 DEF SessionInv, ShownIsSessions
<1> QED
  BY <1>4, <1>5, <1>6 DEF SessionInv

(* Among places in the menu there is a first one.                          *)
LEMMA LeastFacts ==
  ASSUME NEW S \in SUBSET Nat, S # {}
  PROVE  \E i \in S : \A j \in S : i <= j
<1>1. PICK i \in S : \A j \in S : ~ (<<j, i>> \in OpToRel(<, Nat))
  <2>1. IsWellFoundedOn(OpToRel(<, Nat), Nat)
    BY NatLessThanWellFounded
  <2> QED
    BY <2>1, WFMin
<1>2. \A j \in S : ~ (j < i)
  BY <1>1 DEF OpToRel
<1> QED
  BY <1>2

(* The view a render falls back on is one the user may open.               *)
LEMMA AllowedFacts ==
  ASSUME NEW view \in Views, NEW keys
  PROVE  /\ Allowed(view, Accessible(keys)) \in Views
         /\ MayShow(Allowed(view, Accessible(keys)), Accessible(keys))
<1> SUFFICES ASSUME NEW open, open = Accessible(keys)
             PROVE  Allowed(view, open) \in Views /\ MayShow(Allowed(view, open), open)
  OBVIOUS
<1>1. CASE MayShow(view, open)
  BY <1>1 DEF Allowed
<1>2. CASE ~ MayShow(view, open)
  <2>1. open # {} /\ open \subseteq DOMAIN menuDefinitions
    BY <1>2, Zenon DEF MayShow, Accessible
  <2>2. DOMAIN menuDefinitions \subseteq Nat
    BY DEF menuDefinitions
  <2>3. \E i \in open : \A j \in open : i <= j
    BY <2>1, <2>2, LeastFacts
  <2>4. PICK i \in open : i = CHOOSE k \in open : \A j \in open : k <= j
    BY <2>3
  <2>5. Allowed(view, open) = menuDefinitions[i][1]
    BY <1>2, <2>4 DEF Allowed
  <2>6. i \in DOMAIN menuDefinitions
    BY <2>1
  <2>7. menuDefinitions[i][1] \in Views
    BY <2>6, Zenon DEF Views
  <2> QED
    BY <2>5, <2>7, Zenon DEF MayShow
<1> QED
  BY <1>1, <1>2

(* F5: the session that is stored, and nothing else.                       *)
LEMMA ReloadKeeps ==
  ASSUME SessionInv, Reload
  PROVE  SessionInv'
<1>1. /\ session' = stored /\ stored = session /\ shown' = Blank /\ hydrated' = FALSE
      /\ activeView' = Allowed("dashboard", Accessible(KeysOf(session)))
      /\ UNCHANGED <<stored, logins, overtaken>>
  BY DEF Reload, SessionInv, SessionIsEarned
<1>2. /\ calls' \in [Requests -> Calls \cup {None}]
      /\ \A q \in Requests : calls'[q] = None \/ (session # None /\ Follows(calls'[q]))
  <2>1. CASE session = None
    <3>1. calls' = [r \in Requests |-> None]
      BY <1>1, <2>1 DEF Reload
    <3> QED
      BY <3>1
  <2>2. CASE session # None
    <3> SUFFICES ASSUME NEW c, c = [kind |-> "me", token |-> session.token]
                 PROVE  /\ calls' \in [Requests -> Calls \cup {None}]
                        /\ \A q \in Requests : calls'[q] = None \/ Follows(calls'[q])
      BY <2>2
    <3>1. c \in Calls /\ c # None /\ c.kind # "login" /\ c.token = session.token
      BY <2>2, SessionFollows, NewCalls, CallFacts
    <3>2. Follows(c)
      BY <2>2, <3>1, SessionFollows
    <3>3. calls' = [[r \in Requests |-> None] EXCEPT ![1] = c]
      BY <1>1, <2>2 DEF Reload
    <3>4. \A q \in Requests : calls'[q] \in {None, c}
      BY <3>3
    <3> QED
      BY <3>1, <3>2, <3>3, <3>4
  <2> QED
    BY <2>1, <2>2
<1>3. Onwards(calls')
  BY <1>2 DEF Onwards
<1>4. /\ CallsInv' /\ (LoginPending' => LoginPending) /\ (Away => AllOver')
  BY <1>1, <1>3, CallsKept
<1>5. \A l \in Lists : shown'[l] = None
  BY <1>1 DEF Blank
<1>6. shown' \in [Lists -> Tokens \cup {None}]
  BY <1>1 DEF Blank
<1>7. "dashboard" \in Views
  BY DEF Views, menuDefinitions
<1>8. activeView' \in Views /\ MayShow(activeView', Accessible(KeysOf(session)))
  BY <1>1, <1>7, AllowedFacts
<1>9. SessionTypeOK'
  BY <1>1, <1>2, <1>6, <1>8 DEF SessionInv, SessionTypeOK
<1>10. ListInv' /\ ListsOver'
  BY <1>5 DEF ListInv, ListsOver, Cleared, ClearedByLogout, Lists, Needs
<1>11. OverInv'
  BY <1>1, <1>4, <1>10 DEF SessionInv, OverInv, Away
<1>12. SessionIsEarned'
  BY <1>1, <1>8 DEF SessionInv, SessionIsEarned, KeysOf
<1>13. ShownIsSessions'
  BY <1>5 DEF ShownIsSessions
<1> QED
  BY <1>4, <1>9, <1>10, <1>11, <1>12, <1>13 DEF SessionInv

(* A session ends: every request in flight is one of an ended session.     *)
LEMMA LeaveKeeps ==
  ASSUME SessionInv, NEW cleared, NEW cs, Leave(cleared, cs), Onwards(cs),
         Cleared \subseteq cleared
  PROVE  SessionInv'
<1>1. /\ session' = None /\ stored' = None /\ calls' = cs /\ hydrated' = FALSE
      /\ shown' = [l \in Lists |-> IF l \in cleared THEN None ELSE shown[l]]
      /\ UNCHANGED <<activeView, logins>>
  BY DEF Leave
<1>2. /\ overtaken \subseteq overtaken'
      /\ \A r \in Requests : Asking(cs[r]) => cs[r].token \in overtaken'
      /\ \A t \in overtaken' : t \in overtaken \/ \E r \in Requests : Asking(cs[r]) /\ t = cs[r].token
  BY DEF Leave, Asking
<1>3. \A r \in Requests : Asking(cs[r]) => cs[r].token \in Known /\ cs[r].token \in Tokens
  <2> SUFFICES ASSUME NEW r \in Requests, Asking(cs[r])
               PROVE  cs[r].token \in Known /\ cs[r].token \in Tokens
    OBVIOUS
  <2>1. cs[r] \in Calls
    BY DEF Onwards, Asking
  <2>2. cs[r].token \in Tokens
    BY <2>1, CallFacts DEF Asking
  <2>3. cs[r] = calls[r] \/ Follows(cs[r])
    BY DEF Onwards, Asking
  <2> QED
    BY <2>2, <2>3 DEF SessionInv, CallsInv, CallKnown, Follows, Asking
<1>4. logins \in 0..MaxLogins /\ overtaken \subseteq 1..logins
  BY DEF SessionInv, SessionTypeOK, CallsInv
<1>5. overtaken' \subseteq 1..logins
  <2> SUFFICES ASSUME NEW t \in overtaken'
               PROVE  t \in 1..logins
    OBVIOUS
  <2>1. CASE t \in overtaken
    BY <1>4, <2>1
  <2>2. CASE t \in Known /\ t \in Tokens
    BY <1>4, <2>2, SessionBounds DEF Known, Tokens
  <2> QED
    BY <1>2, <1>3, <2>1, <2>2
<1>6. \A q \in Requests : Awaiting(q, "login")' => Awaiting(q, "login")
  BY <1>1 DEF Onwards, Awaiting, Follows
<1>7. AllOver' /\ (\A r \in Requests : CallKnown(calls[r]))'
  BY <1>1, <1>2 DEF AllOver, CallOver, CallKnown, Known, Asking
<1>8. CallsInv'
  BY <1>1, <1>5, <1>6, <1>7 DEF SessionInv, CallsInv, LoginPending
<1>9. shown \in [Lists -> Tokens \cup {None}]
  BY DEF SessionInv, SessionTypeOK
<1>10. /\ shown' \in [Lists -> Tokens \cup {None}]
       /\ \A l \in Cleared : shown'[l] = None
  BY <1>1, <1>9 DEF Cleared, ClearedByLogout, Lists, Needs
<1>11. ListInv' /\ ListsOver'
  BY <1>10 DEF ListInv, ListsOver
<1>12. overtaken' \in SUBSET Tokens
  BY <1>4, <1>5, SessionBounds DEF Tokens
<1>13. SessionTypeOK'
  BY <1>1, <1>10, <1>12 DEF SessionInv, SessionTypeOK, Onwards
<1>14. OverInv' /\ SessionIsEarned' /\ ShownIsSessions'
  BY <1>1, <1>7, <1>11 DEF OverInv, SessionIsEarned, ShownIsSessions
<1> QED
  BY <1>8, <1>11, <1>13, <1>14 DEF SessionInv

LEMMA LogoutKeeps ==
  ASSUME SessionInv, Logout
  PROVE  SessionInv'
<1>1. Onwards(calls)
  BY DEF Onwards, SessionInv, SessionTypeOK
<1>2. Leave(ClearedByLogout, calls) /\ Cleared \subseteq ClearedByLogout
  BY DEF Logout, Cleared
<1> QED
  BY <1>1, <1>2, LeaveKeeps

LEMMA UnauthorizedKeeps ==
  ASSUME SessionInv, NEW r \in Requests, Unauthorized(r)
  PROVE  SessionInv'
<1> DEFINE orphaned == [calls EXCEPT ![r] = [kind |-> "orphan", token |-> @.token]]
<1>1. Onwards(Answered(r)) /\ Onwards(orphaned)
  BY AnsweredOnwards, OrphanOnwards DEF Unauthorized
<1>2. Leave(ClearedBy401, Answered(r)) \/ Leave(ClearedBy401, orphaned)
  BY DEF Unauthorized
<1>3. Cleared \subseteq ClearedBy401
  BY DEF Cleared
<1> QED
  BY <1>1, <1>2, <1>3, LeaveKeeps

LEMMA CallFailsKeeps ==
  ASSUME SessionInv, NEW r \in Requests, CallFails(r)
  PROVE  SessionInv'
<1>1. CASE calls' = Answered(r)
  <2>1. Onwards(calls')
    BY <1>1, AnsweredOnwards
  <2> QED
    BY <2>1, QuietKeeps DEF CallFails
<1>2. CASE /\ calls[r].kind = "catalogs"
           /\ calls' = [calls EXCEPT ![r] = [kind |-> "orphan", token |-> @.token]]
  <2>1. Onwards(calls')
    BY <1>2, OrphanOnwards DEF CallFails
  <2> QED
    BY <2>1, QuietKeeps DEF CallFails
<1> QED
  BY <1>1, <1>2 DEF CallFails

LEMMA GotListKeeps ==
  ASSUME SessionInv, NEW r \in Requests, GotList(r)
  PROVE  SessionInv'
<1> SUFFICES ASSUME NEW c, c = calls[r]
             PROVE  SessionInv'
  OBVIOUS
<1>1. /\ c # None /\ c.kind = "list" /\ calls' = Answered(r)
      /\ shown' = [shown EXCEPT ![c.list] = c.token]
      /\ UNCHANGED <<session, stored, activeView, logins, overtaken, hydrated>>
  BY DEF GotList, Awaiting
<1>2. Follows(c) /\ c \in Calls /\ c.token \in Tokens
  BY <1>1, FollowsFacts
<1>3. Onwards(calls')
  BY <1>1, AnsweredOnwards
<1>4. shown \in [Lists -> Tokens \cup {None}] /\ hydrated \in BOOLEAN
  BY DEF SessionInv, SessionTypeOK
<1>5. ListsFrom(c.token)
  BY <1>1, <1>2, <1>4 DEF ListsFrom
<1>6. ShownIsSessions'
  BY <1>1, <1>2, <1>5, ShownFacts
<1> QED
  BY <1>1, <1>2, <1>3, <1>4, <1>5, <1>6, ShowingKeeps

(* The end of a hydration.                                                 *)
LEMMA FillFacts ==
  ASSUME SessionInv, NEW c, Follows(c), c.token \in Tokens, Fill(c),
         UNCHANGED <<session, overtaken>>
  PROVE  ListsFrom(c.token) /\ hydrated' \in BOOLEAN /\ ShownIsSessions'
<1>1. /\ shown' = [l \in Lists |->
                 IF l \in ReadAtHydration
                 THEN IF Needs[l] \in c.keys THEN c.token ELSE None
                 ELSE IF l = "grafanaCatalogs" THEN None ELSE shown[l]]
      /\ hydrated' = (hydrated \/ c.token = TokenOf(session))
  BY DEF Fill
<1>2. shown \in [Lists -> Tokens \cup {None}] /\ hydrated \in BOOLEAN
  BY DEF SessionInv, SessionTypeOK
<1>3. \A l \in Lists : /\ shown'[l] \in {shown[l], None, c.token}
                       /\ l \in ReadAtHydration \cup {"grafanaCatalogs"} =>
                            shown'[l] \in {None, c.token}
  BY <1>1
<1>4. ListsFrom(c.token)
  BY <1>1, <1>2, <1>3 DEF ListsFrom
<1>5. ShownIsSessions'
  <2> SUFFICES ASSUME session # None, session.token \notin overtaken, NEW l \in Lists,
                      l \notin IF hydrated' THEN Kept ELSE Survivors
               PROVE  shown'[l] \in {None, session.token} \cup overtaken
    BY DEF ShownIsSessions
  <2>1. c.token \in {session.token} \cup overtaken
    BY SessionFollows DEF Follows, Known, SessionInv, SessionIsEarned
  <2>2. l \notin Kept
    BY SurvivorFacts
  <2>3. l \in ReadAtHydration \cup {"grafanaCatalogs"}
    BY <2>2, SurvivorFacts
  <2> QED
    BY <1>3, <2>1, <2>3
<1>6. hydrated' \in BOOLEAN
  BY <1>1, <1>2
<1> QED
  BY <1>4, <1>5, <1>6

LEMMA GotCatalogsKeeps ==
  ASSUME SessionInv, NEW r \in Requests, GotCatalogs(r)
  PROVE  SessionInv'
<1> SUFFICES ASSUME NEW c, c = calls[r]
             PROVE  SessionInv'
  OBVIOUS
<1>1. /\ c # None /\ c.kind = "catalogs"
      /\ UNCHANGED <<session, stored, activeView, logins, overtaken>>
  BY DEF GotCatalogs, Awaiting
<1>2. Follows(c) /\ c \in Calls /\ c.token \in Tokens
  BY <1>1, FollowsFacts
<1>3. CASE calls' = [calls EXCEPT ![r] = [c EXCEPT !.kind = "summary"]] /\ UNCHANGED <<shown, hydrated>>
  <2> SUFFICES ASSUME NEW d, d = [c EXCEPT !.kind = "summary"]
               PROVE  SessionInv'
    OBVIOUS
  <2>1. d \in Calls /\ d.kind = "summary" /\ d.token = c.token
    BY <1>1, <1>2, CallFacts
  <2>2. Onwards([calls EXCEPT ![r] = d])
    BY <1>1, <2>1, PlaceOnwards
  <2>3. Onwards(calls')
    BY <1>3, <2>2
  <2> QED
    BY <1>1, <1>3, <2>3, QuietKeeps
<1>4. CASE calls' = Answered(r) /\ Fill(c)
  <2>1. Onwards(calls')
    BY <1>4, AnsweredOnwards
  <2>2. ListsFrom(c.token) /\ hydrated' \in BOOLEAN /\ ShownIsSessions'
    BY <1>1, <1>2, <1>4, FillFacts
  <2> QED
    BY <1>1, <1>2, <2>1, <2>2, ShowingKeeps
<1> QED
  BY <1>3, <1>4 DEF GotCatalogs

LEMMA GotSummaryKeeps ==
  ASSUME SessionInv, NEW r \in Requests, GotSummary(r)
  PROVE  SessionInv'
<1> SUFFICES ASSUME NEW c, c = calls[r]
             PROVE  SessionInv'
  OBVIOUS
<1>1. /\ c # None /\ c.kind = "summary" /\ calls' = Answered(r) /\ Fill(c)
      /\ UNCHANGED <<session, stored, activeView, logins, overtaken>>
  BY DEF GotSummary, Awaiting
<1>2. Follows(c) /\ c \in Calls /\ c.token \in Tokens
  BY <1>1, FollowsFacts
<1>3. Onwards(calls')
  BY <1>1, AnsweredOnwards
<1>4. ListsFrom(c.token) /\ hydrated' \in BOOLEAN /\ ShownIsSessions'
  BY <1>1, <1>2, FillFacts
<1> QED
  BY <1>1, <1>2, <1>3, <1>4, ShowingKeeps

Hydrating(token) == [kind |-> "me", token |-> token]

(* A session is rendered: its view is one of its user's, and a new token   *)
(* asks for the workspace anew.                                            *)
LEMMA EnterFacts ==
  ASSUME SessionInv, NEW s \in Sessions, NEW cs \in [Requests -> Calls \cup {None}],
         Enter(s, cs), NEW c, c = Hydrating(s.token)
  PROVE  /\ session' = s /\ s # None
         /\ activeView' \in Views /\ MayShow(activeView', Accessible(s.keys))
         /\ c \in Calls /\ c # None /\ c.kind = "me" /\ c.token = s.token
         /\ calls' \in [Requests -> Calls \cup {None}]
         /\ \A q \in Requests : calls'[q] = cs[q] \/ calls'[q] = c
         /\ hydrated' \in BOOLEAN
         /\ session # None /\ session.token = s.token => hydrated' = hydrated
         /\ session = None \/ session.token # s.token => hydrated' = FALSE
<1>1. s.token \in Tokens /\ s # None
  BY NoneAssumption DEF Sessions
<1>2. c \in Calls /\ c # None /\ c.kind = "me" /\ c.token = s.token
  BY <1>1, NewCalls, CallFacts DEF Hydrating
<1>3. activeView \in Views /\ hydrated \in BOOLEAN
  BY DEF SessionInv, SessionTypeOK
<1>4. activeView' \in Views /\ MayShow(activeView', Accessible(s.keys))
  BY <1>3, AllowedFacts DEF Enter
<1>5. TokenOf(session) = s.token <=> session # None /\ session.token = s.token
  BY <1>1, NoneAssumption DEF TokenOf
<1>6. CASE TokenOf(session) = s.token
  <2>1. calls' = cs /\ hydrated' = hydrated
    BY <1>6 DEF Enter
  <2> QED
    BY <1>1, <1>2, <1>3, <1>4, <1>5, <1>6, <2>1 DEF Enter
<1>7. CASE TokenOf(session) # s.token
  <2>1. calls' = Ask(cs, c) /\ hydrated' = FALSE
    BY <1>7 DEF Enter, Hydrating
  <2>2. /\ Ask(cs, c) \in [Requests -> Calls \cup {None}]
        /\ \A q \in Requests : Ask(cs, c)[q] = cs[q] \/ Ask(cs, c)[q] = c
    BY <1>2, AskFacts
  <2> QED
    BY <1>1, <1>2, <1>4, <1>5, <1>7, <2>1, <2>2 DEF Enter
<1> QED
  BY <1>6, <1>7

(* /auth/me may bring back a session that was over, but no other.          *)
LEMMA GotMeKeeps ==
  ASSUME SessionInv, NEW r \in Requests, GotMe(r)
  PROVE  SessionInv' /\ session' # None
<1>1. calls[r] # None /\ calls[r].kind = "me" /\ UNCHANGED <<shown, logins, overtaken>>
  BY DEF GotMe, Awaiting
<1>2. /\ Follows(calls[r]) /\ calls[r].token \in Tokens
      /\ \A c : c # None /\ c.kind # "login" /\ c.token = calls[r].token => Follows(c)
  BY <1>1, FollowsFacts
<1> SUFFICES ASSUME NEW t, t = calls[r].token, NEW keys \in Rights[t],
                    NEW s, s = [token |-> t, keys |-> keys],
                    NEW d, d = [kind |-> "catalogs", token |-> t, keys |-> keys],
                    NEW cs, cs = [calls EXCEPT ![r] = d],
                    NEW c, c = Hydrating(s.token),
                    stored' = s, Enter(s, cs)
             PROVE  SessionInv' /\ session' # None
  BY DEF GotMe
<1>3. keys \in Keysets /\ t \in Tokens
  BY <1>2 DEF Keysets
<1>4. s \in Sessions /\ s.token = t /\ s.keys = keys
  BY <1>3 DEF Sessions
<1>5. d \in Calls /\ d.kind = "catalogs" /\ d.token = t
  BY <1>3, NewCalls
<1>6. Onwards(cs)
  BY <1>1, <1>5, PlaceOnwards
<1>7. cs \in [Requests -> Calls \cup {None}]
  BY <1>6 DEF Onwards
<1>8. /\ session' = s /\ s # None
      /\ activeView' \in Views /\ MayShow(activeView', Accessible(s.keys))
      /\ c \in Calls /\ c # None /\ c.kind = "me" /\ c.token = s.token
      /\ calls' \in [Requests -> Calls \cup {None}]
      /\ \A q \in Requests : calls'[q] = cs[q] \/ calls'[q] = c
      /\ hydrated' \in BOOLEAN
      /\ session # None /\ session.token = s.token => hydrated' = hydrated
      /\ session = None \/ session.token # s.token => hydrated' = FALSE
  BY ONLY SessionInv, <1>4, <1>7, Enter(s, cs), c = Hydrating(s.token), EnterFacts
<1>9. Follows(c)
  BY <1>2, <1>4, <1>8
<1>10. Onwards(calls')
  BY <1>6, <1>8, <1>9 DEF Onwards
<1>11. CallsInv' /\ (LoginPending' => LoginPending) /\ (Away => AllOver')
  BY <1>1, <1>10, CallsKept
<1>12. SessionTypeOK'
  BY <1>1, <1>4, <1>8 DEF SessionInv, SessionTypeOK
<1>13. t \in Known /\ (Away => t \in overtaken)
  BY <1>2 DEF Follows
<1>14. ListInv' /\ (Away => ListsOver')
  BY <1>1 DEF SessionInv, ListInv, OverInv, ListsOver, Known
<1>15. OverInv'
  BY <1>1, <1>4, <1>8, <1>11, <1>13, <1>14 DEF OverInv, Away
<1>16. SessionIsEarned'
  BY <1>1, <1>4, <1>8, <1>13 DEF SessionIsEarned, Known
<1>17. ShownIsSessions'
  <2>1. CASE session # None /\ session.token = t
    BY <1>1, <1>4, <1>8, <2>1 DEF SessionInv, ShownIsSessions
  <2>2. CASE ~ (session # None /\ session.token = t)
    <3> SUFFICES ASSUME t \notin overtaken, NEW l \in Lists
                 PROVE  shown[l] \in {None, t} \cup overtaken \/ l \in Survivors
      BY <1>1, <1>4, <1>8, <2>2 DEF ShownIsSessions
    <3>1. CASE l \in Cleared
      BY <1>13, <3>1 DEF SessionInv, ListInv, Known
    <3>2. CASE l \notin Cleared
      BY <3>2, SurvivorFacts
    <3> QED
      BY <3>1, <3>2
  <2> QED
    BY <2>1, <2>2
<1> QED
  BY <1>8, <1>11, <1>12, <1>14, <1>15, <1>16, <1>17 DEF SessionInv

(* A login: whatever is in flight or on screen is of a session that is     *)
(* over.                                                                   *)
LEMMA LoggedInKeeps ==
  ASSUME SessionInv, NEW r \in Requests, LoggedIn(r)
  PROVE  SessionInv' /\ session' # None
<1>1. /\ Awaiting(r, "login") /\ calls[r] # None /\ calls[r].kind = "login"
      /\ logins' = logins + 1 /\ UNCHANGED <<shown, overtaken>>
  BY DEF LoggedIn, Awaiting
<1> SUFFICES ASSUME NEW t, t = logins + 1, NEW keys \in Rights[t],
                    NEW s, s = [token |-> t, keys |-> keys],
                    NEW cs, cs = Answered(r),
                    NEW c, c = Hydrating(s.token),
                    stored' = s, Enter(s, cs)
             PROVE  SessionInv' /\ session' # None
  BY DEF LoggedIn
<1>2. LoginPending /\ Away
  BY <1>1 DEF LoginPending, Away
<1>3. logins \in 0..MaxLogins /\ logins < MaxLogins /\ overtaken \subseteq 1..logins
  BY <1>2 DEF SessionInv, SessionTypeOK, CallsInv
<1>4. t \in Tokens /\ t = logins' /\ t \notin overtaken /\ t \in 0..MaxLogins
  BY <1>1, <1>3, SessionBounds DEF Tokens
<1>5. keys \in Keysets
  BY <1>4 DEF Keysets
<1>6. s \in Sessions /\ s.token = t /\ s.keys = keys
  BY <1>4, <1>5 DEF Sessions
<1>7. calls \in [Requests -> Calls \cup {None}]
  BY DEF SessionInv, SessionTypeOK
<1>8. /\ cs \in [Requests -> Calls \cup {None}]
      /\ \A q \in Requests : cs[q] = IF q = r THEN None ELSE calls[q]
  BY <1>7, AnsweredFacts
<1>9. /\ session' = s /\ s # None
      /\ activeView' \in Views /\ MayShow(activeView', Accessible(s.keys))
      /\ c \in Calls /\ c # None /\ c.kind = "me" /\ c.token = s.token
      /\ calls' \in [Requests -> Calls \cup {None}]
      /\ \A q \in Requests : calls'[q] = cs[q] \/ calls'[q] = c
      /\ hydrated' \in BOOLEAN
      /\ session # None /\ session.token = s.token => hydrated' = hydrated
      /\ session = None \/ session.token # s.token => hydrated' = FALSE
  <2>1. cs \in [Requests -> Calls \cup {None}]
    BY <1>8
  <2> QED
    BY ONLY SessionInv, <1>6, <2>1, Enter(s, cs), c = Hydrating(s.token), EnterFacts
<1>10. AllOver /\ ListsOver /\ (session # None => session.token \in overtaken)
  BY <1>2 DEF SessionInv, OverInv
<1>11. hydrated' = FALSE
  BY <1>4, <1>6, <1>9, <1>10
<1>12. \A q \in Requests : ~ Awaiting(q, "login")'
  <2> SUFFICES ASSUME NEW q \in Requests, calls'[q] # None, calls'[q].kind = "login"
               PROVE  FALSE
    BY DEF Awaiting
  <2>1. q # r /\ calls'[q] = calls[q]
    BY <1>8, <1>9
  <2>2. Awaiting(q, "login")
    BY <2>1 DEF Awaiting
  <2> QED
    BY <1>1, <2>1, <2>2 DEF SessionInv, CallsInv
<1>13. ~ LoginPending'
  BY <1>12 DEF LoginPending
<1>14. overtaken' \subseteq 1..logins'
  BY <1>1, <1>3
<1>15. (\A q \in Requests : CallKnown(calls[q]))'
  <2> SUFFICES ASSUME NEW q \in Requests, Asking(calls'[q])
               PROVE  calls'[q].token \in overtaken \cup {t}
    BY <1>1, <1>4 DEF CallKnown, Known, Asking
  <2>1. CASE calls'[q] = c
    BY <1>6, <1>9, <2>1
  <2>2. CASE calls'[q] = calls[q]
    BY <1>10, <2>2 DEF AllOver, CallOver, Asking
  <2> QED
    BY <1>8, <1>9, <2>1, <2>2 DEF Asking
<1>16. CallsInv'
  BY <1>12, <1>13, <1>14, <1>15 DEF CallsInv
<1>17. SessionTypeOK'
  BY <1>1, <1>4, <1>6, <1>9 DEF SessionInv, SessionTypeOK
<1>18. ListInv'
  BY <1>1, <1>10 DEF ListInv, ListsOver, Known
<1>19. OverInv'
  BY <1>9, <1>13 DEF OverInv, Away
<1>20. SessionIsEarned'
  BY <1>4, <1>6, <1>9 DEF SessionIsEarned
<1>21. ShownIsSessions'
  <2> SUFFICES ASSUME NEW l \in Lists
               PROVE  shown[l] \in {None, t} \cup overtaken \/ l \in Survivors
    BY <1>1, <1>6, <1>9, <1>11 DEF ShownIsSessions
  <2>1. CASE l \in Cleared
    BY <1>10, <2>1 DEF ListsOver
  <2>2. CASE l \notin Cleared
    BY <2>2, SurvivorFacts
  <2> QED
    BY <2>1, <2>2
<1> QED
  BY <1>9, <1>16, <1>17, <1>18, <1>19, <1>20, <1>21 DEF SessionInv

(* Nobody is logged in yet.                                                *)
LEMMA SessionInitInv ==
  ASSUME SessionInit
  PROVE  SessionInv
<1>1. /\ session = None /\ stored = None /\ activeView = "dashboard"
      /\ calls = [r \in Requests |-> None] /\ shown = [l \in Lists |-> None]
      /\ logins = 0 /\ overtaken = {} /\ hydrated = FALSE
  BY DEF SessionInit, Blank
<1>2. \A r \in Requests : calls[r] = None
  BY <1>1
<1>3. \A l \in Lists : shown[l] = None
  BY <1>1
<1>4. "dashboard" \in Views /\ 0 \in 0..MaxLogins
  BY SessionBounds DEF Views, menuDefinitions
<1>5. calls \in [Requests -> Calls \cup {None}] /\ shown \in [Lists -> Tokens \cup {None}]
  BY <1>1
<1>6. SessionTypeOK
  BY <1>1, <1>4, <1>5 DEF SessionTypeOK
<1>7. ~ LoginPending
  BY <1>2 DEF LoginPending, Awaiting
<1>8. CallsInv /\ AllOver
  BY <1>1, <1>2, <1>7 DEF CallsInv, CallKnown, AllOver, CallOver, Asking, Awaiting
<1>9. ListInv /\ ListsOver
  BY <1>3 DEF ListInv, ListsOver, Cleared, ClearedByLogout, Lists, Needs
<1>10. OverInv /\ SessionIsEarned /\ ShownIsSessions
  BY <1>1, <1>8, <1>9 DEF OverInv, SessionIsEarned, ShownIsSessions
<1> QED
  BY <1>6, <1>8, <1>9, <1>10 DEF SessionInv

-----------------------------------------------------------------------------
(* The streams.                                                            *)

LEMMA TokenFacts ==
  ASSUME SessionInv
  PROVE  /\ TokenOf(session) \in Tokens \cup {None}
         /\ TokenOf(session) = None <=> session = None
         /\ session # None => TokenOf(session) = session.token
<1>1. session # None => session.token \in Tokens
  BY SessionFollows
<1> QED
  BY <1>1, NoneAssumption DEF TokenOf

LEMMA NoneFacts ==
  /\ None \notin Clusters /\ None \notin Targets /\ None \notin Slots /\ None \notin Sockets
  /\ None \notin Tokens
BY NoneIsNothing, NoneAssumption

LEMMA TargetFacts ==
  ASSUME NEW t \in Targets, NEW c \in Containers
  PROVE  [t EXCEPT ![2] = c] \in Targets
BY DEF Targets

(* The modal of the logs is closed.                                        *)
LEMMA NoLogsCurrent ==
  ASSUME logs' = NoLogs, logStreams' = {}, NEW cl, NEW token
  PROVE  LogsCurrent(cl, token)'
<1>1. /\ logs' \in LogStates /\ logs'.open = FALSE /\ logs'.status = "stopped"
  BY DEF NoLogs, LogStates
<1> QED
  BY <1>1 DEF LogsCurrent, Shows

(* The effect of the logs leaves one stream, of what the modal shows.      *)
LEMMA RunLogsCurrent ==
  ASSUME NEW l \in LogStates, NEW cl \in Clusters \cup {None},
         NEW token \in Tokens \cup {None}, RunLogs(l, cl, token),
         Shows(l.open, l.viewer, cl, token)
  PROVE  LogsCurrent(cl, token)'
<1>1. CASE l.open /\ l.viewer # None /\ cl # None
  <2> DEFINE s == [cluster |-> cl, target |-> l.viewer, token |-> token, live |-> FALSE]
  <2>1. logs' = [l EXCEPT !.status = "connecting", !.content = {}] /\ logStreams' = {s}
    BY <1>1 DEF RunLogs
  <2>2. l.viewer \in Targets /\ cl \in Clusters /\ token \in Tokens
    BY <1>1 DEF Shows
  <2>3. /\ s \in Streams /\ s.cluster = cl /\ s.target = l.viewer /\ s.token = token
        /\ ~ s.live
    BY <2>2 DEF Streams
  <2>4. /\ logs' \in LogStates /\ logs'.open = l.open /\ logs'.viewer = l.viewer
        /\ logs'.status = "connecting" /\ logs'.content = {}
    BY <2>1 DEF LogStates
  <2> HIDE DEF s
  <2> QED
    BY <1>1, <2>1, <2>2, <2>3, <2>4, NoneFacts DEF LogsCurrent, Shows
<1>2. CASE ~ (l.open /\ l.viewer # None /\ cl # None)
  BY <1>2, NoLogsCurrent DEF RunLogs
<1> QED
  BY <1>1, <1>2

LEMMA LogsKept ==
  ASSUME NEW cl, NEW token, LogsCurrent(cl, token), UNCHANGED <<logs, logStreams>>
  PROVE  LogsCurrent(cl, token)'
BY DEF LogsCurrent

(* The stream delivers what was asked for last.                            *)
LEMMA LogEventCurrent ==
  ASSUME NEW cl, NEW token, LogsCurrent(cl, token), NEW s \in logStreams, LogEvent(s)
  PROVE  LogsCurrent(cl, token)'
<1>1. /\ logs \in LogStates /\ logStreams = {s} /\ s \in Streams
      /\ logs.open /\ s.cluster = cl /\ s.target = logs.viewer /\ s.token = token
      /\ logs.content \subseteq {logs.viewer} /\ (logs.status = "live" <=> s.live)
      /\ Shows(TRUE, logs.viewer, cl, token)
  BY DEF LogsCurrent, Shows
<1>2. CASE /\ ~ s.live
           /\ logs' = [logs EXCEPT !.status = "live"]
           /\ logStreams' = (logStreams \ {s}) \cup {[s EXCEPT !.live = TRUE]}
  <2> DEFINE t == [s EXCEPT !.live = TRUE]
  <2>1. /\ t \in Streams /\ t.cluster = cl /\ t.target = logs.viewer /\ t.token = token
        /\ t.live
    BY <1>1 DEF Streams
  <2>2. /\ logs' \in LogStates /\ logs'.open = logs.open /\ logs'.viewer = logs.viewer
        /\ logs'.content = logs.content /\ logs'.status = "live"
    BY <1>1, <1>2 DEF LogStates
  <2>3. logStreams' = {t}
    BY <1>1, <1>2
  <2> HIDE DEF t
  <2> QED
    BY <1>1, <2>1, <2>2, <2>3 DEF LogsCurrent, Shows
<1>3. CASE /\ s.live
           /\ logs' = [logs EXCEPT !.content = @ \cup {s.target}]
           /\ UNCHANGED logStreams
  <2>1. /\ logs' \in LogStates /\ logs'.open = logs.open /\ logs'.viewer = logs.viewer
        /\ logs'.content = logs.content \cup {logs.viewer} /\ logs'.status = logs.status
    BY <1>1, <1>3 DEF LogStates, Shows
  <2> QED
    BY <1>1, <1>3, <2>1 DEF LogsCurrent, Shows
<1>4. ASSUME NEW status \in {"stopped", "error"}, logs' = [logs EXCEPT !.status = status],
             logStreams' = logStreams \ {s}
      PROVE  LogsCurrent(cl, token)'
  <2>1. /\ logs' \in LogStates /\ logs'.open = logs.open /\ logs'.viewer = logs.viewer
        /\ logs'.content = logs.content /\ logs'.status # "live"
    BY <1>1, <1>4 DEF LogStates
  <2>2. logStreams' = {}
    BY <1>1, <1>4
  <2> QED
    BY <1>1, <2>1, <2>2 DEF LogsCurrent, Shows
<1> QED
  BY <1>2, <1>3, <1>4 DEF LogEvent

(* The terminal is closed; its modal may not have reported that.           *)
LEMMA ClosedFacts ==
  ASSUME sockets \in [Slots -> Sockets \cup {None}]
  PROVE  /\ AllClosed \in [Slots -> Sockets \cup {None}]
         /\ \A i \in Slots : AllClosed[i] # None =>
              AllClosed[i].state \notin {"connecting", "open"}
<1>1. ASSUME NEW s \in Sockets \cup {None}
      PROVE  /\ CloseSocket(s) \in Sockets \cup {None}
             /\ CloseSocket(s) # None => CloseSocket(s).state \notin {"connecting", "open"}
  <2>1. CASE s = None
    BY <2>1 DEF CloseSocket
  <2>2. CASE s # None
    <3>1. /\ [state |-> "aborted"] \in Sockets /\ [state |-> "closing"] \in Sockets
          /\ [state |-> "aborted"].state = "aborted" /\ [state |-> "closing"].state = "closing"
      BY DEF Sockets
    <3>2. s \in Sockets
      BY <2>2
    <3>3. CASE s.state = "connecting"
      <4>1. CloseSocket(s) = [state |-> "aborted"]
        BY <2>2, <3>3 DEF CloseSocket
      <4> QED
        BY <3>1, <4>1
    <3>4. CASE s.state = "open"
      <4>1. CloseSocket(s) = [state |-> "closing"]
        BY <2>2, <3>4 DEF CloseSocket
      <4> QED
        BY <3>1, <4>1
    <3>5. CASE s.state \notin {"connecting", "open"}
      BY <2>2, <3>2, <3>5 DEF CloseSocket
    <3> QED
      BY <3>3, <3>4, <3>5
  <2> QED
    BY <2>1, <2>2
<1>2. AllClosed = [i \in Slots |-> CloseSocket(sockets[i])]
  BY DEF AllClosed
<1>3. \A i \in Slots : AllClosed[i] = CloseSocket(sockets[i]) /\ sockets[i] \in Sockets \cup {None}
  BY <1>2
<1> QED
  BY <1>1, <1>2, <1>3

LEMMA ClosedCurrent ==
  ASSUME NEW t \in TermStates, NEW cl, NEW token,
         t.socket = None, t.status # "connected", Shows(t.open, t.workspace, cl, token),
         sockets \in [Slots -> Sockets \cup {None}],
         term' = t, sockets' = AllClosed
  PROVE  TermCurrent(cl, token)'
BY ClosedFacts DEF TermCurrent, Joined, InState

LEMMA NoTermFacts ==
  ASSUME NEW ready \in BOOLEAN
  PROVE  LET t == [NoTerm EXCEPT !.ready = ready]
         IN  /\ t \in TermStates /\ t.open = FALSE /\ t.ready = ready /\ t.workspace = None
             /\ t.status = "disconnected" /\ t.socket = None
BY DEF NoTerm, TermStates

(* The effect of the terminal leaves one socket that is not closed, of     *)
(* what the modal shows, or none.                                          *)
LEMMA RunTermCurrent ==
  ASSUME NEW t \in TermStates, NEW cl \in Clusters \cup {None},
         NEW token \in Tokens \cup {None}, RunTerm(t, cl, token),
         Shows(t.open, t.workspace, cl, token), t.ready \/ t.status # "connected",
         sockets \in [Slots -> Sockets \cup {None}]
  PROVE  TermCurrent(cl, token)'
<1>1. CASE t.open /\ t.ready /\ t.workspace # None /\ cl # None
  <2> DEFINE s == [cluster |-> cl, target |-> t.workspace, token |-> token,
                   state |-> "connecting"]
  <2>1. PICK i \in Slots : /\ term' = [t EXCEPT !.status = "connecting", !.socket = i]
                           /\ sockets' = [AllClosed EXCEPT ![i] = s]
    BY <1>1 DEF RunTerm
  <2>2. t.workspace \in Targets /\ cl \in Clusters /\ token \in Tokens
    BY <1>1 DEF Shows
  <2>3. /\ s \in Sockets /\ s.cluster = cl /\ s.target = t.workspace /\ s.token = token
    BY <2>2 DEF Sockets
  <2>4. /\ term' \in TermStates /\ term'.open = t.open /\ term'.ready = t.ready
        /\ term'.workspace = t.workspace /\ term'.status = "connecting" /\ term'.socket = i
    BY <2>1 DEF TermStates
  <2> HIDE DEF s
  <2>5. /\ sockets' \in [Slots -> Sockets \cup {None}] /\ sockets'[i] = s
        /\ \A j \in Slots : j # i => ~ Joined(j)'
    BY <2>1, <2>3, ClosedFacts DEF Joined, InState
  <2> QED
    BY <1>1, <2>2, <2>3, <2>4, <2>5, NoneFacts DEF TermCurrent, Shows
<1>2. CASE t.open /\ ~ (t.ready /\ t.workspace # None /\ cl # None)
  <2>1. term' = [t EXCEPT !.socket = None] /\ sockets' = AllClosed
    BY <1>2 DEF RunTerm
  <2>2. t.status # "connected"
    BY <1>2, NoneFacts DEF Shows
  <2>3. [t EXCEPT !.socket = None] \in TermStates
    BY DEF TermStates
  <2> SUFFICES ASSUME NEW u, u = [t EXCEPT !.socket = None]
               PROVE  TermCurrent(cl, token)'
    OBVIOUS
  <2>4. /\ u \in TermStates /\ u.open = t.open /\ u.workspace = t.workspace
        /\ u.status = t.status /\ u.socket = None
    BY <2>3 DEF TermStates
  <2> QED
    BY <2>1, <2>2, <2>4, ClosedCurrent
<1>3. CASE ~ t.open
  <2>1. term' = [NoTerm EXCEPT !.ready = t.ready] /\ sockets' = AllClosed
    BY <1>3 DEF RunTerm
  <2>2. t.ready \in BOOLEAN
    BY DEF TermStates
  <2> SUFFICES ASSUME NEW u, u = [NoTerm EXCEPT !.ready = t.ready]
               PROVE  TermCurrent(cl, token)'
    OBVIOUS
  <2>3. /\ u \in TermStates /\ u.open = FALSE
        /\ u.status = "disconnected" /\ u.socket = None
    BY <2>2, NoTermFacts
  <2> QED
    BY <2>1, <2>3, ClosedCurrent DEF Shows
<1> QED
  BY <1>1, <1>2, <1>3

LEMMA TermKept ==
  ASSUME NEW cl, NEW token, TermCurrent(cl, token), UNCHANGED <<term, sockets>>
  PROVE  TermCurrent(cl, token)'
BY DEF TermCurrent, Joined, InState

(* Events of a socket.                                                     *)
LEMMA SocketFacts ==
  ASSUME NEW s \in Sockets
  PROVE  /\ s # None
         /\ s.state \in {"connecting", "open", "aborted", "closing"}
         /\ [state |-> "closing"] \in Sockets /\ [state |-> "closing"].state = "closing"
         /\ s.state = "connecting" =>
              LET o == [s EXCEPT !.state = "open"]
              IN  /\ o \in Sockets /\ o.state = "open" /\ o.cluster = s.cluster
                  /\ o.target = s.target /\ o.token = s.token
BY NoneFacts DEF Sockets

(* One socket changes, and the status with it: a closed one is no longer   *)
(* shown, and connected is what has just opened.                           *)
LEMMA HearCurrent ==
  ASSUME NEW cl, NEW token, TermCurrent(cl, token),
         NEW i \in Slots, NEW s \in Sockets \cup {None},
         NEW status \in {"disconnected", "connected", "error"}, Hear(i, s, status),
         s # None /\ s.state \in {"connecting", "open"} =>
           /\ Joined(i) /\ s.cluster = sockets[i].cluster
           /\ s.target = sockets[i].target /\ s.token = sockets[i].token,
         status = "connected" => s # None /\ s.state = "open"
  PROVE  TermCurrent(cl, token)'
<1>1. /\ sockets' = [sockets EXCEPT ![i] = s]
      /\ term' = [term EXCEPT !.status = status,
                              !.socket = IF s = None /\ @ = i THEN None ELSE @]
  BY DEF Hear
<1>2. term \in TermStates /\ sockets \in [Slots -> Sockets \cup {None}]
  BY DEF TermCurrent
<1> SUFFICES ASSUME NEW socket, socket = IF s = None /\ term.socket = i THEN None ELSE term.socket
             PROVE  TermCurrent(cl, token)'
  OBVIOUS
<1>3. socket \in Slots \cup {None} /\ (socket = term.socket \/ (s = None /\ socket = None /\ term.socket = i))
  BY <1>2 DEF TermStates
<1>4. term' = [term EXCEPT !.status = status, !.socket = socket]
  BY <1>1, <1>2 DEF TermStates
<1>5. /\ term' \in TermStates /\ term'.open = term.open /\ term'.ready = term.ready
      /\ term'.workspace = term.workspace /\ term'.status = status /\ term'.socket = socket
  BY <1>2, <1>3, <1>4 DEF TermStates
<1>6. /\ sockets' \in [Slots -> Sockets \cup {None}] /\ sockets'[i] = s
      /\ \A j \in Slots : j # i => sockets'[j] = sockets[j]
  BY <1>1, <1>2
<1>7. ASSUME NEW j \in Slots, Joined(j)'
      PROVE  /\ Joined(j) /\ j = term'.socket
             /\ sockets'[j].cluster = sockets[j].cluster
             /\ sockets'[j].target = sockets[j].target
             /\ sockets'[j].token = sockets[j].token
  <2>1. CASE j = i
    <3>1. s # None /\ s.state \in {"connecting", "open"}
      BY <1>6, <1>7, <2>1 DEF Joined, InState
    <3>2. Joined(i) /\ i = term.socket
      BY <3>1 DEF TermCurrent
    <3> QED
      BY <1>3, <1>5, <1>6, <2>1, <3>1, <3>2
  <2>2. CASE j # i
    <3>1. Joined(j)
      BY <1>6, <1>7, <2>2 DEF Joined, InState
    <3>2. j = term.socket
      BY <3>1 DEF TermCurrent
    <3> QED
      BY <1>3, <1>5, <1>6, <2>2, <3>1, <3>2
  <2> QED
    BY <2>1, <2>2
<1>8. ASSUME status = "connected"
      PROVE  term'.socket # None /\ InState(term.socket, {"open"})'
  <2>1. s # None /\ s.state = "open" /\ Joined(i)
    BY <1>8
  <2>2. i = term.socket /\ i # None
    BY <2>1, NoneFacts DEF TermCurrent
  <2> QED
    BY <1>3, <1>5, <1>6, <2>1, <2>2 DEF InState
<1>9. term'.open /\ ~ term'.ready => term'.socket = None
  BY <1>3, <1>5 DEF TermCurrent
<1>10. Shows(term'.open, term'.workspace, cl, token)
  BY <1>5 DEF TermCurrent
<1>11. \A j \in Slots : Joined(j) =>
         /\ j = term.socket /\ term.open
         /\ sockets[j].cluster = cl /\ sockets[j].target = term.workspace
         /\ sockets[j].token = token
  BY DEF TermCurrent
<1>12. (\A j \in Slots : Joined(j) =>
         /\ j = term.socket /\ term.open
         /\ sockets[j].cluster = cl /\ sockets[j].target = term.workspace
         /\ sockets[j].token = token)'
  BY <1>5, <1>7, <1>11
<1> QED
  BY <1>5, <1>6, <1>8, <1>9, <1>10, <1>12 DEF TermCurrent

LEMMA SocketEventCurrent ==
  ASSUME NEW cl, NEW token, TermCurrent(cl, token), NEW i \in Slots,
         SocketOpens(i) \/ SocketFails(i) \/ SocketCloses(i) \/ ServerSays(i)
  PROVE  TermCurrent(cl, token)' /\ UNCHANGED <<cluster, logs, logStreams>>
<1>1. sockets[i] \in Sockets \cup {None}
  BY DEF TermCurrent
<1>2. CASE SocketOpens(i)
  <2> SUFFICES ASSUME NEW s, s = [sockets[i] EXCEPT !.state = "open"]
               PROVE  TermCurrent(cl, token)' /\ UNCHANGED <<cluster, logs, logStreams>>
    OBVIOUS
  <2>1. /\ sockets[i] \in Sockets /\ sockets[i].state = "connecting" /\ Joined(i)
        /\ Hear(i, s, "connected")
    BY <1>1, <1>2 DEF SocketOpens, InState, Joined
  <2>2. /\ s \in Sockets /\ s.state = "open" /\ s.cluster = sockets[i].cluster
        /\ s.target = sockets[i].target /\ s.token = sockets[i].token
    BY <2>1, SocketFacts
  <2>3. s # None
    BY <2>2, SocketFacts
  <2>4. TermCurrent(cl, token)'
    BY ONLY <2>1, <2>2, <2>3, TermCurrent(cl, token), i \in Slots, HearCurrent
  <2> QED
    BY <2>1, <2>4 DEF Hear
<1>3. CASE SocketFails(i)
  <2> SUFFICES ASSUME NEW s, s = [state |-> "closing"]
               PROVE  TermCurrent(cl, token)' /\ UNCHANGED <<cluster, logs, logStreams>>
    OBVIOUS
  <2>1. s \in Sockets /\ s.state = "closing" /\ Hear(i, s, "error")
    BY <1>1, <1>3, SocketFacts DEF SocketFails, InState
  <2>2. TermCurrent(cl, token)'
    BY <2>1, HearCurrent
  <2> QED
    BY <2>1, <2>2 DEF Hear
<1>4. CASE SocketCloses(i)
  <2>1. Hear(i, None, Quiet) /\ Quiet \in {"disconnected", "error"}
    BY <1>4 DEF SocketCloses, Quiet
  <2>2. TermCurrent(cl, token)'
    BY <2>1, HearCurrent
  <2> QED
    BY <2>1, <2>2 DEF Hear
<1>5. CASE ServerSays(i)
  <2>1. Joined(i)
    BY <1>5 DEF ServerSays, InState, Joined
  <2>2. PICK status \in {"disconnected", "error"} : Hear(i, sockets[i], status)
    BY <1>5 DEF ServerSays
  <2>3. TermCurrent(cl, token)'
    BY <1>1, <2>1, <2>2, HearCurrent
  <2> QED
    BY <2>2, <2>3 DEF Hear
<1> QED
  BY <1>2, <1>3, <1>4, <1>5

-----------------------------------------------------------------------------
(* The steps of the streams, beside the session.                           *)

(* The streams beside the cluster and the token as they are.               *)
LEMMA StreamsNow ==
  ASSUME SessionInv, StreamInv
  PROVE  \E cl \in Clusters \cup {None}, token \in Tokens \cup {None} :
           /\ cl = cluster /\ token = TokenOf(session)
           /\ token = None <=> session = None
           /\ session # None => token = session.token
           /\ LogsCurrent(cl, token) /\ TermCurrent(cl, token)
BY TokenFacts DEF StreamInv

LEMMA StreamsNext ==
  ASSUME NEW cl \in Clusters \cup {None}, NEW token,
         cluster' = cl, TokenOf(session)' = token,
         LogsCurrent(cl, token)', TermCurrent(cl, token)'
  PROVE  StreamInv'
<1>1. LogsCurrent(cluster, TokenOf(session))'
  BY DEF LogsCurrent
<1>2. TermCurrent(cluster, TokenOf(session))'
  BY DEF TermCurrent
<1> QED
  BY <1>1, <1>2 DEF StreamInv

(* Nothing is open, nothing is connected: whatever the cluster and token.  *)
LEMMA EmptyCurrent ==
  ASSUME NEW c, NEW t, TermCurrent(c, t), NEW cl, NEW token, Empty(cl)
  PROVE  LogsCurrent(cl, token)' /\ TermCurrent(cl, token)'
<1>1. LogsCurrent(cl, token)'
  BY NoLogsCurrent DEF Empty
<1> SUFFICES ASSUME NEW u, u = [NoTerm EXCEPT !.ready = term.ready]
             PROVE  TermCurrent(cl, token)'
  BY <1>1
<1>2. term.ready \in BOOLEAN /\ sockets \in [Slots -> Sockets \cup {None}]
  BY DEF TermCurrent, TermStates
<1>3. /\ u \in TermStates /\ u.open = FALSE
      /\ u.status = "disconnected" /\ u.socket = None
  BY <1>2, NoTermFacts
<1>4. term' = u /\ sockets' = AllClosed
  BY DEF Empty
<1> QED
  BY <1>2, <1>3, <1>4, ClosedCurrent DEF Shows

LEMMA StreamsKept ==
  ASSUME SessionInv, StreamInv, UNCHANGED streamVars, TokenOf(session)' = TokenOf(session)
  PROVE  StreamInv'
<1>1. PICK cl \in Clusters \cup {None}, token \in Tokens \cup {None} :
        /\ cl = cluster /\ token = TokenOf(session)
        /\ LogsCurrent(cl, token) /\ TermCurrent(cl, token)
  BY StreamsNow
<1>2. LogsCurrent(cl, token)' /\ TermCurrent(cl, token)'
  BY <1>1, LogsKept, TermKept DEF streamVars
<1>3. cluster' = cl /\ TokenOf(session)' = token
  BY <1>1 DEF streamVars
<1> QED
  BY <1>2, <1>3, StreamsNext

(* Another cluster, or the same, is selected beside the same session.      *)
LEMMA SelectKeeps ==
  ASSUME SessionInv, StreamInv, NEW cl \in Clusters \cup {None}, Select(cl),
         TokenOf(session)' = TokenOf(session)
  PROVE  StreamInv'
<1>1. CASE cl = cluster
  BY <1>1, StreamsKept DEF Select
<1>2. CASE cl # cluster
  <2>1. PICK c \in Clusters \cup {None}, token \in Tokens \cup {None} :
          token = TokenOf(session) /\ TermCurrent(c, token)
    BY StreamsNow
  <2>2. Empty(cl)
    BY <1>2 DEF Select
  <2>3. LogsCurrent(cl, token)' /\ TermCurrent(cl, token)'
    BY <2>1, <2>2, EmptyCurrent
  <2>4. cluster' = cl
    BY <2>2 DEF Empty
  <2> QED
    BY <2>1, <2>3, <2>4, StreamsNext
<1> QED
  BY <1>1, <1>2

(* The session ends and its cluster with it: without a cluster nothing was *)
(* open in the first place.                                                *)
LEMMA EndKeeps ==
  ASSUME SessionInv, StreamInv, session' = None, Select(None)
  PROVE  StreamInv'
<1>1. PICK c \in Clusters \cup {None}, token \in Tokens \cup {None} :
        c = cluster /\ LogsCurrent(c, token) /\ TermCurrent(c, token)
  BY StreamsNow
<1>2. TokenOf(session)' = None
  BY DEF TokenOf
<1>3. CASE None = cluster
  <2>1. UNCHANGED <<cluster, logs, logStreams, term, sockets>>
    BY <1>3 DEF Select, streamVars
  <2>2. ~ logs.open /\ ~ term.open
    BY <1>1, <1>3 DEF LogsCurrent, TermCurrent, Shows
  <2>3. LogsCurrent(None, None)
    BY <1>1, <2>2 DEF LogsCurrent, Shows
  <2>4. TermCurrent(None, None)
    BY <1>1, <2>2 DEF TermCurrent, Shows
  <2>5. LogsCurrent(None, None)' /\ TermCurrent(None, None)'
    BY <2>1, <2>3, <2>4, LogsKept, TermKept
  <2> QED
    BY <1>2, <1>3, <2>1, <2>5, StreamsNext
<1>4. CASE None # cluster
  <2>1. Empty(None)
    BY <1>4 DEF Select
  <2>2. LogsCurrent(None, None)' /\ TermCurrent(None, None)'
    BY <1>1, <2>1, EmptyCurrent
  <2> QED
    BY <1>2, <2>1, <2>2, StreamsNext DEF Empty
<1> QED
  BY <1>3, <1>4

LEMMA NoStreams ==
  ASSUME cluster' = None, logs' = NoLogs, logStreams' = {},
         term' = NoTerm, sockets' = [i \in Slots |-> None]
  PROVE  StreamInv'
<1> SUFFICES ASSUME NEW token, token = TokenOf(session)'
             PROVE  StreamInv'
  OBVIOUS
<1>1. LogsCurrent(None, token)'
  BY NoLogsCurrent
<1>2. /\ NoTerm \in TermStates /\ NoTerm.open = FALSE
      /\ NoTerm.status = "disconnected" /\ NoTerm.socket = None
  BY DEF NoTerm, TermStates
<1>3. TermCurrent(None, token)'
  BY <1>2 DEF TermCurrent, Shows, Joined, InState
<1> QED
  BY <1>1, <1>3, StreamsNext

(* What is connected is shown in a modal that has opened.                  *)
LEMMA ReadyFacts ==
  ASSUME NEW cl, NEW token, TermCurrent(cl, token), term.status = "connected"
  PROVE  term.open /\ term.ready
<1>1. term.socket \in Slots /\ InState(term.socket, {"open"}) /\ term.socket # None
  BY DEF TermCurrent, TermStates
<1>2. Joined(term.socket)
  BY <1>1 DEF Joined, InState
<1> QED
  BY <1>1, <1>2 DEF TermCurrent, TermStates

(* A new session's token: both effects run again with it.                  *)
LEMMA TokenKeeps ==
  ASSUME SessionInv, StreamInv, session' # None, TokenOf(session)' \in Tokens, FollowToken
  PROVE  StreamInv'
<1>1. CASE TokenOf(session)' = TokenOf(session)
  BY <1>1, StreamsKept DEF FollowToken
<1>2. CASE TokenOf(session)' # TokenOf(session)
  <2>1. PICK cl \in Clusters \cup {None}, old \in Tokens \cup {None} :
          cl = cluster /\ LogsCurrent(cl, old) /\ TermCurrent(cl, old)
    BY StreamsNow
  <2> SUFFICES ASSUME NEW token \in Tokens \cup {None}, token = TokenOf(session)'
               PROVE  StreamInv'
    OBVIOUS
  <2>2. cluster' = cl /\ RunLogs(logs, cl, token) /\ RunTerm(term, cl, token)
    BY <1>2, <2>1 DEF FollowToken
  <2>3. token # None
    BY NoneFacts
  <2>4. /\ logs \in LogStates /\ Shows(logs.open, logs.viewer, cl, token)
        /\ term \in TermStates /\ Shows(term.open, term.workspace, cl, token)
        /\ sockets \in [Slots -> Sockets \cup {None}]
    BY <2>1, <2>3 DEF LogsCurrent, TermCurrent, Shows
  <2>5. term.ready \/ term.status # "connected"
    BY <2>1, ReadyFacts
  <2>6. LogsCurrent(cl, token)'
    BY ONLY <2>2, <2>4, RunLogsCurrent, cl \in Clusters \cup {None},
            token \in Tokens \cup {None}
  <2>7. TermCurrent(cl, token)'
    BY ONLY <2>2, <2>4, <2>5, RunTermCurrent, cl \in Clusters \cup {None},
            token \in Tokens \cup {None}
  <2> QED
    BY <2>2, <2>6, <2>7, StreamsNext
<1> QED
  BY <1>1, <1>2

-----------------------------------------------------------------------------
(* The steps of the console.                                               *)

LEMMA SessionStays ==
  ASSUME SessionInv, UNCHANGED sessionVars
  PROVE  SessionInv'
<1>1. UNCHANGED <<session, stored, activeView, calls, shown, logins, overtaken, hydrated>>
  BY DEF sessionVars
<1>2. Onwards(calls')
  BY <1>1 DEF Onwards, SessionInv, SessionTypeOK
<1> QED
  BY <1>1, <1>2, QuietKeeps

(* A modal opens or moves to another container, with its effect.           *)
LEMMA LogsRun ==
  ASSUME SessionInv, StreamInv, NEW l \in LogStates,
         RunLogs(l, cluster, TokenOf(session)),
         Shows(l.open, l.viewer, cluster, TokenOf(session)),
         UNCHANGED <<session, cluster, term, sockets>>
  PROVE  StreamInv'
<1>1. PICK cl \in Clusters \cup {None}, token \in Tokens \cup {None} :
        cl = cluster /\ token = TokenOf(session) /\ TermCurrent(cl, token)
  BY StreamsNow
<1>2. RunLogs(l, cl, token) /\ Shows(l.open, l.viewer, cl, token)
  BY <1>1
<1>3. LogsCurrent(cl, token)'
  BY ONLY <1>2, RunLogsCurrent, l \in LogStates, cl \in Clusters \cup {None},
          token \in Tokens \cup {None}
<1>4. TermCurrent(cl, token)'
  BY <1>1, TermKept
<1> QED
  BY <1>1, <1>3, <1>4, StreamsNext

LEMMA TermRuns ==
  ASSUME SessionInv, StreamInv, NEW t \in TermStates,
         RunTerm(t, cluster, TokenOf(session)),
         Shows(t.open, t.workspace, cluster, TokenOf(session)),
         t.ready \/ t.status # "connected",
         UNCHANGED <<session, cluster, logs, logStreams>>
  PROVE  StreamInv'
<1>1. PICK cl \in Clusters \cup {None}, token \in Tokens \cup {None} :
        cl = cluster /\ token = TokenOf(session)
        /\ LogsCurrent(cl, token) /\ TermCurrent(cl, token)
  BY StreamsNow
<1>2. RunTerm(t, cl, token) /\ Shows(t.open, t.workspace, cl, token)
      /\ sockets \in [Slots -> Sockets \cup {None}]
  BY <1>1 DEF TermCurrent
<1>3. TermCurrent(cl, token)'
  BY ONLY <1>2, RunTermCurrent, t \in TermStates, cl \in Clusters \cup {None},
          token \in Tokens \cup {None}, t.ready \/ t.status # "connected"
<1>4. LogsCurrent(cl, token)'
  BY <1>1, LogsKept
<1> QED
  BY <1>1, <1>3, <1>4, StreamsNext

LEMMA OpenLogsKeeps ==
  ASSUME SessionInv, StreamInv, OpenLogs, UNCHANGED session
  PROVE  StreamInv'
<1>1. PICK t \in Targets : RunLogs([NoLogs EXCEPT !.open = TRUE, !.viewer = t],
                                   cluster, session.token)
  BY DEF OpenLogs
<1> SUFFICES ASSUME NEW l, l = [NoLogs EXCEPT !.open = TRUE, !.viewer = t]
             PROVE  StreamInv'
  OBVIOUS
<1>2. l \in LogStates /\ l.viewer = t
  BY DEF NoLogs, LogStates
<1>3. /\ cluster # None /\ session # None
      /\ UNCHANGED <<cluster, term, sockets>>
  BY DEF OpenLogs, OnPods
<1>4. TokenOf(session) = session.token /\ TokenOf(session) # None
  BY <1>3, TokenFacts
<1>5. Shows(l.open, l.viewer, cluster, TokenOf(session))
  BY <1>2, <1>3, <1>4 DEF Shows
<1> QED
  BY <1>1, <1>2, <1>3, <1>4, <1>5, LogsRun

LEMMA ReopenLogsKeeps ==
  ASSUME SessionInv, StreamInv, ReopenLogs, UNCHANGED session
  PROVE  StreamInv'
<1>1. PICK c \in Containers : RunLogs([logs EXCEPT !.viewer[2] = c], cluster, session.token)
  BY DEF ReopenLogs
<1>2. /\ logs \in LogStates /\ logs.viewer \in Targets /\ cluster # None
      /\ Shows(logs.open, logs.viewer, cluster, TokenOf(session))
  BY DEF ReopenLogs, StreamInv, LogsCurrent, Shows
<1>3. [logs.viewer EXCEPT ![2] = c] \in Targets
  BY <1>2, TargetFacts
<1> SUFFICES ASSUME NEW t \in Targets, NEW l, l = [logs EXCEPT !.viewer = t],
                    RunLogs(l, cluster, session.token)
             PROVE  StreamInv'
  BY <1>1, <1>2, <1>3
<1>4. l \in LogStates /\ l.viewer = t /\ l.open = logs.open
  BY <1>2 DEF LogStates
<1>5. UNCHANGED <<cluster, term, sockets>> /\ session # None
  BY DEF ReopenLogs
<1>6. TokenOf(session) = session.token /\ TokenOf(session) # None
  BY <1>5, TokenFacts
<1>7. Shows(l.open, l.viewer, cluster, TokenOf(session))
  BY <1>2, <1>4, <1>6 DEF Shows
<1> QED
  BY <1>4, <1>5, <1>6, <1>7, LogsRun

LEMMA CloseLogsKeeps ==
  ASSUME SessionInv, StreamInv, CloseLogs, UNCHANGED session
  PROVE  StreamInv'
<1>1. PICK cl \in Clusters \cup {None}, token \in Tokens \cup {None} :
        cl = cluster /\ token = TokenOf(session) /\ TermCurrent(cl, token)
  BY StreamsNow
<1>2. LogsCurrent(cl, token)' /\ TermCurrent(cl, token)'
  BY <1>1, NoLogsCurrent, TermKept DEF CloseLogs
<1> QED
  BY <1>1, <1>2, StreamsNext DEF CloseLogs

LEMMA OpenTerminalKeeps ==
  ASSUME SessionInv, StreamInv, OpenTerminal, UNCHANGED session
  PROVE  StreamInv'
<1>1. PICK w \in Targets :
        RunTerm([NoTerm EXCEPT !.open = TRUE, !.workspace = w, !.status = "connecting"],
                cluster, session.token)
  BY DEF OpenTerminal
<1> SUFFICES ASSUME NEW t, t = [NoTerm EXCEPT !.open = TRUE, !.workspace = w,
                                              !.status = "connecting"]
             PROVE  StreamInv'
  OBVIOUS
<1>2. t \in TermStates /\ t.workspace = w /\ t.status # "connected"
  BY DEF NoTerm, TermStates
<1>3. /\ cluster # None /\ session # None
      /\ UNCHANGED <<cluster, logs, logStreams>>
  BY DEF OpenTerminal, OnPods
<1>4. TokenOf(session) = session.token /\ TokenOf(session) # None
  BY <1>3, TokenFacts
<1>5. Shows(t.open, t.workspace, cluster, TokenOf(session))
  BY <1>2, <1>3, <1>4 DEF Shows
<1> QED
  BY <1>1, <1>2, <1>3, <1>4, <1>5, TermRuns

LEMMA ReopenTerminalKeeps ==
  ASSUME SessionInv, StreamInv, ReopenTerminal, UNCHANGED session
  PROVE  StreamInv'
<1>1. PICK c \in Containers :
        RunTerm([term EXCEPT !.workspace[2] = c], cluster, session.token)
  BY DEF ReopenTerminal
<1>2. /\ term \in TermStates /\ term.workspace \in Targets /\ cluster # None
      /\ term.ready \/ term.status # "connected"
  BY ReadyFacts DEF ReopenTerminal, StreamInv, TermCurrent, Shows
<1>3. [term.workspace EXCEPT ![2] = c] \in Targets
  BY <1>2, TargetFacts
<1> SUFFICES ASSUME NEW w \in Targets, NEW t, t = [term EXCEPT !.workspace = w],
                    RunTerm(t, cluster, session.token)
             PROVE  StreamInv'
  BY <1>1, <1>2, <1>3
<1>4. /\ t \in TermStates /\ t.workspace = w /\ t.open = term.open
      /\ t.ready = term.ready /\ t.status = term.status
  BY <1>2 DEF TermStates
<1>5. UNCHANGED <<cluster, logs, logStreams>> /\ session # None
  BY DEF ReopenTerminal
<1>6. TokenOf(session) = session.token /\ TokenOf(session) # None
  BY <1>5, TokenFacts
<1>7. Shows(t.open, t.workspace, cluster, TokenOf(session))
  BY <1>2, <1>4, <1>6 DEF Shows
<1> QED
  BY <1>2, <1>4, <1>5, <1>6, <1>7, TermRuns

LEMMA CloseTerminalKeeps ==
  ASSUME SessionInv, StreamInv, CloseTerminal, UNCHANGED session
  PROVE  StreamInv'
<1>1. PICK cl \in Clusters \cup {None}, token \in Tokens \cup {None} :
        cl = cluster /\ token = TokenOf(session)
        /\ LogsCurrent(cl, token) /\ TermCurrent(cl, token)
  BY StreamsNow
<1>2. LogsCurrent(cl, token)'
  BY <1>1, LogsKept DEF CloseTerminal
<1>3. /\ NoTerm \in TermStates /\ NoTerm.open = FALSE
      /\ NoTerm.status = "disconnected" /\ NoTerm.socket = None
  BY DEF NoTerm, TermStates
<1>4. term' = NoTerm /\ sockets' = AllClosed /\ sockets \in [Slots -> Sockets \cup {None}]
  BY <1>1 DEF CloseTerminal, TermCurrent
<1>5. TermCurrent(cl, token)'
  BY <1>3, <1>4, ClosedCurrent DEF Shows
<1> QED
  BY <1>1, <1>2, <1>5, StreamsNext DEF CloseTerminal

LEMMA ModalMovedKeeps ==
  ASSUME SessionInv, StreamInv, ModalMoved, UNCHANGED session
  PROVE  StreamInv'
<1> SUFFICES ASSUME NEW t, t = [term EXCEPT !.ready = term.open]
             PROVE  StreamInv'
  OBVIOUS
<1>1. /\ term \in TermStates /\ Shows(term.open, term.workspace, cluster, TokenOf(session))
      /\ term.open \/ term.status # "connected"
  BY ReadyFacts DEF StreamInv, TermCurrent
<1>2. /\ t \in TermStates /\ t.workspace = term.workspace /\ t.open = term.open
      /\ t.ready = term.open /\ t.status = term.status
  BY <1>1 DEF TermStates
<1>3. RunTerm(t, cluster, TokenOf(session)) /\ UNCHANGED <<cluster, logs, logStreams>>
  BY DEF ModalMoved
<1> QED
  BY <1>1, <1>2, <1>3, TermRuns

LEMMA WorkloadGoneKeeps ==
  ASSUME SessionInv, StreamInv, WorkloadGone, UNCHANGED session
  PROVE  StreamInv'
<1>1. PICK cl \in Clusters \cup {None}, token \in Tokens \cup {None} :
        cl = cluster /\ token = TokenOf(session)
        /\ LogsCurrent(cl, token) /\ TermCurrent(cl, token)
  BY StreamsNow
<1> SUFFICES ASSUME NEW l, l = [logs EXCEPT !.open = FALSE],
                    NEW t, t = [term EXCEPT !.open = FALSE]
             PROVE  StreamInv'
  OBVIOUS
<1>2. RunLogs(l, cl, token) /\ RunTerm(t, cl, token) /\ UNCHANGED cluster
  BY <1>1 DEF WorkloadGone
<1>3. /\ logs \in LogStates /\ term \in TermStates
      /\ sockets \in [Slots -> Sockets \cup {None}]
      /\ term.ready \/ term.status # "connected"
  BY <1>1, ReadyFacts DEF LogsCurrent, TermCurrent
<1>4. /\ l \in LogStates /\ l.open = FALSE
      /\ t \in TermStates /\ t.open = FALSE
      /\ t.ready = term.ready /\ t.status = term.status
  BY <1>3 DEF LogStates, TermStates
<1>5. /\ Shows(l.open, l.viewer, cl, token) /\ Shows(t.open, t.workspace, cl, token)
      /\ t.ready \/ t.status # "connected"
  BY <1>3, <1>4 DEF Shows
<1>6. LogsCurrent(cl, token)'
  BY ONLY <1>2, <1>4, <1>5, RunLogsCurrent, cl \in Clusters \cup {None},
          token \in Tokens \cup {None}
<1>7. TermCurrent(cl, token)'
  BY ONLY <1>2, <1>3, <1>4, <1>5, RunTermCurrent, cl \in Clusters \cup {None},
          token \in Tokens \cup {None}
<1> QED
  BY <1>1, <1>2, <1>6, <1>7, StreamsNext

LEMMA EventKeeps ==
  ASSUME SessionInv, StreamInv, UNCHANGED session,
         \/ \E s \in logStreams : LogEvent(s)
         \/ \E i \in Slots :
              SocketOpens(i) \/ SocketFails(i) \/ SocketCloses(i) \/ ServerSays(i)
  PROVE  StreamInv'
<1>1. PICK cl \in Clusters \cup {None}, token \in Tokens \cup {None} :
        cl = cluster /\ token = TokenOf(session)
        /\ LogsCurrent(cl, token) /\ TermCurrent(cl, token)
  BY StreamsNow
<1>2. CASE \E s \in logStreams : LogEvent(s)
  <2>1. PICK s \in logStreams : LogEvent(s)
    BY <1>2
  <2>2. LogsCurrent(cl, token)'
    BY <1>1, <2>1, LogEventCurrent
  <2>3. UNCHANGED <<cluster, term, sockets>>
    BY <2>1 DEF LogEvent
  <2>4. TermCurrent(cl, token)'
    BY <1>1, <2>3, TermKept
  <2> QED
    BY <1>1, <2>2, <2>3, <2>4, StreamsNext
<1>3. ASSUME NEW i \in Slots,
             SocketOpens(i) \/ SocketFails(i) \/ SocketCloses(i) \/ ServerSays(i)
      PROVE  StreamInv'
  <2>1. TermCurrent(cl, token)' /\ UNCHANGED <<cluster, logs, logStreams>>
    BY <1>1, <1>3, SocketEventCurrent
  <2>2. LogsCurrent(cl, token)'
    BY <1>1, <2>1, LogsKept
  <2> QED
    BY <1>1, <2>1, <2>2, StreamsNext
<1> QED
  BY <1>2, <1>3

LEMMA StreamStepKeeps ==
  ASSUME Inv, StreamStep, UNCHANGED sessionVars
  PROVE  Inv'
<1>1. SessionInv /\ StreamInv /\ UNCHANGED session
  BY DEF Inv, sessionVars
<1>2. SessionInv'
  BY <1>1, SessionStays
<1>3. CASE SelectCluster
  <2>1. PICK cl \in Clusters : Select(cl)
    BY <1>3 DEF SelectCluster
  <2>2. TokenOf(session)' = TokenOf(session)
    BY <1>1
  <2>3. StreamInv'
    BY <1>1, <2>1, <2>2, SelectKeeps
  <2> QED
    BY <1>2, <2>3 DEF Inv
<1>4. CASE OpenLogs \/ ReopenLogs \/ CloseLogs
  BY <1>1, <1>2, <1>4, OpenLogsKeeps, ReopenLogsKeeps, CloseLogsKeeps DEF Inv
<1>5. CASE OpenTerminal \/ ReopenTerminal \/ CloseTerminal
  BY <1>1, <1>2, <1>5, OpenTerminalKeeps, ReopenTerminalKeeps, CloseTerminalKeeps DEF Inv
<1>6. CASE ModalMoved \/ WorkloadGone
  BY <1>1, <1>2, <1>6, ModalMovedKeeps, WorkloadGoneKeeps DEF Inv
<1>7. CASE \/ \E s \in logStreams : LogEvent(s)
           \/ \E i \in Slots :
                SocketOpens(i) \/ SocketFails(i) \/ SocketCloses(i) \/ ServerSays(i)
  BY <1>1, <1>2, <1>7, EventKeeps DEF Inv
<1> QED
  BY <1>3, <1>4, <1>5, <1>6, <1>7 DEF StreamStep

LEMMA LogoutStepKeeps ==
  ASSUME Inv, Logout, Select(None)
  PROVE  Inv'
<1>1. SessionInv /\ StreamInv
  BY DEF Inv
<1>2. session' = None
  BY DEF Logout, Leave
<1>3. SessionInv'
  BY <1>1, LogoutKeeps
<1>4. StreamInv'
  BY <1>1, <1>2, EndKeeps
<1> QED
  BY <1>3, <1>4 DEF Inv

LEMMA UnauthorizedStepKeeps ==
  ASSUME Inv, NEW r \in Requests, Unauthorized(r), Select(None)
  PROVE  Inv'
<1>1. SessionInv /\ StreamInv
  BY DEF Inv
<1>2. session' = None
  BY DEF Unauthorized, Leave
<1>3. SessionInv'
  BY <1>1, UnauthorizedKeeps
<1>4. StreamInv'
  BY <1>1, <1>2, EndKeeps
<1> QED
  BY <1>3, <1>4 DEF Inv

LEMMA ReloadStepKeeps ==
  ASSUME Inv, Reload, cluster' = None, logs' = NoLogs, logStreams' = {},
         term' = NoTerm, sockets' = [i \in Slots |-> None]
  PROVE  Inv'
<1>1. SessionInv'
  BY ReloadKeeps DEF Inv
<1>2. StreamInv'
  BY NoStreams
<1> QED
  BY <1>1, <1>2 DEF Inv

(* A request is sent, a view opened, or a request fails.                   *)
LEMMA QuietStepKeeps ==
  ASSUME Inv, UNCHANGED streamVars,
         \/ Refresh \/ SubmitLogin
         \/ \E v \in Views : OpenView(v)
         \/ \E l \in Lists : ReadList(l)
         \/ \E r \in Requests : CallFails(r)
  PROVE  Inv'
<1>1. SessionInv /\ StreamInv
  BY DEF Inv
<1>2. SessionInv'
  BY <1>1, RefreshKeeps, SubmitLoginKeeps, OpenViewKeeps, ReadListKeeps, CallFailsKeeps
<1>3. UNCHANGED session
  BY DEF Refresh, SubmitLogin, OpenView, ReadList, CallFails
<1>4. TokenOf(session)' = TokenOf(session)
  BY <1>3
<1>5. StreamInv'
  BY <1>1, <1>4, StreamsKept
<1> QED
  BY <1>2, <1>5 DEF Inv

(* A login or /auth/me answers: the streams follow the token.              *)
LEMMA EnterStepKeeps ==
  ASSUME Inv, NEW r \in Requests, LoggedIn(r) \/ GotMe(r), FollowToken
  PROVE  Inv'
<1>1. SessionInv /\ StreamInv
  BY DEF Inv
<1>2. SessionInv'
  BY <1>1, LoggedInKeeps, GotMeKeeps
<1>3. session' # None
  BY <1>1, LoggedInKeeps, GotMeKeeps
<1>4. TokenOf(session)' \in Tokens
  BY <1>2, <1>3 DEF SessionInv, SessionTypeOK, TokenOf, Sessions
<1>5. StreamInv'
  BY <1>1, <1>3, <1>4, TokenKeeps
<1> QED
  BY <1>2, <1>5 DEF Inv

(* Lists arrive, and with the clusters a selection.                        *)
LEMMA ListsArriveKeeps ==
  ASSUME Inv, NEW r \in Requests, ListsArrive(r)
  PROVE  Inv'
<1>1. SessionInv /\ StreamInv
  BY DEF Inv
<1>2. GotCatalogs(r) \/ GotSummary(r) \/ GotList(r)
  BY DEF ListsArrive
<1>3. SessionInv'
  BY <1>1, <1>2, GotCatalogsKeeps, GotSummaryKeeps, GotListKeeps
<1>4. UNCHANGED session
  BY <1>2 DEF GotCatalogs, GotSummary, GotList
<1>5. TokenOf(session)' = TokenOf(session)
  BY <1>4
<1>6. UNCHANGED streamVars \/ \E cl \in Clusters \cup {None} : Select(cl)
  BY DEF ListsArrive
<1>7. StreamInv'
  BY <1>1, <1>5, <1>6, StreamsKept, SelectKeeps
<1> QED
  BY <1>3, <1>7 DEF Inv

-----------------------------------------------------------------------------
(* The specification.                                                      *)

LEMMA InitInv == Init => Inv
<1> SUFFICES ASSUME Init
             PROVE  Inv
  OBVIOUS
<1>1. SessionInv
  BY SessionInitInv DEF Init
<1>2. TokenOf(session) = None /\ cluster = None
  BY DEF Init, SessionInit, TokenOf
<1>3. LogsCurrent(None, None)
  <2>1. /\ logs \in LogStates /\ logs.open = FALSE /\ logs.status = "stopped"
        /\ logStreams = {}
    BY DEF Init, NoLogs, LogStates
  <2> QED
    BY <2>1 DEF LogsCurrent, Shows
<1>4. TermCurrent(None, None)
  <2>1. /\ term \in TermStates /\ term.open = FALSE /\ term.status = "disconnected"
        /\ sockets = [i \in Slots |-> None]
    BY DEF Init, NoTerm, TermStates
  <2>2. \A i \in Slots : ~ Joined(i)
    BY <2>1 DEF Joined, InState
  <2> QED
    BY <2>1, <2>2 DEF TermCurrent, Shows
<1> QED
  BY <1>1, <1>2, <1>3, <1>4 DEF Inv, StreamInv

LEMMA NextInv == Inv /\ [Next]_vars => Inv'
<1> SUFFICES ASSUME Inv, [Next]_vars
             PROVE  Inv'
  OBVIOUS
<1>1. CASE StreamStep /\ UNCHANGED sessionVars
  BY <1>1, StreamStepKeeps
<1>2. CASE Logout /\ Uncovered /\ Select(None)
  BY <1>2, LogoutStepKeeps
<1>3. CASE Reload /\ cluster' = None /\ logs' = NoLogs /\ logStreams' = {}
           /\ term' = NoTerm /\ sockets' = [i \in Slots |-> None]
  BY <1>3, ReloadStepKeeps
<1>4. CASE \/ (Refresh \/ \E v \in Views : OpenView(v)) /\ Uncovered /\ UNCHANGED streamVars
           \/ (SubmitLogin \/ \E l \in Lists : ReadList(l)) /\ UNCHANGED streamVars
           \/ \E r \in Requests : CallFails(r) /\ UNCHANGED streamVars
  BY <1>4, QuietStepKeeps
<1>5. CASE \E r \in Requests : (LoggedIn(r) \/ GotMe(r)) /\ FollowToken
  BY <1>5, EnterStepKeeps
<1>6. CASE \E r \in Requests : ListsArrive(r)
  BY <1>6, ListsArriveKeeps
<1>7. CASE \E r \in Requests : Unauthorized(r) /\ Select(None)
  BY <1>7, UnauthorizedStepKeeps
<1>8. CASE UNCHANGED vars
  <2>1. UNCHANGED sessionVars /\ UNCHANGED streamVars /\ SessionInv /\ StreamInv
    BY <1>8 DEF vars, Inv
  <2>2. TokenOf(session)' = TokenOf(session)
    BY <2>1 DEF sessionVars
  <2> QED
    BY <2>1, <2>2, SessionStays, StreamsKept DEF Inv
<1> QED
  BY <1>1, <1>2, <1>3, <1>4, <1>5, <1>6, <1>7, <1>8 DEF Next

LEMMA InvHolds == Spec => []Inv
<1> QED
  BY InitInv, NextInv, PTL DEF Spec

(* loadSession, handleLogin, logout and onUnauthorized keep localStorage   *)
(* and the session shown in step, and the session is the last login's or   *)
(* one whose end overtook a request, which hydrateWorkspace brought back;  *)
(* the view is one that session may open.                                  *)
THEOREM SessionIsEarnedHolds == Spec => []SessionIsEarned
<1>1. Inv => SessionIsEarned
  BY DEF Inv, SessionInv
<1> QED
  BY <1>1, InvHolds, PTL

(* A session no late answer brought back is shown no other account's       *)
(* dashboard, clusters or users.  The lists it may be shown are named:     *)
(* until hydrateWorkspace is through the five of Survivors, and after it   *)
(* the artifacts of the registries, which a logout does not forget.        *)
THEOREM ShownIsSessionsHolds == Spec => []ShownIsSessions
<1>1. Inv => ShownIsSessions
  BY DEF Inv, SessionInv
<1> QED
  BY <1>1, InvHolds, PTL

(* The effects of the pod log stream and of the pod terminal leave at most *)
(* the connection of the session, cluster and container on screen, and     *)
(* 已连接 stands only beside a socket that is open.                        *)
THEOREM StreamsAreCurrentHolds == Spec => []StreamsAreCurrent
<1>1. ASSUME Inv
      PROVE  StreamsAreCurrent
  <2>1. StreamInv
    BY <1>1 DEF Inv
  <2>2. \A s \in logStreams :
          /\ logs.open /\ <<s.cluster, s.target, s.token>>
                          = <<cluster, logs.viewer, TokenOf(session)>>
    BY <2>1 DEF StreamInv, LogsCurrent
  <2>3. /\ logs.content \subseteq {logs.viewer} \/ ~ logs.open
        /\ logs.status = "live" <=> \E s \in logStreams : s.live
    BY <2>1 DEF StreamInv, LogsCurrent
  <2>4. \A i \in Slots : InState(i, {"connecting", "open"}) =>
          /\ i = term.socket /\ term.open
          /\ <<sockets[i].cluster, sockets[i].target, sockets[i].token>>
             = <<cluster, term.workspace, TokenOf(session)>>
    BY <2>1 DEF StreamInv, TermCurrent, Joined
  <2>5. term.status = "connected" => term.socket # None /\ InState(term.socket, {"open"})
    BY <2>1 DEF StreamInv, TermCurrent
  <2> QED
    BY <2>2, <2>3, <2>4, <2>5 DEF StreamsAreCurrent
<1> QED
  BY <1>1, InvHolds, PTL

(* What the console holds keeps its shape, whatever the server answers and *)
(* in whatever order: no call, list or socket but those the code creates.  *)
THEOREM ConsoleTypesHold == Spec => []TypeOK
<1>1. Inv => TypeOK
  BY DEF Inv, SessionInv, StreamInv, LogsCurrent, TermCurrent, LogStates, TermStates,
         TypeOK, StreamTypeOK
<1> QED
  BY <1>1, InvHolds, PTL
===============================================================================
