----------------------------- MODULE ConsoleAdmin -----------------------------
(***************************************************************************)
(* The console's pages of users, roles and clusters: forms and confirmed   *)
(* operations that write, and the lists read again once a write has been   *)
(* answered.  Reads go out together and are answered in any order.         *)
(*                                                                         *)
(* A table is abstracted to the number of its changes, a list on screen to *)
(* the versions of the tables it was read from.  Changes by others are     *)
(* left out: no page notices them before it is read again.                 *)
(***************************************************************************)
EXTENDS Naturals

CONSTANTS NoForm,      (* no form is open                                    *)
          MaxWrites    (* bound: writes sent in a behaviour                  *)

ASSUME AdminBounds == MaxWrites \in Nat

VARIABLES db,        (* version of each table                               *)
          onScreen,  (* versions each list shows                            *)
          editor,    (* the form that is open                               *)
          writes,    (* writes that are unanswered, or have failed but may  *)
                     (* have been or yet be carried out by the server       *)
          reads,     (* reads not answered                                  *)
          sent,      (* writes sent so far                                  *)
          behind     (* history: lists with a reason to be out of date      *)

adminVars == <<db, onScreen, editor, writes, reads, sent, behind>>

Tables == {"users", "roles", "clusters"}
Source == [users |-> {"users", "roles"}, roles |-> {"roles"}, clusters |-> {"clusters"},
           dashboard |-> Tables]
Pages  == DOMAIN Source
Ops    == {"saveUser", "saveRole", "removeUser", "removeRole", "testCluster",
           "switchMode", "removeCluster"}

(* The operations that ask first; the dialog stays until the lists of a    *)
(* confirmed one are read, and covers the page.                            *)
Confirmed == {"removeUser", "removeRole", "switchMode", "removeCluster"}
Forms     == {"saveUser", "saveRole"}
Versions(l) == [Source[l] -> 0..MaxWrites]
Served      == UNION {Versions(l) : l \in Pages}

AdminTypeOK ==
  /\ db \in [Tables -> 0..MaxWrites]
  /\ \A l \in Pages : onScreen[l] \in Versions(l)
  /\ editor \in Forms \cup {NoForm}
  /\ writes \in SUBSET [n : 1..MaxWrites, op : Ops, failed : BOOLEAN]
  /\ \A r \in reads : /\ r.n \in 1..MaxWrites /\ r.op \in Ops /\ r.list \in Pages
                      /\ r.seen \in Versions(r.list) \cup {NoForm}
  /\ sent \in 0..MaxWrites /\ behind \in SUBSET Pages

Current(l) == [t \in Source[l] |-> db[t]]

AdminInit ==
  /\ db = [t \in Tables |-> 0] /\ onScreen = [l \in Pages |-> Current(l)]
  /\ editor = NoForm /\ writes = {} /\ reads = {} /\ sent = 0 /\ behind = {}

-----------------------------------------------------------------------------
Unanswered == {w \in writes : ~ w.failed}
Uncovered  == editor = NoForm
              /\ \A c \in Unanswered \cup reads : c.op \notin Confirmed

Send(op) ==
  /\ sent < MaxWrites /\ sent' = sent + 1
  /\ writes' = writes \cup {[n |-> sent + 1, op |-> op, failed |-> FALSE]}
  /\ UNCHANGED <<db, onScreen, editor, reads, behind>>

OpenForm ==
  /\ Uncovered
  /\ editor' \in Forms
  /\ UNCHANGED <<db, onScreen, writes, reads, sent, behind>>

CloseForm ==
  /\ editor # NoForm /\ editor' = NoForm
  /\ UNCHANGED <<db, onScreen, writes, reads, sent, behind>>

(* The button of a form that is being saved can be pressed again.          *)
SubmitUser == editor = "saveUser" /\ Send("saveUser")
SubmitRole == editor = "saveRole" /\ Send("saveRole")

TestCluster   == Uncovered /\ Send("testCluster")
SwitchMode    == Uncovered /\ Send("switchMode")
RemoveCluster == Uncovered /\ Send("removeCluster")
RemoveUser    == Uncovered /\ Send("removeUser")
RemoveRole    == Uncovered /\ Send("removeRole")

Written(op) == CASE op \in {"saveUser", "removeUser"} -> "users"
                 [] op \in {"saveRole", "removeRole"} -> "roles"
                 [] OTHER                             -> "clusters"

(* Faulty variant of the next: the holders of a removed role stay as shown. *)
RereadOwn(op) == {Written(op), "dashboard"}

(* What each handler reads again: the dashboard always, the users when a   *)
(* role is removed but not when it is saved.                               *)
Reread(op) == {Written(op), "dashboard"}
              \cup (IF op = "removeRole" THEN {"users"} ELSE {})

-----------------------------------------------------------------------------
WriteDone(w) ==
  /\ ~ w.failed /\ writes' = writes \ {w}
  /\ db' = [db EXCEPT ![Written(w.op)] = @ + 1]
  /\ reads' = reads \cup {[n |-> w.n, op |-> w.op, list |-> l, seen |-> NoForm] :
                            l \in Reread(w.op)}
  /\ editor' = IF editor = w.op THEN NoForm ELSE editor
  /\ behind' = behind \cup (IF w.op = "saveRole" THEN {"users"} ELSE {})
  /\ UNCHANGED <<onScreen, sent>>

(* A write is answered with an error, or its answer is lost: the form      *)
(* stays, and its handler reads nothing again.                             *)
WriteFails(w) ==
  /\ ~ w.failed /\ writes' = (writes \ {w}) \cup {[w EXCEPT !.failed = TRUE]}
  /\ UNCHANGED <<db, onScreen, editor, reads, sent, behind>>

(* It has changed the server's tables all the same: a failed test or switch*)
(* is recorded in the cluster's row, an error of createRole, updateRole or *)
(* updateUser may follow a statement that is committed, and an answer may  *)
(* be lost, also while the server goes on.  Every list of that table is    *)
(* out of date.                                                            *)
TakesEffect(w) ==
  /\ w.failed /\ writes' = writes \ {w}
  /\ db' = [db EXCEPT ![Written(w.op)] = @ + 1]
  /\ behind' = behind \cup {l \in Pages : Written(w.op) \in Source[l]}
  /\ UNCHANGED <<onScreen, editor, reads, sent>>

(* The server reads the tables for a list ...                              *)
ReadServed(r) ==
  /\ r.seen = NoForm
  /\ reads' = (reads \ {r}) \cup {[r EXCEPT !.seen = Current(r.list)]}
  /\ UNCHANGED <<db, onScreen, editor, writes, sent, behind>>

(* ... and the answer is shown, also one older than what is on screen.     *)
ReadShown(r) ==
  LET l == r.list IN
  /\ r.seen # NoForm /\ reads' = reads \ {r}
  /\ onScreen' = [onScreen EXCEPT ![l] = r.seen]
  /\ behind' = IF \E t \in Source[l] : r.seen[t] < onScreen[l][t] THEN behind \cup {l}
               ELSE IF r.seen = Current(l) THEN behind \ {l} ELSE behind
  /\ UNCHANGED <<db, editor, writes, sent>>

ReadFails(r) ==
  /\ reads' = reads \ {r} /\ behind' = behind \cup {r.list}
  /\ UNCHANGED <<db, onScreen, editor, writes, sent>>

AdminNext ==
  \/ OpenForm \/ CloseForm \/ SubmitUser \/ SubmitRole \/ TestCluster \/ SwitchMode
  \/ RemoveCluster \/ RemoveUser \/ RemoveRole
  \/ \E w \in writes : WriteDone(w) \/ WriteFails(w) \/ TakesEffect(w)
  \/ \E r \in reads : ReadServed(r) \/ ReadShown(r) \/ ReadFails(r)

(* Once nothing is in flight, every list shows the tables as the user's    *)
(* own writes left them.  Three kinds of list are excepted: one whose      *)
(* reading failed or whose answers came in the wrong order; the users,     *)
(* which saving a role does not read again; and the lists of a table that  *)
(* a write changed although it failed, since nothing is then read again.   *)
ListsCatchUp ==
  Unanswered = {} /\ reads = {} => \A l \in Pages \ behind : onScreen[l] = Current(l)
=============================================================================
