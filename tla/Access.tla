------------------------------- MODULE Access -------------------------------
(***************************************************************************)
(* Users, roles and what they grant: the handlers of /api/users and        *)
(* /api/roles, login, the check every request passes, and Seed, which      *)
(* brings the tables into shape at each start.                             *)
(*                                                                         *)
(* gorm writes a row together with the associations loaded into it, as     *)
(* several statements and without a transaction, so that a copy of a user  *)
(* carries the copies of its roles and of their keys back into the tables. *)
(* One action is one such statement, except that inserting role rows is    *)
(* taken with the insertion of their keys.                                 *)
(*                                                                         *)
(* Of the built-in roles two are kept, the administrator's and one with    *)
(* fewer keys.  The permissions table never changes once Seed's first loop *)
(* has filled it; passwords, tokens and the columns for display are left   *)
(* out.                                                                    *)
(***************************************************************************)
EXTENDS GormTable

CONSTANTS Handlers,      (* requests served at the same time                *)
          UserNames, Bootstrap,      (* BootstrapAdminUser is one of them    *)
          RoleNames, Admin, Operator,   (* the names of built-in roles       *)
          Keys, OperatorKeys,        (* permission keys                      *)
          UsersWrite, RolesWrite,    (* the keys of the handlers modelled    *)
          Nothing,
          MaxUsers, MaxRoles,    (* bounds: rows inserted in a behaviour     *)
          MaxCalls               (* bound: requests and crashes              *)

ASSUME NamesAssumption  == Bootstrap \in UserNames /\ {Admin, Operator} \subseteq RoleNames
ASSUME RolesAssumption  == Admin # Operator
ASSUME KeysAssumption   == OperatorKeys \cup {UsersWrite, RolesWrite} \subseteq Keys
ASSUME BoundsAssumption == {MaxUsers, MaxRoles, MaxCalls} \subseteq Nat

VARIABLES users, nextUser,   (* the users table and its AUTOINCREMENT       *)
          roles, nextRole,
          userRoles,         (* user_roles and role_permissions: no foreign *)
          roleKeys,          (* key is enforced, so ids may point nowhere   *)
          boot,              (* how far Seed is; "up": the server serves    *)
          handler,           (* what each handler holds and where it stands *)
          calls,
          asked,      (* history: what was last asked of each user and role *)
          blurred     (* history: those written by a request that overlapped *)
                      (* another change of them, or that did not finish     *)

tables == <<users, nextUser, roles, nextRole, userRoles, roleKeys>>
history == <<asked, blurred>>
vars == <<tables, boot, handler, calls, history>>

UserIds == 1..MaxUsers
RoleIds == 1..MaxRoles
Users   == [id : 0..MaxUsers, name : UserNames, active : BOOLEAN]
Roles   == [id : 0..MaxRoles, name : RoleNames, builtIn : BOOLEAN]
Copies  == [row : Roles, keys : SUBSET Keys]

(* What a request is about, and what it may write besides.                 *)
User(u) == <<"user", u>>
Role(r) == <<"role", r>>
Things  == {User(u) : u \in UserIds} \cup {Role(r) : r \in RoleIds}

Calls == [op : {"createUser", "updateUser", "deleteUser", "login",
                "createRole", "updateRole", "deleteRole"},
          at : {"read", "pick", "row", "roles", "bind", "rebind", "trim", "delete"},
          user : Users \cup {Nothing}, roles : SUBSET Copies,
          given : BOOLEAN,           (* roleIds, or permissionKeys, are given *)
          behind : SUBSET Things]    (* history: changed since they were read *)

(* Nothing is mistaken for a row or a call.                                *)
ASSUME NothingAssumption == Nothing \notin Calls \cup Users

(* What is asked of a user; new: of one that was still to be inserted.     *)
UserAsks == [active : BOOLEAN, new : BOOLEAN, roles : SUBSET RoleIds]

Stages == {"admin", "admin keys", "operator", "operator keys", "user", "join", "up"}

TypeOK ==
  /\ users \in SUBSET Users /\ roles \in SUBSET Roles
  /\ nextUser \in 1..(MaxUsers + 1) /\ nextRole \in 1..(MaxRoles + 1)
  /\ userRoles \in SUBSET (UserIds \X RoleIds) /\ roleKeys \in SUBSET (RoleIds \X Keys)
  /\ boot \in Stages
  /\ \A h \in Handlers : handler[h] \in Calls \/ handler[h] = Nothing
  /\ calls \in 0..MaxCalls
  /\ \A t \in Things : asked[t] \in {Nothing} \cup UserAsks
                                             \cup [name : RoleNames, keys : SUBSET Keys]
  /\ blurred \in SUBSET Things

Init ==
  /\ users = {} /\ nextUser = 1
  /\ roles = {} /\ nextRole = 1
  /\ userRoles = {} /\ roleKeys = {}
  /\ boot = "admin"
  /\ handler = [h \in Handlers |-> Nothing]
  /\ calls = 0
  /\ asked = [t \in Things |-> Nothing]
  /\ blurred = {}

-----------------------------------------------------------------------------
Ids(table)  == {x.id : x \in table}
Named(table, name) == {x \in table : x.name = name}
RolesOf(u)  == {r \in roles : <<u, r.id>> \in userRoles}
KeysOf(r)   == {k \in Keys : <<r, k>> \in roleKeys}
Copy(r)     == [row |-> r, keys |-> KeysOf(r.id)]
Bound(u)    == {r \in RoleIds : <<u, r>> \in userRoles}

(* hasPermission: the role's name is enough for an administrator.          *)
Allowed(u, key) == \E r \in RolesOf(u.id) : r.name = Admin \/ key \in KeysOf(r.id)

(* INSERT ... ON CONFLICT DO NOTHING of the rows of copies, and their keys. *)
InsertMissing(copies) ==
  roles \cup {c.row : c \in {d \in copies : d.row.id \notin Ids(roles) /\ ~ Clash(roles, d.row)}}
KeysWith(copies) == roleKeys \cup UNION {{c.row.id} \X c.keys : c \in copies}
RolesWith(u, copies) == userRoles \cup {<<u, c.row.id>> : c \in copies}

-----------------------------------------------------------------------------
At(h, step) == handler[h] # Nothing /\ handler[h].at = step
Is(h, ops)  == handler[h] # Nothing /\ handler[h].op \in ops

(* What a handler has a copy of that it may write back.                    *)
Copied(c) ==
  IF c.at \in {"read", "delete"} THEN {}
  ELSE {Role(d.row.id) : d \in c.roles} \cup (IF c.user = Nothing THEN {} ELSE {User(c.user.id)})

(* Things have changed: the handlers with a copy of them are behind.       *)
Told(c, things) == IF c = Nothing THEN Nothing
                   ELSE [c EXCEPT !.behind = @ \cup (things \cap Copied(c))]
Become(h, c, things) ==
  handler' = [g \in Handlers |-> IF g = h THEN c ELSE Told(handler[g], things)]

(* h writes things; those it is behind with are mixed up, and changed.     *)
Mixed(h, things) == things \cap handler[h].behind
Blur(h, things) == blurred' = blurred \cup Mixed(h, things)

Ask(thing, what) == asked' = [asked EXCEPT ![thing] = what]

(* What a handler writes step by step: its own row and what belongs to it. *)
Own(c) == IF c = Nothing \/ c.at \in {"read", "pick", "row", "delete"} THEN {}
          ELSE IF c.op \in {"createUser", "updateUser"} THEN {User(c.user.id)}
          ELSE IF c.op \in {"createRole", "updateRole"} THEN {Role(d.row.id) : d \in c.roles}
          ELSE {}

(* A failing statement, or one that finds nothing, ends the request.       *)
Fail(h) ==
  /\ handler[h] # Nothing
  /\ Become(h, Nothing, {})
  /\ blurred' = blurred \cup Own(handler[h])
  /\ UNCHANGED <<tables, boot, calls, asked>>

-----------------------------------------------------------------------------
(* Faulty variants of the actions below. *)

(* deleteRole without its check of builtIn. *)
ReadAnyRole(h) ==
  /\ At(h, "read") /\ Is(h, {"deleteRole"})
  /\ \E r \in roles :
       Become(h, [handler[h] EXCEPT !.roles = {Copy(r)}, !.at = "delete"], {})
  /\ UNCHANGED <<tables, boot, calls, history>>

(* A new user's roles, or a role's keys, added and the old ones left. *)
BindUserOnly(h) ==
  LET c == handler[h] IN
  /\ At(h, "bind") /\ Is(h, {"createUser", "updateUser", "login"})
  /\ userRoles' = RolesWith(c.user.id, c.roles)
  /\ Blur(h, {User(c.user.id)})
  /\ Become(h, Nothing, {User(c.user.id)})
  /\ IF c.op = "login" THEN UNCHANGED asked
     ELSE Ask(User(c.user.id), [active |-> c.user.active, new |-> c.op = "createUser",
                                roles  |-> {d.row.id : d \in c.roles}])
  /\ UNCHANGED <<users, nextUser, roles, nextRole, roleKeys, boot, calls>>

TrimRoleNot(h) ==
  LET c == handler[h] IN
  /\ At(h, "trim") /\ Is(h, {"createRole", "updateRole"})
  /\ \E d \in c.roles :
       /\ Ask(Role(d.row.id), [name |-> d.row.name, keys |-> d.keys])
       /\ Become(h, Nothing, {Role(d.row.id)})
       /\ Blur(h, {Role(d.row.id)})
  /\ UNCHANGED <<tables, boot, calls>>

(* Seed leaving a role alone that has keys already. *)
SeedKeysOnce(stage, name, keys, next) ==
  /\ boot = stage /\ boot' = next
  /\ \E r \in Named(roles, name) :
       /\ roles' = Upsert(roles, [r EXCEPT !.builtIn = TRUE])
       /\ roleKeys' = IF KeysOf(r.id) = {} THEN roleKeys \cup ({r.id} \X keys) ELSE roleKeys
       /\ Ask(Role(r.id), [name |-> name, keys |-> keys])
       /\ blurred' = blurred \ {Role(r.id)}
  /\ UNCHANGED <<users, nextUser, nextRole, userRoles, handler, calls>>

-----------------------------------------------------------------------------
(* Seed, at each start before the server listens.                          *)

SeedRole(stage, name, next) ==
  /\ boot = stage /\ boot' = next
  /\ \/ Named(roles, name) # {} /\ UNCHANGED <<roles, nextRole, asked>>
     \/ /\ Named(roles, name) = {} /\ nextRole <= MaxRoles
        /\ roles' = roles \cup {[id |-> nextRole, name |-> name, builtIn |-> TRUE]}
        /\ nextRole' = nextRole + 1
        /\ Ask(Role(nextRole), [name |-> name, keys |-> {}])
  /\ UNCHANGED <<users, nextUser, userRoles, roleKeys, handler, calls, blurred>>

(* The role's columns, then its keys: nobody else is there to see them     *)
(* apart, and a crash between them starts Seed again.                      *)
SeedKeys(stage, name, keys, next) ==
  /\ boot = stage /\ boot' = next
  /\ \E r \in Named(roles, name) :
       /\ roles' = Upsert(roles, [r EXCEPT !.builtIn = TRUE])
       /\ roleKeys' = {k \in roleKeys : k[1] # r.id} \cup ({r.id} \X keys)
       /\ Ask(Role(r.id), [name |-> name, keys |-> keys])
       /\ blurred' = blurred \ {Role(r.id)}
  /\ UNCHANGED <<users, nextUser, nextRole, userRoles, handler, calls>>

SeedUser ==
  /\ boot = "user" /\ boot' = "join"
  /\ \/ Named(users, Bootstrap) # {} /\ UNCHANGED <<users, nextUser, asked>>
     \/ /\ Named(users, Bootstrap) = {} /\ nextUser <= MaxUsers
        /\ users' = users \cup {[id |-> nextUser, name |-> Bootstrap, active |-> TRUE]}
        /\ nextUser' = nextUser + 1
        /\ Ask(User(nextUser), [active |-> TRUE, new |-> TRUE, roles |-> {}])
  /\ UNCHANGED <<roles, nextRole, userRoles, roleKeys, handler, calls, blurred>>

SeedJoin ==
  /\ boot = "join" /\ boot' = "up"
  /\ \E u \in Named(users, Bootstrap), r \in Named(roles, Admin) :
       /\ userRoles' = userRoles \cup {<<u.id, r.id>>}
       /\ Ask(User(u.id), [asked[User(u.id)] EXCEPT !.roles = @ \cup {r.id}])
  /\ UNCHANGED <<users, nextUser, roles, nextRole, roleKeys, handler, calls, blurred>>

Seed == \/ SeedRole("admin", Admin, "admin keys")
        \/ SeedKeys("admin keys", Admin, Keys, "operator")
        \/ SeedRole("operator", Operator, "operator keys")
        \/ SeedKeys("operator keys", Operator, OperatorKeys, "user")
        \/ SeedUser \/ SeedJoin

(* The process dies, or Seed fails; launchd starts it again.               *)
Crash ==
  /\ calls < MaxCalls /\ calls' = calls + 1
  /\ boot' = "admin"
  /\ handler' = [h \in Handlers |-> Nothing]
  /\ blurred' = blurred \cup UNION {Own(handler[h]) : h \in Handlers}
  /\ UNCHANGED <<tables, asked>>

-----------------------------------------------------------------------------
(* The requests, once authMiddleware and requirePermission let u through.  *)

Begin(h, op, at, user, copies) ==
  /\ boot = "up" /\ handler[h] = Nothing
  /\ calls < MaxCalls /\ calls' = calls + 1
  /\ Become(h, [op |-> op, at |-> at, user |-> user, roles |-> copies,
                given |-> op = "createRole", behind |-> {}], {})
  /\ UNCHANGED <<tables, boot, history>>

Admitted(u, key) == u.active /\ Allowed(u, key)

UserRequest(h) ==
  \E u \in users :
    /\ Admitted(u, UsersWrite)
    /\ \/ \E n \in UserNames, active \in BOOLEAN :
            Begin(h, "createUser", "pick", [id |-> 0, name |-> n, active |-> active], {})
       \/ Begin(h, "updateUser", "read", Nothing, {})
       \/ \E v \in users : v.id # u.id /\ Begin(h, "deleteUser", "delete", v, {})

RoleRequest(h) ==
  \E u \in users :
    /\ Admitted(u, RolesWrite)
    /\ \/ \E n \in RoleNames, keys \in SUBSET Keys :
            Begin(h, "createRole", "row", Nothing,
                  {[row |-> [id |-> 0, name |-> n, builtIn |-> FALSE], keys |-> keys]})
       \/ \E op \in {"updateRole", "deleteRole"} : Begin(h, op, "read", Nothing, {})

(* login loads the user with its roles, compares the password, and updates *)
(* one column of the row: the roles loaded are written back with it.  One  *)
(* without roles changes nothing that is modelled.                         *)
Login(h) ==
  \E u \in users :
    /\ u.active /\ RolesOf(u.id) # {}
    /\ Begin(h, "login", "roles", u, {Copy(r) : r \in RolesOf(u.id)})

-----------------------------------------------------------------------------
(* createUser, updateUser and login.                                       *)

ReadUser(h) ==
  /\ At(h, "read") /\ Is(h, {"updateUser"})
  /\ \E u \in users, n \in UserNames, active, given \in BOOLEAN :
       Become(h, [handler[h] EXCEPT !.user = [u EXCEPT !.name = n, !.active = active],
                                    !.roles = {Copy(r) : r \in RolesOf(u.id)},
                                    !.given = given,
                                    !.at = IF given THEN "pick" ELSE "row"], {})
  /\ UNCHANGED <<tables, boot, calls, history>>

(* loadRolesByIDs.                                                         *)
PickRoles(h) ==
  /\ At(h, "pick")
  /\ \E picked \in SUBSET roles :
       Become(h, [handler[h] EXCEPT !.roles = {Copy(r) : r \in picked}, !.at = "row",
                                    !.behind = @ \cap {User(u) : u \in UserIds}], {})
  /\ UNCHANGED <<tables, boot, calls, history>>

(* An INSERT (createUser's, and the one gorm tries when an update finds no *)
(* row) puts the column's default where `active` is false: the row is then *)
(* active.  c.user.active stays what was asked.                            *)
SaveUser(h) ==
  LET c == handler[h] IN
  /\ At(h, "row") /\ Is(h, {"createUser", "updateUser"})
  /\ LET new == IF c.op = "createUser" THEN [c.user EXCEPT !.id = nextUser, !.active = TRUE]
                ELSE [c.user EXCEPT !.active = @ \/ c.user.id \notin Ids(users)]
     IN
     /\ new.id <= MaxUsers /\ ~ Clash(users, new)
     /\ users' = Upsert(users, new)
     /\ Become(h, [c EXCEPT !.user.id = new.id, !.at = "roles"], {User(new.id)})
     /\ Blur(h, {User(new.id)})
  /\ \/ /\ c.op = "createUser" /\ nextUser' = nextUser + 1
        /\ Ask(User(nextUser), [active |-> c.user.active, new |-> TRUE, roles |-> {}])
     \/ c.op = "updateUser" /\ UNCHANGED <<nextUser, asked>>
  /\ UNCHANGED <<roles, nextRole, userRoles, roleKeys, boot, calls>>

(* The roles loaded into the user: updateUser, with FullSaveAssociations,  *)
(* overwrites them, the others insert what is missing.                     *)
SaveRoles(h) ==
  LET c       == handler[h]
      rows    == {d.row : d \in c.roles}
      written == {Role(i) : i \in Ids(rows)}
      others  == {r \in roles : r.id \notin Ids(rows)}
  IN
  /\ At(h, "roles")
  /\ \/ /\ c.op = "updateUser" /\ \A r \in rows : ~ Clash(others, r)
        /\ roles' = others \cup rows
     \/ c.op # "updateUser" /\ roles' = InsertMissing(c.roles)
  /\ roleKeys' = KeysWith(c.roles)
  /\ Blur(h, written)
  /\ Become(h, [c EXCEPT !.at = "bind"], Mixed(h, written))
  /\ UNCHANGED <<users, nextUser, nextRole, userRoles, boot, calls, asked>>

BindUser(h) ==
  LET c     == handler[h]
      thing == User(c.user.id)
  IN
  /\ At(h, "bind") /\ Is(h, {"createUser", "updateUser", "login"})
  /\ userRoles' = RolesWith(c.user.id, c.roles)
  /\ Blur(h, {thing})
  /\ Become(h, IF c.given THEN [c EXCEPT !.at = "rebind"] ELSE Nothing,
               IF c.op = "login" THEN Mixed(h, {thing}) ELSE {thing})
  /\ IF c.given \/ c.op = "login" THEN UNCHANGED asked
     ELSE Ask(thing, [active |-> c.user.active, new |-> c.op = "createUser",
                      roles  |-> IF c.op = "createUser" THEN {d.row.id : d \in c.roles}
                                 ELSE asked[thing].roles])
  /\ UNCHANGED <<users, nextUser, roles, nextRole, roleKeys, boot, calls>>

(* Association("Roles").Replace: what is missing is inserted once more,    *)
(* then all other joins of the user are deleted.                           *)
RebindUser(h) ==
  LET c == handler[h] IN
  /\ At(h, "rebind") /\ Is(h, {"updateUser"})
  /\ roles' = InsertMissing(c.roles)
  /\ userRoles' = RolesWith(c.user.id, c.roles)
  /\ LET written == {User(c.user.id)} \cup {Role(d.row.id) : d \in c.roles} IN
     /\ Blur(h, written)
     /\ Become(h, [c EXCEPT !.at = "trim"], {User(c.user.id)} \cup Mixed(h, written))
  /\ UNCHANGED <<users, nextUser, nextRole, roleKeys, boot, calls, asked>>

(* The request is done: its thing is as it asked, if nobody came between.  *)
Settle(h, thing) ==
  blurred' = IF thing \in handler[h].behind THEN blurred \cup {thing} ELSE blurred \ {thing}

TrimUser(h) ==
  LET c   == handler[h]
      ids == {d.row.id : d \in c.roles}
  IN
  /\ At(h, "trim") /\ Is(h, {"updateUser"})
  /\ userRoles' = {j \in userRoles : j[1] = c.user.id => j[2] \in ids}
  /\ Become(h, Nothing, {User(c.user.id)})
  /\ Settle(h, User(c.user.id))
  /\ Ask(User(c.user.id), [active |-> c.user.active, new |-> FALSE, roles |-> ids])
  /\ UNCHANGED <<users, nextUser, roles, nextRole, roleKeys, boot, calls>>

(* deleteUser deletes the row by its id and leaves the joins.              *)
DeleteUser(h) ==
  /\ At(h, "delete") /\ Is(h, {"deleteUser"})
  /\ users' = Without(users, handler[h].user.id)
  /\ Become(h, Nothing, {User(handler[h].user.id)})
  /\ UNCHANGED <<nextUser, roles, nextRole, userRoles, roleKeys, boot, calls, history>>

-----------------------------------------------------------------------------
(* createRole, updateRole and deleteRole.                                  *)

ReadRole(h) ==
  /\ At(h, "read")
  /\ \E r \in roles :
       \/ /\ Is(h, {"deleteRole"}) /\ ~ r.builtIn
          /\ Become(h, [handler[h] EXCEPT !.roles = {Copy(r)}, !.at = "delete"], {})
       \/ /\ Is(h, {"updateRole"})
          /\ \E n \in RoleNames, given \in BOOLEAN, keys \in SUBSET Keys :
               /\ given \/ keys = KeysOf(r.id)
               /\ Become(h, [handler[h] EXCEPT
                       !.roles = {[row |-> [r EXCEPT !.name = n], keys |-> keys]},
                       !.given = given, !.at = "row"], {})
  /\ UNCHANGED <<tables, boot, calls, history>>

CreateRole(h) ==
  /\ At(h, "row") /\ Is(h, {"createRole"})
  /\ \E d \in handler[h].roles :
       LET new == [d EXCEPT !.row.id = nextRole] IN
       /\ nextRole <= MaxRoles /\ ~ Clash(roles, new.row)
       /\ roles' = roles \cup {new.row}
       /\ Become(h, [handler[h] EXCEPT !.roles = {new}, !.at = "bind"], {Role(nextRole)})
       /\ Ask(Role(nextRole), [name |-> d.row.name, keys |-> {}])
  /\ nextRole' = nextRole + 1
  /\ UNCHANGED <<users, nextUser, userRoles, roleKeys, boot, calls, blurred>>

SaveRole(h) ==
  /\ At(h, "row") /\ Is(h, {"updateRole"})
  /\ \E d \in handler[h].roles :
       /\ ~ Clash(roles, d.row) /\ roles' = Upsert(roles, d.row)
       /\ Become(h, [handler[h] EXCEPT !.at = "bind"], {Role(d.row.id)})
       /\ Blur(h, {Role(d.row.id)})
  /\ UNCHANGED <<users, nextUser, nextRole, userRoles, roleKeys, boot, calls, asked>>

(* The keys loaded or given are inserted with the row, and, if given, once *)
(* more by Association("Permissions").Replace.                             *)
BindRole(h) ==
  LET c == handler[h] IN
  /\ At(h, "bind") \/ At(h, "rebind")
  /\ Is(h, {"createRole", "updateRole"})
  /\ roleKeys' = KeysWith(c.roles)
  /\ \E d \in c.roles :
       /\ Become(h, IF ~ c.given THEN Nothing
                    ELSE [c EXCEPT !.at = IF @ = "bind" THEN "rebind" ELSE "trim"],
                    {Role(d.row.id)})
       /\ Blur(h, {Role(d.row.id)})
       /\ IF c.given THEN UNCHANGED asked
          ELSE Ask(Role(d.row.id), [asked[Role(d.row.id)] EXCEPT !.name = d.row.name])
  /\ UNCHANGED <<users, nextUser, roles, nextRole, userRoles, boot, calls>>

TrimRole(h) ==
  /\ At(h, "trim") /\ Is(h, {"createRole", "updateRole"})
  /\ \E d \in handler[h].roles :
       /\ roleKeys' = {k \in roleKeys : k[1] = d.row.id => k[2] \in d.keys}
       /\ Become(h, Nothing, {Role(d.row.id)})
       /\ Settle(h, Role(d.row.id))
       /\ Ask(Role(d.row.id), [name |-> d.row.name, keys |-> d.keys])
  /\ UNCHANGED <<users, nextUser, roles, nextRole, userRoles, boot, calls>>

DeleteRole(h) ==
  /\ At(h, "delete") /\ Is(h, {"deleteRole"})
  /\ \E d \in handler[h].roles :
       /\ roles' = Without(roles, d.row.id)
       /\ Become(h, Nothing, {Role(d.row.id)})
  /\ UNCHANGED <<users, nextUser, nextRole, userRoles, roleKeys, boot, calls, history>>

-----------------------------------------------------------------------------
Step(h) ==
  \/ UserRequest(h) \/ RoleRequest(h) \/ Login(h) \/ Fail(h)
  \/ ReadUser(h) \/ PickRoles(h) \/ SaveUser(h) \/ SaveRoles(h)
  \/ BindUser(h) \/ RebindUser(h) \/ TrimUser(h) \/ DeleteUser(h)
  \/ ReadRole(h) \/ CreateRole(h) \/ SaveRole(h) \/ BindRole(h) \/ TrimRole(h) \/ DeleteRole(h)

Next == Seed \/ Crash \/ \E h \in Handlers : Step(h)

Spec == Init /\ [][Next]_vars

-----------------------------------------------------------------------------
Sharp(thing) == /\ thing \notin blurred
                /\ \A h \in Handlers : thing \notin Own(handler[h])

(* A role has the name and exactly the keys that were last asked for, so   *)
(* that a key taken away stays away whatever copies of the role logins and *)
(* user updates write back - unless requests that changed the role         *)
(* overlapped, or the last one did not finish (updateRole, updateUser).    *)
RoleAsAsked ==
  \A r \in roles : Sharp(Role(r.id)) =>
    asked[Role(r.id)] = [name |-> r.name, keys |-> KeysOf(r.id)]

(* What the tables make of it: a user created as inactive is active.       *)
Stored(what) == [active |-> what.active \/ what.new, roles |-> what.roles]

(* A user is active, and has the roles, as last asked, with the same       *)
(* exceptions (updateUser, login) and one more: createUser leaves a user   *)
(* active whatever it was asked, until an update says otherwise.           *)
UserAsAsked ==
  \A u \in users : Sharp(User(u.id)) =>
    Stored(asked[User(u.id)]) = [active |-> u.active, roles |-> Bound(u.id)]

(* Whatever was done to them before, and wherever a crash stopped it, when *)
(* the server starts to serve the administrator's role has every key, the  *)
(* operator's its own, both are built in, and the bootstrap user has the   *)
(* first (Seed).                                                           *)
Ready ==
  \E u \in Named(users, Bootstrap), r \in Named(roles, Admin), o \in Named(roles, Operator) :
    /\ r.builtIn /\ KeysOf(r.id) = Keys /\ <<u.id, r.id>> \in userRoles
    /\ o.builtIn /\ KeysOf(o.id) = OperatorKeys
SeedRestores == [][boot # "up" /\ boot' = "up" => Ready']_vars

(* A built-in role is never deleted, and no copy of it makes it deletable, *)
(* also after it was renamed (deleteRole).                                 *)
BuiltInsStay ==
  [][\A r \in roles : r.builtIn => \E q \in roles' : q.id = r.id /\ q.builtIn]_vars
=============================================================================
