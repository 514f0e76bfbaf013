---------------------------- MODULE AccessProofs ----------------------------
(***************************************************************************)
(* Theorems about Access, for any number of requests, users, roles, keys   *)
(* and ids: TypeOK, BuiltInsStay, SeedRestores, RoleAsAsked, UserAsAsked.  *)
(*                                                                         *)
(* Types says what a call is at each stage of its operation, and that the  *)
(* two tables keep their unique columns; everything else rests on it.      *)
(* That a built-in role stays follows from OneFlag: the row of a role and  *)
(* every copy of it agree on builtIn, and deleteRole holds no built-in     *)
(* one.  What a start restores follows from Seeded, how far it has come.   *)
(* That roles and users are as asked follows from RolesInv and UsersInv: a *)
(* call that is not behind with a thing holds of it what the tables have,  *)
(* so that writing the copy back changes nothing; one that is behind blurs *)
(* what it writes; and what a call leaves as it is, is as asked unless     *)
(* another call is at it and will settle or blur it (Others).              *)
(***************************************************************************)
EXTENDS Access, TLAPS

UserOps == {"createUser", "updateUser", "login"}
RoleOps == {"createRole", "updateRole"}

-----------------------------------------------------------------------------
(* The ids a table has given, and what it may hold.                        *)
Given(i, next) == i \in Nat /\ 0 < i /\ i < next
Table(rows, next) ==
  /\ \A x \in rows : Given(x.id, next)
  /\ \A x, y \in rows : x.id = y.id \/ x.name = y.name => x = y

RoleAsks == [name : RoleNames, keys : SUBSET Keys]

TablesFine ==
  /\ users \in SUBSET Users /\ Table(users, nextUser)
  /\ roles \in SUBSET Roles /\ Table(roles, nextRole)
  /\ nextUser \in 1..(MaxUsers + 1) /\ nextRole \in 1..(MaxRoles + 1)
  /\ \A j \in userRoles : j \in UserIds \X RoleIds /\ Given(j[1], nextUser)
  /\ \A k \in roleKeys : k \in RoleIds \X Keys /\ Given(k[1], nextRole)

AskedFine ==
  /\ asked \in [Things -> {Nothing} \cup UserAsks \cup RoleAsks]
  /\ \A i \in UserIds : Given(i, nextUser) => asked[User(i)] \in UserAsks
  /\ \A i \in RoleIds : Given(i, nextRole) => asked[Role(i)] \in RoleAsks
  /\ blurred \in SUBSET Things

(* A call is as its operation and stage have it.                           *)
Single(copies) == \E d \in Copies : copies = {d}
Apart(copies) ==
  \A d, e \in copies : d.row.id = e.row.id \/ d.row.name = e.row.name => d = e

Staged(c) ==
  /\ c.op = "createUser" => c.at \in {"pick", "row", "roles", "bind"} /\ ~ c.given
  /\ c.op = "updateUser" => c.at \in {"read", "pick", "row", "roles", "bind", "rebind", "trim"}
  /\ c.op = "login"      => c.at \in {"roles", "bind"} /\ ~ c.given
  /\ c.op = "deleteUser" => c.at = "delete"
  /\ c.op = "createRole" => c.at \in {"row", "bind", "rebind", "trim"} /\ c.given
  /\ c.op = "updateRole" => c.at \in {"read", "row", "bind", "rebind", "trim"}
  /\ c.op = "deleteRole" => c.at \in {"read", "delete"}
  /\ c.at \in {"pick", "rebind", "trim"} /\ c.op # "createUser" => c.given

NewUser(c) == c.op = "createUser" /\ c.at \in {"pick", "row"}
NewRole(c) == c.op = "createRole" /\ c.at = "row"

Shaped(c, nu, nr) ==
  /\ c \in Calls /\ Staged(c)
  /\ c.at = "read" => c.roles = {}
  /\ c.op \in RoleOps \cup {"deleteRole"} \/ c.at = "read" => c.user = Nothing
  /\ c.op \in UserOps \cup {"deleteUser"} /\ c.at # "read" =>
       c.user \in Users /\ ((NewUser(c) /\ c.user.id = 0) \/ Given(c.user.id, nu))
  /\ c.op \in RoleOps \cup {"deleteRole"} /\ c.at # "read" => Single(c.roles)
  /\ c.op \in UserOps => Apart(c.roles)
  /\ \A d \in c.roles : IF NewRole(c) THEN d.row.id = 0 ELSE Given(d.row.id, nr)
  /\ c.op = "deleteRole" => \A d \in c.roles : ~ d.row.builtIn

Fine(c, nu, nr) == c = Nothing \/ Shaped(c, nu, nr)
Starting == boot # "up" => \A h \in Handlers : handler[h] = Nothing

Types ==
  /\ TablesFine /\ AskedFine
  /\ boot \in Stages /\ calls \in 0..MaxCalls
  /\ \A h \in Handlers : Fine(handler[h], nextUser, nextRole)
  /\ Starting

-----------------------------------------------------------------------------
LEMMA ThingFacts ==
  /\ \A i \in UserIds : User(i) \in Things
  /\ \A i \in RoleIds : Role(i) \in Things
  /\ \A i, j : User(i) = User(j) => i = j
  /\ \A i, j : Role(i) = Role(j) => i = j
  /\ \A i, j : User(i) # Role(j)
BY DEF Things, User, Role

LEMMA GivenFacts ==
  ASSUME NEW i, NEW next \in Nat
  PROVE  /\ Given(i, next) => Given(i, next + 1) /\ i # next
         /\ 0 < next => Given(next, next + 1)
BY DEF Given

LEMMA GivenIds ==
  ASSUME TablesFine
  PROVE  /\ \A i : Given(i, nextUser) => i \in UserIds
         /\ \A i : Given(i, nextRole) => i \in RoleIds
         /\ nextUser \in Nat /\ 0 < nextUser /\ nextRole \in Nat /\ 0 < nextRole
BY BoundsAssumption DEF TablesFine, Given, UserIds, RoleIds

(* Statements on a table.                                                  *)
LEMMA UpsertTable ==
  ASSUME NEW rows, NEW next, Table(rows, next), NEW x, Given(x.id, next), ~ Clash(rows, x)
  PROVE  Table(Upsert(rows, x), next)
BY DEF Table, Upsert, Clash

LEMMA WithoutTable ==
  ASSUME NEW rows, NEW next, Table(rows, next), NEW i
  PROVE  Table(Without(rows, i), next)
BY DEF Table, Without

LEMMA GrownTable ==
  ASSUME NEW rows, NEW next \in Nat, Table(rows, next)
  PROVE  Table(rows, next + 1)
BY DEF Table, Given

LEMMA InsertTable ==
  ASSUME NEW rows, NEW next \in Nat, 0 < next, Table(rows, next), NEW x, x.id = next, ~ Clash(rows, x)
  PROVE  Table(rows \cup {x}, next + 1)
<1>1. \A y \in rows : y.id # x.id /\ y.name # x.name
  BY DEF Table, Given, Clash
<1> QED
  BY <1>1 DEF Table, Given

LEMMA MissingTable ==
  ASSUME TablesFine, NEW copies \in SUBSET Copies, Apart(copies),
         \A d \in copies : Given(d.row.id, nextRole)
  PROVE  InsertMissing(copies) \in SUBSET Roles /\ Table(InsertMissing(copies), nextRole)
<1> DEFINE new == {c.row : c \in {d \in copies : d.row.id \notin Ids(roles) /\ ~ Clash(roles, d.row)}}
<1>1. new \in SUBSET Roles /\ \A x \in new : Given(x.id, nextRole) /\ x.id \notin Ids(roles) /\ ~ Clash(roles, x)
  BY DEF Copies
<1>2. \A x, y \in new : x.id = y.id \/ x.name = y.name => x = y
  BY DEF Apart
<1>3. \A x \in roles, y \in new : x.id # y.id /\ x.name # y.name
  BY <1>1 DEF Ids, Clash
<1>4. InsertMissing(copies) = roles \cup new
  BY DEF InsertMissing
<1> HIDE DEF new
<1> QED
  BY <1>1, <1>2, <1>3, <1>4 DEF Table, TablesFine

-----------------------------------------------------------------------------
(* What becomes of the handlers' calls.                                    *)
LEMMA ToldFacts ==
  ASSUME NEW c \in Calls, NEW things \in SUBSET Things
  PROVE  /\ Told(c, things) \in Calls
         /\ Told(c, things).op = c.op /\ Told(c, things).at = c.at
         /\ Told(c, things).user = c.user /\ Told(c, things).roles = c.roles
         /\ Told(c, things).given = c.given
         /\ Told(c, things).behind = c.behind \cup (things \cap Copied(c))
<1>1. c # Nothing
  BY NothingAssumption
<1>2. things \cap Copied(c) \in SUBSET Things
  OBVIOUS
<1> QED
  BY <1>1, <1>2 DEF Told, Calls

(* Two calls that differ in nothing else.                                  *)
Alike(c, d) ==
  /\ d \in Calls /\ d.op = c.op /\ d.at = c.at /\ d.user = c.user /\ d.roles = c.roles
  /\ d.given = c.given

LEMMA AlikeShaped ==
  ASSUME NEW c, NEW d, NEW nu \in Nat, NEW nr \in Nat, Shaped(c, nu, nr), Alike(c, d),
         NEW mu \in Nat, NEW mr \in Nat, nu <= mu, nr <= mr
  PROVE  Shaped(d, mu, mr)
<1>1. \A i : (Given(i, nu) => Given(i, mu)) /\ (Given(i, nr) => Given(i, mr))
  BY DEF Given
<1>2. Staged(d) /\ NewUser(c) = NewUser(d) /\ NewRole(c) = NewRole(d)
  BY DEF Staged, NewUser, NewRole, Alike, Shaped
<1> QED
  BY <1>1, <1>2 DEF Shaped, Alike

LEMMA BecomeFacts ==
  ASSUME NEW h \in Handlers, NEW c, NEW things, Become(h, c, things)
  PROVE  /\ handler'[h] = c
         /\ \A g \in Handlers \ {h} : handler'[g] = Told(handler[g], things)
BY DEF Become

LEMMA StepTypes ==
  ASSUME Types, NEW h \in Handlers, NEW c, NEW things \in SUBSET Things, Become(h, c, things),
         Fine(c, nextUser', nextRole'), TablesFine', AskedFine',
         nextUser <= nextUser', nextRole <= nextRole',
         boot = "up" \/ handler[h] # Nothing, boot' = boot, calls' \in 0..MaxCalls
  PROVE  Types'
<1>1. nextUser \in Nat /\ nextRole \in Nat /\ nextUser' \in Nat /\ nextRole' \in Nat
  BY BoundsAssumption DEF Types, TablesFine
<1>2. ASSUME NEW g \in Handlers
      PROVE  Fine(handler'[g], nextUser', nextRole')
  <2>1. CASE g = h
    BY <2>1, BecomeFacts
  <2>2. CASE g # h /\ handler[g] = Nothing
    BY <2>2, BecomeFacts DEF Told, Fine
  <2>3. CASE g # h /\ handler[g] # Nothing
    <3>1. handler'[g] = Told(handler[g], things)
      BY <2>3, BecomeFacts
    <3>2. Shaped(handler[g], nextUser, nextRole) /\ handler[g] \in Calls
      BY <2>3 DEF Types, Fine, Shaped
    <3>3. Alike(handler[g], handler'[g])
      BY <3>1, <3>2, ToldFacts DEF Alike
    <3> QED
      BY <1>1, <3>2, <3>3, AlikeShaped DEF Fine
  <2> QED
    BY <2>1, <2>2, <2>3
<1>3. boot = "up"
  BY DEF Types, Starting
<1> QED
  BY <1>2, <1>3 DEF Types, Starting

-----------------------------------------------------------------------------
(* Each step keeps the types.                                              *)

(* What a handler at work has.                                             *)
LEMMA AtWork ==
  ASSUME Types, NEW h \in Handlers, handler[h] # Nothing
  PROVE  Shaped(handler[h], nextUser, nextRole) /\ handler[h] \in Calls /\ boot = "up"
BY DEF Types, Fine, Shaped, Starting

LEMMA OwnThings ==
  ASSUME NEW c, NEW nu \in Nat, nu <= MaxUsers + 1, NEW nr \in Nat, nr <= MaxRoles + 1, Fine(c, nu, nr)
  PROVE  Own(c) \in SUBSET Things
<1>1. CASE c = Nothing
  BY <1>1 DEF Own
<1>2. CASE c # Nothing
  <2>1. \A i : (Given(i, nu) => i \in UserIds) /\ (Given(i, nr) => i \in RoleIds)
    BY BoundsAssumption DEF Given, UserIds, RoleIds
  <2>2. Shaped(c, nu, nr)
    BY <1>2 DEF Fine
  <2>3. c.op \in {"createUser", "updateUser"} /\ c.at \notin {"read", "pick", "row", "delete"} =>
          User(c.user.id) \in Things
    BY <2>1, <2>2, ThingFacts DEF Shaped, NewUser, UserOps
  <2>4. c.op \in RoleOps /\ c.at \notin {"read", "pick", "row", "delete"} =>
          \A d \in c.roles : Role(d.row.id) \in Things
    BY <2>1, <2>2, ThingFacts DEF Shaped, NewRole
  <2> QED
    BY <1>2, <2>3, <2>4 DEF Own, RoleOps
<1> QED
  BY <1>1, <1>2

LEMMA FailTypes ==
  ASSUME Types, NEW h \in Handlers, Fail(h)
  PROVE  Types'
<1>1. Own(handler[h]) \in SUBSET Things
  BY OwnThings, BoundsAssumption DEF Types, TablesFine
<1>2. TablesFine' /\ AskedFine'
  BY <1>1 DEF Fail, tables, Types, TablesFine, AskedFine
<1>3. nextUser <= nextUser' /\ nextRole <= nextRole'
  BY GivenIds DEF Fail, tables, Types
<1> QED
  BY <1>2, <1>3, StepTypes DEF Fail, Fine, Types

(* A request begins.                                                       *)
LEMMA BeginTypes ==
  ASSUME Types, NEW h \in Handlers, NEW op, NEW at, NEW user, NEW copies,
         Begin(h, op, at, user, copies),
         Shaped([op |-> op, at |-> at, user |-> user, roles |-> copies,
                 given |-> op = "createRole", behind |-> {}], nextUser, nextRole)
  PROVE  Types'
<1> DEFINE c == [op |-> op, at |-> at, user |-> user, roles |-> copies,
                 given |-> op = "createRole", behind |-> {}]
<1>1. Become(h, c, {}) /\ boot = "up" /\ boot' = boot /\ calls' \in 0..MaxCalls
  BY BoundsAssumption DEF Begin, Types
<1>2. TablesFine' /\ AskedFine' /\ nextUser' = nextUser /\ nextRole' = nextRole
  BY DEF Begin, tables, history, Types, TablesFine, AskedFine
<1>3. Fine(c, nextUser', nextRole')
  BY <1>2 DEF Fine
<1> HIDE DEF c
<1> QED
  BY <1>1, <1>2, <1>3, StepTypes, GivenIds DEF Types

LEMMA UserRequestTypes ==
  ASSUME Types, NEW h \in Handlers, UserRequest(h)
  PROVE  Types'
<1>1. ASSUME NEW n \in UserNames, NEW active \in BOOLEAN,
             Begin(h, "createUser", "pick", [id |-> 0, name |-> n, active |-> active], {})
      PROVE  Types'
  <2> SUFFICES ASSUME NEW v, v = [id |-> 0, name |-> n, active |-> active]
               PROVE  Types'
    OBVIOUS
  <2>1. v \in Users /\ v.id = 0
    BY BoundsAssumption DEF Users
  <2>2. Shaped([op |-> "createUser", at |-> "pick", user |-> v,
                roles |-> {}, given |-> "createUser" = "createRole", behind |-> {}], nextUser, nextRole)
    BY <2>1 DEF Shaped, Calls, Staged, NewUser, NewRole, UserOps, RoleOps, Apart
  <2> QED
    BY <1>1, <2>2, BeginTypes
<1>2. ASSUME Begin(h, "updateUser", "read", Nothing, {})
      PROVE  Types'
  <2>1. Shaped([op |-> "updateUser", at |-> "read", user |-> Nothing,
                roles |-> {}, given |-> "updateUser" = "createRole", behind |-> {}], nextUser, nextRole)
    BY DEF Shaped, Calls, Staged, NewUser, NewRole, UserOps, RoleOps, Apart
  <2> QED
    BY <1>2, <2>1, BeginTypes
<1>3. ASSUME NEW v \in users, Begin(h, "deleteUser", "delete", v, {})
      PROVE  Types'
  <2>1. v \in Users /\ Given(v.id, nextUser)
    BY DEF Types, TablesFine, Table
  <2>2. Shaped([op |-> "deleteUser", at |-> "delete", user |-> v,
                roles |-> {}, given |-> "deleteUser" = "createRole", behind |-> {}], nextUser, nextRole)
    BY <2>1 DEF Shaped, Calls, Staged, NewUser, NewRole, UserOps, RoleOps, Apart
  <2> QED
    BY <1>3, <2>2, BeginTypes
<1> QED
  BY <1>1, <1>2, <1>3 DEF UserRequest

(* A copy of a role.                                                       *)
LEMMA CopyFacts ==
  ASSUME Types, NEW copies, \A d \in copies : \E r \in roles : d = Copy(r)
  PROVE  /\ copies \in SUBSET Copies /\ Apart(copies)
         /\ \A d \in copies : d.row \in roles /\ d.keys = KeysOf(d.row.id) /\ Given(d.row.id, nextRole)
<1>1. \A r : KeysOf(r) \in SUBSET Keys
  BY DEF KeysOf
<1>2. \A r \in roles : Copy(r) \in Copies /\ Copy(r).row = r /\ Copy(r).keys = KeysOf(r.id)
  BY <1>1 DEF Types, TablesFine, Copy, Copies
<1>3. \A d \in copies : d \in Copies /\ d.row \in roles /\ d = Copy(d.row) /\ d.keys = KeysOf(d.row.id)
  BY <1>2
<1>4. Apart(copies)
  BY <1>3 DEF Apart, Types, TablesFine, Table
<1> QED
  BY <1>3, <1>4 DEF Types, TablesFine, Table

LEMMA RoleRequestTypes ==
  ASSUME Types, NEW h \in Handlers, RoleRequest(h)
  PROVE  Types'
<1>1. ASSUME NEW n \in RoleNames, NEW keys \in SUBSET Keys,
             Begin(h, "createRole", "row", Nothing,
                   {[row |-> [id |-> 0, name |-> n, builtIn |-> FALSE], keys |-> keys]})
      PROVE  Types'
  <2> DEFINE d == [row |-> [id |-> 0, name |-> n, builtIn |-> FALSE], keys |-> keys]
  <2>1. d \in Copies /\ d.row.id = 0
    BY BoundsAssumption DEF Copies, Roles
  <2>3. Begin(h, "createRole", "row", Nothing, {d})
    BY <1>1
  <2> HIDE DEF d
  <2>2. Shaped([op |-> "createRole", at |-> "row", user |-> Nothing,
                roles |-> {d}, given |-> "createRole" = "createRole", behind |-> {}], nextUser, nextRole)
    BY <2>1 DEF Shaped, Calls, Staged, NewUser, NewRole, UserOps, RoleOps, Single
  <2> QED
    BY <2>2, <2>3, BeginTypes
<1>2. ASSUME NEW op \in {"updateRole", "deleteRole"}, Begin(h, op, "read", Nothing, {})
      PROVE  Types'
  <2>1. Shaped([op |-> op, at |-> "read", user |-> Nothing,
                roles |-> {}, given |-> op = "createRole", behind |-> {}], nextUser, nextRole)
    BY DEF Shaped, Calls, Staged, NewUser, NewRole, UserOps, RoleOps
  <2> QED
    BY <1>2, <2>1, BeginTypes
<1> QED
  BY <1>1, <1>2 DEF RoleRequest

LEMMA LoginTypes ==
  ASSUME Types, NEW h \in Handlers, Login(h)
  PROVE  Types'
<1>1. PICK u \in users : Begin(h, "login", "roles", u, {Copy(r) : r \in RolesOf(u.id)})
  BY DEF Login
<1>2. u \in Users /\ Given(u.id, nextUser) /\ RolesOf(u.id) \in SUBSET roles
  BY DEF Types, TablesFine, Table, RolesOf
<1> SUFFICES ASSUME NEW copies, copies = {Copy(r) : r \in RolesOf(u.id)}
             PROVE  Types'
  OBVIOUS
<1>3. copies \in SUBSET Copies /\ Apart(copies) /\ \A d \in copies : Given(d.row.id, nextRole)
  <2>1. \A d \in copies : \E r \in roles : d = Copy(r)
    BY <1>2
  <2> QED
    BY <2>1, CopyFacts
<1>4. Begin(h, "login", "roles", u, copies)
  BY <1>1
<1>5. Shaped([op |-> "login", at |-> "roles", user |-> u, roles |-> copies,
              given |-> "login" = "createRole", behind |-> {}], nextUser, nextRole)
  BY <1>2, <1>3 DEF Shaped, Calls, Staged, NewUser, NewRole, UserOps, RoleOps
<1> QED
  BY <1>4, <1>5, BeginTypes

(* A step that leaves the tables alone.                                    *)
LEMMA HeldTypes ==
  ASSUME Types, NEW h \in Handlers, handler[h] # Nothing, NEW c, NEW things \in SUBSET Things,
         Become(h, c, things), Fine(c, nextUser, nextRole), UNCHANGED <<tables, boot, calls, history>>
  PROVE  Types'
<1>1. TablesFine' /\ AskedFine' /\ nextUser' = nextUser /\ nextRole' = nextRole
  BY DEF tables, history, Types, TablesFine, AskedFine
<1> QED
  BY <1>1, StepTypes, GivenIds DEF Types

(* What is asked of a user, or a role, old or new.                         *)
LEMMA AskUserFine ==
  ASSUME TablesFine, AskedFine, NEW i \in UserIds, NEW what \in UserAsks, Ask(User(i), what),
         nextRole' = nextRole, nextUser' = nextUser \/ (nextUser' = nextUser + 1 /\ i = nextUser),
         blurred' \in SUBSET Things
  PROVE  AskedFine'
<1>1. User(i) \in Things /\ \A j \in RoleIds : Role(j) \in Things /\ Role(j) # User(i)
  BY ThingFacts
<1>2. \A j \in UserIds : User(j) \in Things /\ (j = i \/ User(j) # User(i))
  BY ThingFacts
<1>3. \A j : Given(j, nextUser') => Given(j, nextUser) \/ j = i
  BY GivenIds DEF Given
<1> QED
  BY <1>1, <1>2, <1>3 DEF Ask, AskedFine

LEMMA AskRoleFine ==
  ASSUME TablesFine, AskedFine, NEW i \in RoleIds, NEW what \in RoleAsks, Ask(Role(i), what),
         nextUser' = nextUser, nextRole' = nextRole \/ (nextRole' = nextRole + 1 /\ i = nextRole),
         blurred' \in SUBSET Things
  PROVE  AskedFine'
<1>1. Role(i) \in Things /\ \A j \in UserIds : User(j) \in Things /\ User(j) # Role(i)
  BY ThingFacts
<1>2. \A j \in RoleIds : Role(j) \in Things /\ (j = i \/ Role(j) # Role(i))
  BY ThingFacts
<1>3. \A j : Given(j, nextRole') => Given(j, nextRole) \/ j = i
  BY GivenIds DEF Given
<1> QED
  BY <1>1, <1>2, <1>3 DEF Ask, AskedFine

(* Things mixed up are things.                                             *)
LEMMA BlurFine ==
  ASSUME Types, NEW h \in Handlers, NEW things \in SUBSET Things, Blur(h, things)
  PROVE  blurred' \in SUBSET Things /\ Mixed(h, things) \in SUBSET Things
BY DEF Blur, Mixed, Types, AskedFine

(* Where only the stage changes.                                           *)
LEMMA MovedFacts ==
  ASSUME NEW c, NEW nu, NEW nr, Shaped(c, nu, nr), ~ NewUser(c), ~ NewRole(c),
         NEW at \in {"roles", "bind", "rebind", "trim"}, NEW d, d = [c EXCEPT !.at = at], Staged(d),
         c.at # "read"
  PROVE  Shaped(d, nu, nr) /\ d.op = c.op /\ d.at = at /\ d.roles = c.roles /\ d.user = c.user
         /\ d.given = c.given /\ d.behind = c.behind
<1>1. d \in Calls /\ d.op = c.op /\ d.at = at /\ d.roles = c.roles /\ d.user = c.user
      /\ d.given = c.given /\ d.behind = c.behind
  BY DEF Shaped, Calls
<1> QED
  BY <1>1 DEF Shaped, NewUser, NewRole

LEMMA ReadUserTypes ==
  ASSUME Types, NEW h \in Handlers, ReadUser(h)
  PROVE  Types'
<1> DEFINE c == handler[h]
<1>1. PICK u \in users, n \in UserNames, active \in BOOLEAN, given \in BOOLEAN :
        Become(h, [c EXCEPT !.user = [u EXCEPT !.name = n, !.active = active],
                            !.roles = {Copy(r) : r \in RolesOf(u.id)}, !.given = given,
                            !.at = IF given THEN "pick" ELSE "row"], {})
  BY DEF ReadUser
<1> SUFFICES ASSUME NEW copies, copies = {Copy(r) : r \in RolesOf(u.id)},
                    NEW v, v = [u EXCEPT !.name = n, !.active = active],
                    NEW b, b = IF given THEN "pick" ELSE "row",
                    NEW d, d = [c EXCEPT !.user = v, !.roles = copies, !.given = given, !.at = b]
             PROVE  Types'
  OBVIOUS
<1>2. RolesOf(u.id) \in SUBSET roles
  BY DEF RolesOf
<1>3. copies \in SUBSET Copies /\ Apart(copies) /\ \A e \in copies : Given(e.row.id, nextRole)
  <2>1. \A e \in copies : \E r \in roles : e = Copy(r)
    BY <1>2
  <2> QED
    BY <2>1, CopyFacts
<1>4. v \in Users /\ Given(v.id, nextUser)
  BY DEF Types, TablesFine, Table, Users
<1>5. Shaped(c, nextUser, nextRole) /\ c \in Calls /\ c.op = "updateUser" /\ c # Nothing
  BY AtWork DEF ReadUser, At, Is
<1>6. Become(h, d, {})
  BY <1>1
<1>7. Shaped(d, nextUser, nextRole)
  <2>1. d \in Calls /\ d.op = "updateUser" /\ d.user = v /\ d.roles = copies /\ d.given = given /\ d.at = b
    BY <1>3, <1>4, <1>5 DEF Calls
  <2>2. d.at \in {"pick", "row"} /\ (d.at = "pick" => d.given)
    BY <2>1
  <2> HIDE DEF c
  <2> QED
    BY <1>3, <1>4, <2>1, <2>2 DEF Shaped, Staged, NewUser, NewRole, UserOps, RoleOps
<1> QED
  BY <1>5, <1>6, <1>7, HeldTypes DEF ReadUser, Fine

LEMMA PickRolesTypes ==
  ASSUME Types, NEW h \in Handlers, PickRoles(h)
  PROVE  Types'
<1>1. PICK picked \in SUBSET roles :
        Become(h, [handler[h] EXCEPT !.roles = {Copy(r) : r \in picked}, !.at = "row",
                                     !.behind = @ \cap {User(u) : u \in UserIds}], {})
  BY DEF PickRoles
<1> SUFFICES ASSUME NEW copies, copies = {Copy(r) : r \in picked},
                    NEW b, b = handler[h].behind \cap {User(u) : u \in UserIds},
                    NEW d, d = [handler[h] EXCEPT !.roles = copies, !.at = "row", !.behind = b]
             PROVE  Types'
  OBVIOUS
<1>2. copies \in SUBSET Copies /\ Apart(copies) /\ \A e \in copies : Given(e.row.id, nextRole)
  <2>1. \A e \in copies : \E r \in roles : e = Copy(r)
    OBVIOUS
  <2> QED
    BY <2>1, CopyFacts
<1>3. handler[h] # Nothing /\ Shaped(handler[h], nextUser, nextRole) /\ handler[h].at = "pick"
  BY AtWork DEF PickRoles, At
<1>4. Become(h, d, {})
  BY <1>1
<1>5. Shaped(d, nextUser, nextRole)
  <2> DEFINE c == handler[h]
  <2>1. c \in Calls /\ c.op \in UserOps
    BY <1>3 DEF Shaped, Staged, Calls, UserOps
  <2>2. b \in SUBSET Things
    BY <2>1 DEF Calls
  <2> HIDE DEF c
  <2>3. d = [c EXCEPT !.roles = copies, !.at = "row", !.behind = b]
    BY DEF c
  <2>4. d \in Calls /\ d.op = c.op /\ d.user = c.user /\ d.roles = copies /\ d.given = c.given
        /\ d.at = "row"
    BY <1>2, <2>1, <2>2, <2>3 DEF Calls
  <2> QED
    BY <1>2, <1>3, <2>1, <2>4 DEF Shaped, Staged, NewUser, NewRole, UserOps, RoleOps, c
<1> QED
  BY <1>3, <1>4, <1>5, HeldTypes DEF PickRoles, Fine

(* The row that SaveUser writes, and the call it leaves.                   *)
NewRow(c) == IF c.op = "createUser" THEN [c.user EXCEPT !.id = nextUser, !.active = TRUE]
             ELSE [c.user EXCEPT !.active = @ \/ c.user.id \notin Ids(users)]
LEMMA SaveUserFacts ==
  ASSUME Types, NEW h \in Handlers, SaveUser(h), NEW c, c = handler[h]
  PROVE  /\ Shaped(c, nextUser, nextRole) /\ c \in Calls /\ c.op \in {"createUser", "updateUser"}
         /\ c.at = "row" /\ c # Nothing
         /\ NewRow(c) \in Users /\ NewRow(c).id \in UserIds /\ Given(NewRow(c).id, nextUser')
         /\ ~ Clash(users, NewRow(c)) /\ users' = Upsert(users, NewRow(c))
         /\ Become(h, [c EXCEPT !.user.id = NewRow(c).id, !.at = "roles"], {User(NewRow(c).id)})
         /\ Blur(h, {User(NewRow(c).id)})
         /\ c.op = "createUser" => /\ nextUser' = nextUser + 1 /\ NewRow(c).id = nextUser
                                   /\ Ask(User(nextUser), [active |-> c.user.active, new |-> TRUE, roles |-> {}])
         /\ c.op = "updateUser" => nextUser' = nextUser /\ asked' = asked /\ NewRow(c).id = c.user.id
         /\ UNCHANGED <<roles, nextRole, userRoles, roleKeys, boot, calls>>
<1>1. Shaped(c, nextUser, nextRole) /\ c \in Calls /\ c.op \in {"createUser", "updateUser"}
      /\ c.at = "row" /\ c # Nothing
  BY AtWork DEF SaveUser, At, Is
<1>2. /\ NewRow(c).id <= MaxUsers /\ ~ Clash(users, NewRow(c)) /\ users' = Upsert(users, NewRow(c))
      /\ Become(h, [c EXCEPT !.user.id = NewRow(c).id, !.at = "roles"], {User(NewRow(c).id)})
      /\ Blur(h, {User(NewRow(c).id)})
  BY DEF SaveUser, NewRow
<1>3. \/ /\ c.op = "createUser" /\ nextUser' = nextUser + 1
         /\ Ask(User(nextUser), [active |-> c.user.active, new |-> TRUE, roles |-> {}])
      \/ c.op = "updateUser" /\ UNCHANGED <<nextUser, asked>>
  BY DEF SaveUser
<1>4. c.user \in Users
  BY <1>1 DEF Shaped, UserOps
<1>5. CASE c.op = "createUser"
  <2>1. NewRow(c).id = nextUser /\ nextUser \in UserIds /\ Given(nextUser, nextUser + 1) /\ nextUser \in 0..MaxUsers
    <3>1. NewRow(c).id = nextUser
      BY <1>4, <1>5 DEF NewRow, Users
    <3> QED
      BY <1>2, <3>1, GivenIds, GivenFacts, BoundsAssumption DEF UserIds, Types
  <2>2. NewRow(c) \in Users
    BY <1>4, <1>5, <2>1 DEF NewRow, Users
  <2> QED
    BY <1>1, <1>2, <1>3, <1>5, <2>1, <2>2 DEF SaveUser
<1>6. CASE c.op = "updateUser"
  <2>1. NewRow(c).id = c.user.id /\ NewRow(c) \in Users
    BY <1>4, <1>6 DEF NewRow, Users
  <2>2. Given(c.user.id, nextUser) /\ c.user.id \in UserIds
    BY <1>1, <1>6, GivenIds DEF Shaped, UserOps, NewUser, Types
  <2> QED
    BY <1>1, <1>2, <1>3, <1>6, <2>1, <2>2 DEF SaveUser
<1> QED
  BY <1>1, <1>5, <1>6

LEMMA SaveUserTypes ==
  ASSUME Types, NEW h \in Handlers, SaveUser(h)
  PROVE  Types'
<1> SUFFICES ASSUME NEW c, c = handler[h], NEW new, new = NewRow(c),
                    NEW d, d = [c EXCEPT !.user.id = new.id, !.at = "roles"]
             PROVE  Types'
  OBVIOUS
<1>1. /\ Shaped(c, nextUser, nextRole) /\ c \in Calls /\ c.op \in {"createUser", "updateUser"} /\ c.at = "row"
      /\ c # Nothing /\ new \in Users /\ new.id \in UserIds /\ Given(new.id, nextUser')
      /\ ~ Clash(users, new) /\ users' = Upsert(users, new)
      /\ Become(h, d, {User(new.id)}) /\ Blur(h, {User(new.id)})
      /\ c.op = "createUser" => /\ nextUser' = nextUser + 1 /\ new.id = nextUser
                                /\ Ask(User(nextUser), [active |-> c.user.active, new |-> TRUE, roles |-> {}])
      /\ c.op = "updateUser" => nextUser' = nextUser /\ asked' = asked /\ new.id = c.user.id
      /\ UNCHANGED <<roles, nextRole, userRoles, roleKeys, boot, calls>>
  BY SaveUserFacts
<1>2. User(new.id) \in Things /\ {User(new.id)} \in SUBSET Things
  BY <1>1, ThingFacts
<1>3. nextUser <= nextUser' /\ nextRole <= nextRole' /\ nextUser' \in 1..(MaxUsers + 1)
  BY <1>1, GivenIds, BoundsAssumption DEF UserIds, Types, TablesFine
<1>4. Table(users, nextUser')
  BY <1>1, GivenIds, GrownTable DEF Types, TablesFine
<1>5. TablesFine'
  <2>1. Table(users', nextUser') /\ users' \in SUBSET Users
    BY <1>1, <1>4, UpsertTable DEF Upsert, Types, TablesFine
  <2>2. \A i : Given(i, nextUser) => Given(i, nextUser')
    BY <1>3, GivenIds DEF Given, Types
  <2> QED
    BY <1>1, <1>3, <2>1, <2>2 DEF Types, TablesFine
<1>6. AskedFine'
  <2>1. blurred' \in SUBSET Things
    BY <1>1, <1>2, BlurFine
  <2>2. CASE c.op = "createUser"
    <3>1. [active |-> c.user.active, new |-> TRUE, roles |-> {}] \in UserAsks
      BY <1>1, <2>2 DEF Shaped, UserOps, Users, UserAsks
    <3> QED
      BY <1>1, <2>1, <2>2, <3>1, AskUserFine DEF Types
  <2>3. CASE c.op = "updateUser"
    BY <1>1, <2>1, <2>3 DEF Types, AskedFine
  <2> QED
    BY <1>1, <2>2, <2>3
<1>7. Shaped(d, nextUser', nextRole')
  <2>1. c.user \in Users /\ [c.user EXCEPT !.id = new.id] \in Users
    BY <1>1 DEF Shaped, UserOps, Users
  <2>2. d \in Calls /\ d.op = c.op /\ d.user \in Users /\ d.user.id = new.id /\ d.roles = c.roles
        /\ d.given = c.given /\ d.at = "roles"
    BY <1>1, <2>1 DEF Calls, Users
  <2> QED
    BY <1>1, <2>2 DEF Shaped, Staged, NewUser, NewRole, UserOps, RoleOps
<1> QED
  BY <1>1, <1>2, <1>3, <1>5, <1>6, <1>7, StepTypes DEF Fine, Types

(* The keys, and the joins, that copies bring along.                       *)
LEMMA WithFine ==
  ASSUME Types, NEW c, Shaped(c, nextUser, nextRole), ~ NewRole(c)
  PROVE  /\ \A k \in KeysWith(c.roles) : k \in RoleIds \X Keys /\ Given(k[1], nextRole)
         /\ Given(c.user.id, nextUser) =>
              \A j \in RolesWith(c.user.id, c.roles) : j \in UserIds \X RoleIds /\ Given(j[1], nextUser)
         /\ \A d \in c.roles : d.row.id \in RoleIds /\ Role(d.row.id) \in Things
<1>1. \A d \in c.roles : d \in Copies /\ d.row.id \in RoleIds /\ Given(d.row.id, nextRole)
                         /\ d.keys \in SUBSET Keys /\ Role(d.row.id) \in Things
  BY GivenIds, ThingFacts DEF Shaped, Calls, Copies, Types
<1>2. ASSUME NEW k \in KeysWith(c.roles)
      PROVE  k \in RoleIds \X Keys /\ Given(k[1], nextRole)
  <2>1. CASE k \in roleKeys
    BY <2>1 DEF Types, TablesFine
  <2>2. CASE \E d \in c.roles : k \in {d.row.id} \X d.keys
    BY <1>1, <2>2
  <2> QED
    BY <2>1, <2>2 DEF KeysWith
<1>3. ASSUME Given(c.user.id, nextUser), NEW j \in RolesWith(c.user.id, c.roles)
      PROVE  j \in UserIds \X RoleIds /\ Given(j[1], nextUser)
  <2>1. c.user.id \in UserIds
    BY <1>3, GivenIds DEF Types
  <2> QED
    BY <1>1, <1>3, <2>1 DEF RolesWith, Types, TablesFine
<1> QED
  BY <1>1, <1>2, <1>3

(* The rows of copies, the roles they are of, and the rows of other roles. *)
RowsOf(copies)  == {d.row : d \in copies}
HeldBy(copies)  == {Role(i) : i \in Ids(RowsOf(copies))}
RestFrom(copies) == {r \in roles : r.id \notin Ids(RowsOf(copies))}

LEMMA HeldFacts ==
  ASSUME NEW copies
  PROVE  /\ \A t : t \in HeldBy(copies) <=> \E d \in copies : t = Role(d.row.id)
         /\ \A r \in RestFrom(copies) : r \in roles /\ \A d \in copies : d.row.id # r.id
         /\ \A r \in roles : r \in RestFrom(copies) \/ \E d \in copies : d.row.id = r.id
BY DEF HeldBy, RestFrom, RowsOf, Ids

LEMMA MergedTable ==
  ASSUME TablesFine, NEW copies \in SUBSET Copies, Apart(copies),
         \A d \in copies : Given(d.row.id, nextRole) /\ ~ Clash(RestFrom(copies), d.row)
  PROVE  RestFrom(copies) \cup RowsOf(copies) \in SUBSET Roles
         /\ Table(RestFrom(copies) \cup RowsOf(copies), nextRole)
<1> SUFFICES ASSUME NEW rows, rows = RowsOf(copies), NEW others, others = RestFrom(copies)
             PROVE  others \cup rows \in SUBSET Roles /\ Table(others \cup rows, nextRole)
  OBVIOUS
<1>1. rows \in SUBSET Roles /\ \A x \in rows : Given(x.id, nextRole) /\ \E d \in copies : x = d.row
  BY DEF Copies, RowsOf
<1>2. \A x, y \in rows : x.id = y.id \/ x.name = y.name => x = y
  BY <1>1 DEF Apart
<1>3. others \subseteq roles /\ \A x \in others, y \in rows : x.id # y.id /\ x.name # y.name
  BY <1>1, HeldFacts DEF Clash
<1> QED
  BY <1>1, <1>2, <1>3 DEF Table, TablesFine

LEMMA SaveRolesFacts ==
  ASSUME Types, NEW h \in Handlers, SaveRoles(h), NEW c, c = handler[h],
         NEW written, written = HeldBy(c.roles)
  PROVE  /\ Shaped(c, nextUser, nextRole) /\ c \in Calls /\ c.op \in UserOps /\ c.at = "roles"
         /\ c # Nothing
         /\ \/ /\ c.op = "updateUser" /\ roles' = RestFrom(c.roles) \cup RowsOf(c.roles)
               /\ \A d \in c.roles : ~ Clash(RestFrom(c.roles), d.row)
            \/ c.op # "updateUser" /\ roles' = InsertMissing(c.roles)
         /\ roleKeys' = KeysWith(c.roles) /\ Blur(h, written)
         /\ Become(h, [c EXCEPT !.at = "bind"], Mixed(h, written))
         /\ UNCHANGED <<users, nextUser, nextRole, userRoles, boot, calls, asked>>
         /\ written \in SUBSET Things /\ Mixed(h, written) \in SUBSET Things
<1>1. Shaped(c, nextUser, nextRole) /\ c \in Calls /\ c.op \in UserOps /\ c.at = "roles" /\ c # Nothing
  <2>1. Shaped(c, nextUser, nextRole) /\ c \in Calls /\ c.at = "roles" /\ c # Nothing
    BY AtWork DEF SaveRoles, At
  <2> QED
    BY <2>1 DEF Shaped, Staged, UserOps, Calls
<1>2. written \in SUBSET Things
  BY <1>1, WithFine, HeldFacts DEF NewRole
<1>3. Mixed(h, written) \in SUBSET Things
  BY <1>2 DEF Mixed
<1> QED
  BY <1>1, <1>2, <1>3 DEF SaveRoles, HeldBy, RestFrom, RowsOf

LEMMA SaveRolesTypes ==
  ASSUME Types, NEW h \in Handlers, SaveRoles(h)
  PROVE  Types'
<1> SUFFICES ASSUME NEW c, c = handler[h], NEW d, d = [c EXCEPT !.at = "bind"],
                    NEW written, written = HeldBy(c.roles)
             PROVE  Types'
  OBVIOUS
<1>1. /\ Shaped(c, nextUser, nextRole) /\ c \in Calls /\ c.op \in UserOps /\ c.at = "roles" /\ c # Nothing
      /\ \/ /\ c.op = "updateUser" /\ roles' = RestFrom(c.roles) \cup RowsOf(c.roles)
            /\ \A e \in c.roles : ~ Clash(RestFrom(c.roles), e.row)
         \/ c.op # "updateUser" /\ roles' = InsertMissing(c.roles)
      /\ roleKeys' = KeysWith(c.roles) /\ Blur(h, written) /\ Become(h, d, Mixed(h, written))
      /\ UNCHANGED <<users, nextUser, nextRole, userRoles, boot, calls, asked>>
      /\ written \in SUBSET Things /\ Mixed(h, written) \in SUBSET Things
  BY SaveRolesFacts
<1>2. ~ NewUser(c) /\ ~ NewRole(c) /\ c.roles \in SUBSET Copies /\ Apart(c.roles)
      /\ \A e \in c.roles : Given(e.row.id, nextRole)
  BY <1>1 DEF NewUser, NewRole, Shaped, Calls
<1>3. roles' \in SUBSET Roles /\ Table(roles', nextRole)
  BY <1>1, <1>2, MergedTable, MissingTable DEF Types
<1>4. TablesFine'
  BY <1>1, <1>2, <1>3, WithFine DEF Types, TablesFine
<1>5. AskedFine'
  BY <1>1, BlurFine DEF Types, AskedFine
<1>6. Shaped(d, nextUser', nextRole')
  <2>1. Staged(d)
    BY <1>1 DEF Staged, Shaped, Calls, UserOps
  <2> QED
    BY <1>1, <1>2, <2>1, MovedFacts
<1>7. nextUser <= nextUser' /\ nextRole <= nextRole'
  BY <1>1, GivenIds DEF Types
<1> QED
  BY <1>1, <1>4, <1>5, <1>6, <1>7, StepTypes DEF Fine, Types

(* Of the calls that are a user's, what the later stages have.             *)
LEMMA UserWork ==
  ASSUME Types, NEW h \in Handlers, handler[h] # Nothing, NEW c, c = handler[h],
         c.op \in UserOps, c.at \in {"roles", "bind", "rebind", "trim"}
  PROVE  /\ Shaped(c, nextUser, nextRole) /\ c \in Calls /\ ~ NewUser(c) /\ ~ NewRole(c)
         /\ c.user \in Users /\ Given(c.user.id, nextUser) /\ c.user.id \in UserIds
         /\ User(c.user.id) \in Things /\ asked[User(c.user.id)] \in UserAsks
         /\ \A d \in c.roles : /\ d \in Copies /\ Given(d.row.id, nextRole)
                               /\ d.row.id \in RoleIds /\ Role(d.row.id) \in Things
         /\ c.roles \in SUBSET Copies /\ Apart(c.roles)
         /\ {d.row.id : d \in c.roles} \in SUBSET RoleIds /\ c.user.active \in BOOLEAN
<1>1. Shaped(c, nextUser, nextRole) /\ c \in Calls
  BY AtWork
<1>2. ~ NewUser(c) /\ ~ NewRole(c) /\ c.roles \in SUBSET Copies /\ Apart(c.roles)
      /\ c.user \in Users /\ Given(c.user.id, nextUser)
      /\ \A d \in c.roles : d \in Copies /\ Given(d.row.id, nextRole)
  BY <1>1 DEF NewUser, NewRole, UserOps, Shaped, Calls
<1>3. \A d \in c.roles : d.row.id \in RoleIds /\ Role(d.row.id) \in Things
  BY <1>2, GivenIds, ThingFacts DEF Types
<1>4. c.user.id \in UserIds /\ User(c.user.id) \in Things /\ c.user.active \in BOOLEAN
  BY <1>2, GivenIds, ThingFacts DEF Types, Users
<1> QED
  BY <1>1, <1>2, <1>3, <1>4 DEF Types, AskedFine

LEMMA BindUserTypes ==
  ASSUME Types, NEW h \in Handlers, BindUser(h)
  PROVE  Types'
<1> SUFFICES ASSUME NEW c, c = handler[h], NEW thing, thing = User(c.user.id),
                    NEW d, d = IF c.given THEN [c EXCEPT !.at = "rebind"] ELSE Nothing,
                    NEW things, things = IF c.op = "login" THEN Mixed(h, {thing}) ELSE {thing},
                    NEW what, what = [active |-> c.user.active, new |-> c.op = "createUser",
                                      roles  |-> IF c.op = "createUser" THEN {e.row.id : e \in c.roles}
                                                 ELSE asked[thing].roles]
             PROVE  Types'
  OBVIOUS
<1>1. /\ c # Nothing /\ c.op \in UserOps /\ c.at = "bind"
      /\ userRoles' = RolesWith(c.user.id, c.roles) /\ Blur(h, {thing}) /\ Become(h, d, things)
      /\ IF c.given \/ c.op = "login" THEN UNCHANGED asked ELSE Ask(thing, what)
      /\ UNCHANGED <<users, nextUser, roles, nextRole, roleKeys, boot, calls>>
  BY DEF BindUser, At, Is, UserOps
<1>2. /\ Shaped(c, nextUser, nextRole) /\ c \in Calls /\ ~ NewUser(c) /\ ~ NewRole(c)
      /\ Given(c.user.id, nextUser) /\ c.user.id \in UserIds /\ thing \in Things
      /\ asked[thing] \in UserAsks /\ {e.row.id : e \in c.roles} \in SUBSET RoleIds
      /\ c.user.active \in BOOLEAN
  BY <1>1, UserWork
<1>3. TablesFine'
  BY <1>1, <1>2, WithFine DEF Types, TablesFine
<1>4. blurred' \in SUBSET Things /\ things \in SUBSET Things
  BY <1>1, <1>2, BlurFine
<1>5. AskedFine'
  <2>1. what \in UserAsks
    BY <1>2 DEF UserAsks
  <2>2. CASE c.given \/ c.op = "login"
    BY <1>1, <1>4, <2>2 DEF Types, AskedFine
  <2>3. CASE ~ (c.given \/ c.op = "login")
    BY <1>1, <1>2, <1>4, <2>1, <2>3, AskUserFine DEF Types
  <2> QED
    BY <2>2, <2>3
<1>6. Fine(d, nextUser', nextRole')
  <2>1. CASE c.given
    <3>1. d = [c EXCEPT !.at = "rebind"]
      BY <2>1
    <3>2. c.op = "updateUser"
      BY <1>1, <1>2, <2>1 DEF Shaped, Staged, UserOps
    <3>3. Staged(d)
      BY <1>2, <2>1, <3>1, <3>2 DEF Staged, Calls
    <3> QED
      BY <1>1, <1>2, <3>1, <3>3, MovedFacts DEF Fine
  <2>2. CASE ~ c.given
    BY <2>2 DEF Fine
  <2> QED
    BY <2>1, <2>2
<1>7. nextUser <= nextUser' /\ nextRole <= nextRole'
  BY <1>1, GivenIds DEF Types
<1> QED
  BY <1>1, <1>3, <1>4, <1>5, <1>6, <1>7, StepTypes DEF Types

LEMMA RebindUserTypes ==
  ASSUME Types, NEW h \in Handlers, RebindUser(h)
  PROVE  Types'
<1> SUFFICES ASSUME NEW c, c = handler[h], NEW d, d = [c EXCEPT !.at = "trim"],
                    NEW written, written = {User(c.user.id)} \cup {Role(e.row.id) : e \in c.roles},
                    NEW things, things = {User(c.user.id)} \cup Mixed(h, written)
             PROVE  Types'
  OBVIOUS
<1>1. /\ c # Nothing /\ c.op = "updateUser" /\ c.op \in UserOps /\ c.at = "rebind"
      /\ roles' = InsertMissing(c.roles) /\ userRoles' = RolesWith(c.user.id, c.roles)
      /\ Blur(h, written) /\ Become(h, d, things)
      /\ UNCHANGED <<users, nextUser, nextRole, roleKeys, boot, calls, asked>>
  BY DEF RebindUser, At, Is, UserOps
<1>2. /\ Shaped(c, nextUser, nextRole) /\ c \in Calls /\ ~ NewUser(c) /\ ~ NewRole(c)
      /\ Given(c.user.id, nextUser) /\ User(c.user.id) \in Things
      /\ \A e \in c.roles : Given(e.row.id, nextRole) /\ Role(e.row.id) \in Things
      /\ c.roles \in SUBSET Copies /\ Apart(c.roles)
  BY <1>1, UserWork
<1>3. written \in SUBSET Things
  BY <1>2
<1>4. blurred' \in SUBSET Things /\ things \in SUBSET Things
  BY <1>1, <1>2, <1>3, BlurFine
<1>5. TablesFine'
  BY <1>1, <1>2, WithFine, MissingTable DEF Types, TablesFine
<1>6. AskedFine'
  BY <1>1, <1>4 DEF Types, AskedFine
<1>7. Shaped(d, nextUser', nextRole')
  <2>1. Staged(d)
    BY <1>1, <1>2 DEF Staged, Shaped, Calls
  <2> QED
    BY <1>1, <1>2, <2>1, MovedFacts
<1>8. nextUser <= nextUser' /\ nextRole <= nextRole'
  BY <1>1, GivenIds DEF Types
<1> QED
  BY <1>1, <1>4, <1>5, <1>6, <1>7, <1>8, StepTypes DEF Fine, Types

LEMMA TrimUserTypes ==
  ASSUME Types, NEW h \in Handlers, TrimUser(h)
  PROVE  Types'
<1> SUFFICES ASSUME NEW c, c = handler[h], NEW thing, thing = User(c.user.id),
                    NEW ids, ids = {e.row.id : e \in c.roles},
                    NEW what, what = [active |-> c.user.active, new |-> FALSE, roles |-> ids]
             PROVE  Types'
  OBVIOUS
<1>1. /\ c # Nothing /\ c.op \in UserOps /\ c.at = "trim"
      /\ userRoles' = {j \in userRoles : j[1] = c.user.id => j[2] \in ids}
      /\ Become(h, Nothing, {thing}) /\ Settle(h, thing) /\ Ask(thing, what)
      /\ UNCHANGED <<users, nextUser, roles, nextRole, roleKeys, boot, calls>>
  BY DEF TrimUser, At, Is, UserOps
<1>2. /\ c.user.id \in UserIds /\ thing \in Things /\ ids \in SUBSET RoleIds /\ c.user.active \in BOOLEAN
  BY <1>1, UserWork
<1>3. TablesFine'
  BY <1>1 DEF Types, TablesFine
<1>4. AskedFine'
  <2>1. blurred' \in SUBSET Things
    BY <1>1, <1>2 DEF Settle, Types, AskedFine
  <2>2. what \in UserAsks
    BY <1>2 DEF UserAsks
  <2> QED
    BY <1>1, <1>2, <2>1, <2>2, AskUserFine DEF Types
<1>5. nextUser <= nextUser' /\ nextRole <= nextRole'
  BY <1>1, GivenIds DEF Types
<1> QED
  BY <1>1, <1>2, <1>3, <1>4, <1>5, StepTypes DEF Fine, Types

LEMMA DeleteUserTypes ==
  ASSUME Types, NEW h \in Handlers, DeleteUser(h)
  PROVE  Types'
<1> SUFFICES ASSUME NEW c, c = handler[h]
             PROVE  Types'
  OBVIOUS
<1>1. /\ c # Nothing /\ c.op = "deleteUser" /\ c.at = "delete"
      /\ users' = Without(users, c.user.id) /\ Become(h, Nothing, {User(c.user.id)})
      /\ UNCHANGED <<nextUser, roles, nextRole, userRoles, roleKeys, boot, calls, history>>
  BY DEF DeleteUser, At, Is
<1>2. User(c.user.id) \in Things
  BY <1>1, AtWork, GivenIds, ThingFacts DEF Shaped, NewUser, Types
<1>3. TablesFine'
  <2>1. users' \in SUBSET Users /\ Table(users', nextUser)
    BY <1>1, WithoutTable DEF Without, Types, TablesFine
  <2> QED
    BY <1>1, <2>1 DEF Types, TablesFine
<1>4. AskedFine' /\ nextUser <= nextUser' /\ nextRole <= nextRole'
  BY <1>1, GivenIds DEF history, Types, AskedFine
<1> QED
  BY <1>1, <1>2, <1>3, <1>4, StepTypes DEF Fine, Types

(* The roles.                                                              *)
LEMMA ReadRoleTypes ==
  ASSUME Types, NEW h \in Handlers, ReadRole(h)
  PROVE  Types'
<1> SUFFICES ASSUME NEW c, c = handler[h]
             PROVE  Types'
  OBVIOUS
<1>1. /\ c # Nothing /\ c.at = "read" /\ UNCHANGED <<tables, boot, calls, history>>
      /\ Shaped(c, nextUser, nextRole) /\ c \in Calls /\ c.user = Nothing
  BY AtWork DEF ReadRole, At, Shaped
<1>2. PICK r \in roles :
        \/ /\ Is(h, {"deleteRole"}) /\ ~ r.builtIn
           /\ Become(h, [c EXCEPT !.roles = {Copy(r)}, !.at = "delete"], {})
        \/ /\ Is(h, {"updateRole"})
           /\ \E n \in RoleNames, given \in BOOLEAN, keys \in SUBSET Keys :
                Become(h, [c EXCEPT !.roles = {[row |-> [r EXCEPT !.name = n], keys |-> keys]},
                                    !.given = given, !.at = "row"], {})
  BY DEF ReadRole
<1>3. r \in Roles /\ Given(r.id, nextRole)
  BY DEF Types, TablesFine, Table
<1>4. CASE Is(h, {"deleteRole"}) /\ ~ r.builtIn
           /\ Become(h, [c EXCEPT !.roles = {Copy(r)}, !.at = "delete"], {})
  <2> SUFFICES ASSUME NEW e, e = Copy(r), NEW d, d = [c EXCEPT !.roles = {e}, !.at = "delete"]
               PROVE  Types'
    OBVIOUS
  <2>1. e \in Copies /\ Given(e.row.id, nextRole) /\ ~ e.row.builtIn
    <3>1. KeysOf(r.id) \in SUBSET Keys
      BY DEF KeysOf
    <3> QED
      BY <1>3, <1>4, <3>1 DEF Copy, Copies
  <2>2. d \in Calls /\ d.op = "deleteRole" /\ d.user = Nothing /\ d.roles = {e} /\ d.at = "delete"
    BY <1>1, <1>4, <2>1 DEF Calls, Is
  <2>3. Shaped(d, nextUser, nextRole)
    BY <2>1, <2>2 DEF Shaped, Staged, NewUser, NewRole, UserOps, RoleOps, Single
  <2> QED
    BY <1>1, <1>4, <2>3, HeldTypes DEF Fine
<1>5. ASSUME Is(h, {"updateRole"}), NEW n \in RoleNames, NEW given \in BOOLEAN, NEW keys \in SUBSET Keys,
             Become(h, [c EXCEPT !.roles = {[row |-> [r EXCEPT !.name = n], keys |-> keys]},
                                 !.given = given, !.at = "row"], {})
      PROVE  Types'
  <2> SUFFICES ASSUME NEW e, e = [row |-> [r EXCEPT !.name = n], keys |-> keys],
                      NEW d, d = [c EXCEPT !.roles = {e}, !.given = given, !.at = "row"]
               PROVE  Types'
    OBVIOUS
  <2>1. e \in Copies /\ Given(e.row.id, nextRole)
    BY <1>3 DEF Copies, Roles
  <2>2. d \in Calls /\ d.op = "updateRole" /\ d.user = Nothing /\ d.roles = {e} /\ d.at = "row"
    BY <1>1, <1>5, <2>1 DEF Calls, Is
  <2>3. Shaped(d, nextUser, nextRole)
    BY <2>1, <2>2 DEF Shaped, Staged, NewUser, NewRole, UserOps, RoleOps, Single
  <2> QED
    BY <1>1, <1>5, <2>3, HeldTypes DEF Fine
<1> QED
  BY <1>2, <1>4, <1>5

(* Of the calls that are a role's, what they have.                         *)
LEMMA RoleWork ==
  ASSUME Types, NEW h \in Handlers, handler[h] # Nothing, NEW c, c = handler[h],
         c.op \in RoleOps, c.at \in {"row", "bind", "rebind", "trim"}, NEW d \in c.roles
  PROVE  /\ Shaped(c, nextUser, nextRole) /\ c \in Calls /\ c.user = Nothing
         /\ c.roles = {d} /\ d \in Copies /\ d.row \in Roles /\ d.keys \in SUBSET Keys
         /\ d.row.name \in RoleNames
         /\ IF NewRole(c) THEN d.row.id = 0
            ELSE /\ Given(d.row.id, nextRole) /\ d.row.id \in RoleIds /\ Role(d.row.id) \in Things
                 /\ asked[Role(d.row.id)] \in RoleAsks
<1>1. Shaped(c, nextUser, nextRole) /\ c \in Calls
  BY AtWork
<1>2. Single(c.roles) /\ c.user = Nothing
      /\ IF NewRole(c) THEN d.row.id = 0 ELSE Given(d.row.id, nextRole)
  BY <1>1 DEF Shaped, RoleOps
<1>3. c.roles = {d} /\ d \in Copies
  BY <1>2 DEF Single
<1>4. d.row \in Roles /\ d.keys \in SUBSET Keys /\ d.row.name \in RoleNames
  BY <1>3 DEF Copies, Roles
<1>5. ~ NewRole(c) => d.row.id \in RoleIds /\ Role(d.row.id) \in Things /\ asked[Role(d.row.id)] \in RoleAsks
  BY <1>2, GivenIds, ThingFacts DEF Types, AskedFine
<1> QED
  BY <1>1, <1>2, <1>3, <1>4, <1>5

LEMMA CreateRoleFacts ==
  ASSUME Types, NEW h \in Handlers, CreateRole(h), NEW c, c = handler[h]
  PROVE  \E d \in c.roles, e \in Copies :
           /\ e = [d EXCEPT !.row.id = nextRole]
           /\ e.row.id = nextRole /\ e.keys = d.keys /\ e.row.name = d.row.name
           /\ e.row \in Roles /\ c.roles = {d}
           /\ nextRole \in RoleIds /\ ~ Clash(roles, e.row) /\ roles' = roles \cup {e.row}
           /\ Become(h, [c EXCEPT !.roles = {e}, !.at = "bind"], {Role(nextRole)})
           /\ Ask(Role(nextRole), [name |-> d.row.name, keys |-> {}]) /\ d.row.name \in RoleNames
           /\ nextRole' = nextRole + 1 /\ nextRole \in Nat
           /\ c # Nothing /\ c.op = "createRole" /\ c.at = "row" /\ c \in Calls
           /\ Shaped(c, nextUser, nextRole)
           /\ UNCHANGED <<users, nextUser, userRoles, roleKeys, boot, calls, blurred>>
<1>1. c # Nothing /\ c.op = "createRole" /\ c.at = "row"
  BY DEF CreateRole, At, Is
<1>2. PICK d \in c.roles :
        LET new == [d EXCEPT !.row.id = nextRole] IN
        /\ nextRole <= MaxRoles /\ ~ Clash(roles, new.row) /\ roles' = roles \cup {new.row}
        /\ Become(h, [c EXCEPT !.roles = {new}, !.at = "bind"], {Role(nextRole)})
        /\ Ask(Role(nextRole), [name |-> d.row.name, keys |-> {}])
  BY DEF CreateRole
<1>3. d \in Copies /\ d.row \in Roles /\ d.row.name \in RoleNames /\ c.roles = {d}
      /\ Shaped(c, nextUser, nextRole) /\ c \in Calls
  BY <1>1, RoleWork DEF RoleOps
<1>4. nextRole \in RoleIds /\ nextRole \in 0..MaxRoles /\ nextRole \in Nat
  BY <1>2, GivenIds, BoundsAssumption DEF RoleIds, Types
<1>5. PICK e : e = [d EXCEPT !.row.id = nextRole]
  OBVIOUS
<1>6. e \in Copies /\ e.row.id = nextRole /\ e.keys = d.keys /\ e.row.name = d.row.name /\ e.row \in Roles
  BY <1>3, <1>4, <1>5 DEF Copies, Roles
<1> QED
  BY <1>1, <1>2, <1>3, <1>4, <1>5, <1>6 DEF CreateRole

LEMMA CreateRoleTypes ==
  ASSUME Types, NEW h \in Handlers, CreateRole(h)
  PROVE  Types'
<1> SUFFICES ASSUME NEW c, c = handler[h]
             PROVE  Types'
  OBVIOUS
<1>1. PICK d \in c.roles, e \in Copies :
           /\ e.row.id = nextRole /\ e.row \in Roles
           /\ nextRole \in RoleIds /\ ~ Clash(roles, e.row) /\ roles' = roles \cup {e.row}
           /\ Become(h, [c EXCEPT !.roles = {e}, !.at = "bind"], {Role(nextRole)})
           /\ Ask(Role(nextRole), [name |-> d.row.name, keys |-> {}]) /\ d.row.name \in RoleNames
           /\ nextRole' = nextRole + 1 /\ nextRole \in Nat
           /\ c # Nothing /\ c.op = "createRole" /\ c.at = "row" /\ c \in Calls
           /\ Shaped(c, nextUser, nextRole)
           /\ UNCHANGED <<users, nextUser, userRoles, roleKeys, boot, calls, blurred>>
  BY CreateRoleFacts
<1> SUFFICES ASSUME NEW f, f = [c EXCEPT !.roles = {e}, !.at = "bind"],
                    NEW what, what = [name |-> d.row.name, keys |-> {}]
             PROVE  Types'
  OBVIOUS
<1>2. nextRole <= nextRole' /\ nextRole' \in 1..(MaxRoles + 1) /\ nextUser <= nextUser'
  BY <1>1, GivenIds, BoundsAssumption DEF RoleIds, Types
<1>3. TablesFine'
  <2>1. roles' \in SUBSET Roles /\ Table(roles', nextRole')
    BY <1>1, InsertTable, GivenIds DEF Types, TablesFine
  <2>2. \A i : Given(i, nextRole) => Given(i, nextRole')
    BY <1>1, GivenFacts
  <2> QED
    BY <1>1, <1>2, <2>1, <2>2 DEF Types, TablesFine
<1>4. AskedFine'
  <2>1. what \in RoleAsks
    BY <1>1 DEF RoleAsks
  <2> QED
    BY <1>1, <2>1, AskRoleFine DEF Types, AskedFine
<1>5. Shaped(f, nextUser', nextRole')
  <2>1. f \in Calls /\ f.op = "createRole" /\ f.at = "bind" /\ f.roles = {e} /\ f.user = c.user /\ f.given = c.given
    BY <1>1 DEF Calls
  <2>2. Given(nextRole, nextRole')
    BY <1>1, GivenIds, GivenFacts DEF Types
  <2> QED
    BY <1>1, <2>1, <2>2 DEF Shaped, Staged, NewUser, NewRole, UserOps, RoleOps, Single
<1>6. {Role(nextRole)} \in SUBSET Things
  BY <1>1, ThingFacts
<1> QED
  BY <1>1, <1>2, <1>3, <1>4, <1>5, <1>6, StepTypes DEF Fine, Types

LEMMA SaveRoleTypes ==
  ASSUME Types, NEW h \in Handlers, SaveRole(h)
  PROVE  Types'
<1> SUFFICES ASSUME NEW c, c = handler[h], NEW f, f = [c EXCEPT !.at = "bind"]
             PROVE  Types'
  OBVIOUS
<1>1. c # Nothing /\ c.op = "updateRole" /\ c.at = "row"
  BY DEF SaveRole, At, Is
<1>2. PICK d \in c.roles :
        /\ ~ Clash(roles, d.row) /\ roles' = Upsert(roles, d.row)
        /\ Become(h, f, {Role(d.row.id)}) /\ Blur(h, {Role(d.row.id)})
  BY DEF SaveRole
<1>3. /\ Shaped(c, nextUser, nextRole) /\ c \in Calls /\ d.row \in Roles
      /\ Given(d.row.id, nextRole) /\ Role(d.row.id) \in Things /\ ~ NewRole(c)
  BY <1>1, RoleWork DEF RoleOps, NewRole
<1>4. UNCHANGED <<users, nextUser, nextRole, userRoles, roleKeys, boot, calls, asked>>
  BY DEF SaveRole
<1>5. TablesFine'
  <2>1. roles' \in SUBSET Roles /\ Table(roles', nextRole)
    BY <1>2, <1>3, UpsertTable DEF Upsert, Types, TablesFine
  <2> QED
    BY <1>4, <2>1 DEF Types, TablesFine
<1>6. AskedFine'
  BY <1>2, <1>3, <1>4, BlurFine DEF Types, AskedFine
<1>7. Shaped(f, nextUser', nextRole')
  <2>1. Staged(f)
    BY <1>1, <1>3 DEF Staged, Shaped, Calls
  <2> QED
    BY <1>1, <1>3, <1>4, <2>1, MovedFacts DEF NewUser
<1>8. nextUser <= nextUser' /\ nextRole <= nextRole'
  BY <1>4, GivenIds DEF Types
<1> QED
  BY <1>1, <1>2, <1>3, <1>4, <1>5, <1>6, <1>7, <1>8, StepTypes DEF Fine, Types

LEMMA BindRoleTypes ==
  ASSUME Types, NEW h \in Handlers, BindRole(h)
  PROVE  Types'
<1> SUFFICES ASSUME NEW c, c = handler[h],
                    NEW f, f = IF ~ c.given THEN Nothing
                               ELSE [c EXCEPT !.at = IF @ = "bind" THEN "rebind" ELSE "trim"]
             PROVE  Types'
  OBVIOUS
<1>1. c # Nothing /\ c.op \in RoleOps /\ c.at \in {"bind", "rebind"} /\ roleKeys' = KeysWith(c.roles)
  BY DEF BindRole, At, Is, RoleOps
<1>2. PICK d \in c.roles :
       /\ Become(h, f, {Role(d.row.id)}) /\ Blur(h, {Role(d.row.id)})
       /\ IF c.given THEN UNCHANGED asked
          ELSE Ask(Role(d.row.id), [asked[Role(d.row.id)] EXCEPT !.name = d.row.name])
  BY DEF BindRole
<1> SUFFICES ASSUME NEW what, what = [asked[Role(d.row.id)] EXCEPT !.name = d.row.name]
             PROVE  Types'
  OBVIOUS
<1>3. /\ Shaped(c, nextUser, nextRole) /\ c \in Calls /\ d.row.name \in RoleNames /\ d.row.id \in RoleIds
      /\ Given(d.row.id, nextRole) /\ Role(d.row.id) \in Things /\ ~ NewRole(c) /\ ~ NewUser(c)
      /\ asked[Role(d.row.id)] \in RoleAsks
  BY <1>1, RoleWork DEF RoleOps, NewRole, NewUser
<1>4. UNCHANGED <<users, nextUser, roles, nextRole, userRoles, boot, calls>>
  BY DEF BindRole
<1>5. TablesFine'
  BY <1>1, <1>3, <1>4, WithFine DEF Types, TablesFine
<1>6. AskedFine'
  <2>1. blurred' \in SUBSET Things
    BY <1>2, <1>3, BlurFine
  <2>2. what \in RoleAsks
    BY <1>3 DEF RoleAsks
  <2>3. CASE c.given
    BY <1>2, <1>4, <2>1, <2>3 DEF Types, AskedFine
  <2>4. CASE ~ c.given
    BY <1>2, <1>3, <1>4, <2>1, <2>2, <2>4, AskRoleFine DEF Types
  <2> QED
    BY <2>3, <2>4
<1>7. Fine(f, nextUser', nextRole')
  <2>1. CASE c.given
    <3>1. PICK at \in {"rebind", "trim"} : f = [c EXCEPT !.at = at]
      BY <2>1
    <3>2. Staged(f)
      BY <1>1, <1>3, <2>1, <3>1 DEF Staged, Shaped, Calls, RoleOps
    <3> QED
      BY <1>1, <1>3, <1>4, <3>1, <3>2, MovedFacts DEF Fine
  <2>2. CASE ~ c.given
    BY <2>2 DEF Fine
  <2> QED
    BY <2>1, <2>2
<1>8. nextUser <= nextUser' /\ nextRole <= nextRole'
  BY <1>4, GivenIds DEF Types
<1> QED
  BY <1>1, <1>2, <1>3, <1>4, <1>5, <1>6, <1>7, <1>8, StepTypes DEF Types

LEMMA TrimRoleTypes ==
  ASSUME Types, NEW h \in Handlers, TrimRole(h)
  PROVE  Types'
<1> SUFFICES ASSUME NEW c, c = handler[h]
             PROVE  Types'
  OBVIOUS
<1>1. c # Nothing /\ c.op \in RoleOps /\ c.at = "trim"
  BY DEF TrimRole, At, Is, RoleOps
<1>2. PICK d \in c.roles :
       /\ roleKeys' = {k \in roleKeys : k[1] = d.row.id => k[2] \in d.keys}
       /\ Become(h, Nothing, {Role(d.row.id)}) /\ Settle(h, Role(d.row.id))
       /\ Ask(Role(d.row.id), [name |-> d.row.name, keys |-> d.keys])
  BY DEF TrimRole
<1> SUFFICES ASSUME NEW what, what = [name |-> d.row.name, keys |-> d.keys]
             PROVE  Types'
  OBVIOUS
<1>3. /\ d.row.name \in RoleNames /\ d.row.id \in RoleIds /\ d.keys \in SUBSET Keys
      /\ Role(d.row.id) \in Things
  BY <1>1, RoleWork DEF NewRole
<1>4. UNCHANGED <<users, nextUser, roles, nextRole, userRoles, boot, calls>>
  BY DEF TrimRole
<1>5. TablesFine'
  BY <1>2, <1>4 DEF Types, TablesFine
<1>6. AskedFine'
  <2>1. blurred' \in SUBSET Things
    BY <1>2, <1>3 DEF Settle, Types, AskedFine
  <2>2. what \in RoleAsks
    BY <1>3 DEF RoleAsks
  <2> QED
    BY <1>2, <1>3, <1>4, <2>1, <2>2, AskRoleFine DEF Types
<1>7. nextUser <= nextUser' /\ nextRole <= nextRole'
  BY <1>4, GivenIds DEF Types
<1> QED
  BY <1>1, <1>2, <1>3, <1>4, <1>5, <1>6, <1>7, StepTypes DEF Fine, Types

LEMMA DeleteRoleTypes ==
  ASSUME Types, NEW h \in Handlers, DeleteRole(h)
  PROVE  Types'
<1> SUFFICES ASSUME NEW c, c = handler[h]
             PROVE  Types'
  OBVIOUS
<1>1. c # Nothing /\ c.op = "deleteRole" /\ c.at = "delete"
  BY DEF DeleteRole, At, Is
<1>2. PICK d \in c.roles : roles' = Without(roles, d.row.id) /\ Become(h, Nothing, {Role(d.row.id)})
  BY DEF DeleteRole
<1>3. Role(d.row.id) \in Things
  BY <1>1, AtWork, GivenIds, ThingFacts DEF Shaped, NewRole, Types
<1>4. UNCHANGED <<users, nextUser, nextRole, userRoles, roleKeys, boot, calls, history>>
  BY DEF DeleteRole
<1>5. TablesFine'
  <2>1. roles' \in SUBSET Roles /\ Table(roles', nextRole)
    BY <1>2, WithoutTable DEF Without, Types, TablesFine
  <2> QED
    BY <1>4, <2>1 DEF Types, TablesFine
<1>6. AskedFine' /\ nextUser <= nextUser' /\ nextRole <= nextRole'
  BY <1>4, GivenIds DEF history, Types, AskedFine
<1> QED
  BY <1>1, <1>2, <1>3, <1>4, <1>5, <1>6, StepTypes DEF Fine, Types

-----------------------------------------------------------------------------
(* A start: nobody is served, so that no call changes.                     *)
LEMMA IdleTypes ==
  ASSUME Types, boot # "up", TablesFine', AskedFine', boot' \in Stages, UNCHANGED <<handler, calls>>
  PROVE  Types'
BY DEF Types, Starting, Fine

LEMMA SeedRoleTypes ==
  ASSUME Types, NEW stage \in Stages \ {"up"}, NEW name \in RoleNames, NEW next \in Stages,
         SeedRole(stage, name, next)
  PROVE  Types'
<1>1. boot # "up" /\ boot' \in Stages /\ UNCHANGED <<users, nextUser, userRoles, roleKeys, handler, calls, blurred>>
  BY DEF SeedRole
<1>2. CASE UNCHANGED <<roles, nextRole, asked>>
  BY <1>1, <1>2, IdleTypes DEF Types, TablesFine, AskedFine
<1>3. CASE /\ Named(roles, name) = {} /\ nextRole <= MaxRoles
           /\ roles' = roles \cup {[id |-> nextRole, name |-> name, builtIn |-> TRUE]}
           /\ nextRole' = nextRole + 1
           /\ Ask(Role(nextRole), [name |-> name, keys |-> {}])
  <2> SUFFICES ASSUME NEW x, x = [id |-> nextRole, name |-> name, builtIn |-> TRUE],
                      NEW what, what = [name |-> name, keys |-> {}]
               PROVE  Types'
    OBVIOUS
  <2>1. nextRole \in RoleIds /\ nextRole \in Nat /\ 0 < nextRole /\ nextRole \in 0..MaxRoles
        /\ nextRole' \in 1..(MaxRoles + 1)
    BY <1>3, GivenIds, BoundsAssumption DEF RoleIds, Types
  <2>2. x \in Roles /\ ~ Clash(roles, x) /\ x.id = nextRole
    BY <1>3, <2>1 DEF Roles, Clash, Named
  <2>3. Table(roles', nextRole') /\ roles' \in SUBSET Roles
    BY <1>3, <2>1, <2>2, InsertTable DEF Types, TablesFine
  <2>4. \A i : Given(i, nextRole) => Given(i, nextRole')
    BY <1>3, <2>1, GivenFacts
  <2>5. TablesFine'
    BY <1>1, <2>1, <2>3, <2>4 DEF Types, TablesFine
  <2>6. what \in RoleAsks /\ blurred' \in SUBSET Things
    BY <1>1 DEF RoleAsks, Types, AskedFine
  <2>7. AskedFine'
    BY <1>1, <1>3, <2>1, <2>6, AskRoleFine DEF Types
  <2> QED
    BY <1>1, <2>5, <2>7, IdleTypes
<1> QED
  BY <1>2, <1>3 DEF SeedRole

LEMMA SeedKeysTypes ==
  ASSUME Types, NEW stage \in Stages \ {"up"}, NEW name \in RoleNames, NEW keys \in SUBSET Keys,
         NEW next \in Stages, SeedKeys(stage, name, keys, next)
  PROVE  Types'
<1>1. boot # "up" /\ boot' \in Stages /\ UNCHANGED <<users, nextUser, nextRole, userRoles, handler, calls>>
  BY DEF SeedKeys
<1>2. PICK r \in Named(roles, name) :
       /\ roles' = Upsert(roles, [r EXCEPT !.builtIn = TRUE])
       /\ roleKeys' = {k \in roleKeys : k[1] # r.id} \cup ({r.id} \X keys)
       /\ Ask(Role(r.id), [name |-> name, keys |-> keys]) /\ blurred' = blurred \ {Role(r.id)}
  BY DEF SeedKeys
<1> SUFFICES ASSUME NEW x, x = [r EXCEPT !.builtIn = TRUE], NEW what, what = [name |-> name, keys |-> keys]
             PROVE  Types'
  OBVIOUS
<1>3. r \in roles /\ r \in Roles /\ Given(r.id, nextRole) /\ r.id \in RoleIds
  BY GivenIds DEF Named, Types, TablesFine, Table
<1>4. x \in Roles /\ x.id = r.id /\ x.name = r.name
  BY <1>3 DEF Roles
<1>5. ~ Clash(roles, x)
  BY <1>3, <1>4 DEF Clash, Types, TablesFine, Table
<1>6. TablesFine'
  <2>1. roles' \in SUBSET Roles /\ Table(roles', nextRole)
    BY <1>2, <1>3, <1>4, <1>5, UpsertTable DEF Upsert, Types, TablesFine
  <2> QED
    BY <1>1, <1>2, <1>3, <2>1 DEF Types, TablesFine
<1>7. AskedFine'
  <2>1. what \in RoleAsks /\ blurred' \in SUBSET Things
    BY <1>2 DEF RoleAsks, Types, AskedFine
  <2> QED
    BY <1>1, <1>2, <1>3, <2>1, AskRoleFine DEF Types
<1> QED
  BY <1>1, <1>6, <1>7, IdleTypes

LEMMA SeedUserTypes ==
  ASSUME Types, SeedUser
  PROVE  Types'
<1>1. boot # "up" /\ boot' \in Stages /\ UNCHANGED <<roles, nextRole, userRoles, roleKeys, handler, calls, blurred>>
  BY DEF SeedUser, Stages
<1>2. CASE UNCHANGED <<users, nextUser, asked>>
  BY <1>1, <1>2, IdleTypes DEF Types, TablesFine, AskedFine
<1>3. CASE /\ Named(users, Bootstrap) = {} /\ nextUser <= MaxUsers
           /\ users' = users \cup {[id |-> nextUser, name |-> Bootstrap, active |-> TRUE]}
           /\ nextUser' = nextUser + 1
           /\ Ask(User(nextUser), [active |-> TRUE, new |-> TRUE, roles |-> {}])
  <2> SUFFICES ASSUME NEW x, x = [id |-> nextUser, name |-> Bootstrap, active |-> TRUE],
                      NEW what, what = [active |-> TRUE, new |-> TRUE, roles |-> {}]
               PROVE  Types'
    OBVIOUS
  <2>1. nextUser \in UserIds /\ nextUser \in Nat /\ 0 < nextUser /\ nextUser \in 0..MaxUsers
        /\ nextUser' \in 1..(MaxUsers + 1)
    BY <1>3, GivenIds, BoundsAssumption DEF UserIds, Types
  <2>2. x \in Users /\ ~ Clash(users, x) /\ x.id = nextUser
    BY <1>3, <2>1, NamesAssumption DEF Users, Clash, Named
  <2>3. Table(users', nextUser') /\ users' \in SUBSET Users
    BY <1>3, <2>1, <2>2, InsertTable DEF Types, TablesFine
  <2>4. \A i : Given(i, nextUser) => Given(i, nextUser')
    BY <1>3, <2>1, GivenFacts
  <2>5. TablesFine'
    BY <1>1, <2>1, <2>3, <2>4 DEF Types, TablesFine
  <2>6. what \in UserAsks /\ blurred' \in SUBSET Things
    BY <1>1 DEF UserAsks, Types, AskedFine
  <2>7. AskedFine'
    BY <1>1, <1>3, <2>1, <2>6, AskUserFine DEF Types
  <2> QED
    BY <1>1, <2>5, <2>7, IdleTypes
<1> QED
  BY <1>2, <1>3 DEF SeedUser

LEMMA SeedJoinTypes ==
  ASSUME Types, SeedJoin
  PROVE  Types'
<1>1. boot # "up" /\ boot' \in Stages
      /\ UNCHANGED <<users, nextUser, roles, nextRole, roleKeys, handler, calls, blurred>>
  BY DEF SeedJoin, Stages
<1>2. PICK u \in Named(users, Bootstrap), r \in Named(roles, Admin) :
       /\ userRoles' = userRoles \cup {<<u.id, r.id>>}
       /\ Ask(User(u.id), [asked[User(u.id)] EXCEPT !.roles = @ \cup {r.id}])
  BY DEF SeedJoin
<1>3. /\ Given(u.id, nextUser) /\ u.id \in UserIds /\ Given(r.id, nextRole) /\ r.id \in RoleIds
      /\ asked[User(u.id)] \in UserAsks
  BY GivenIds DEF Named, Types, TablesFine, Table, AskedFine
<1>4. TablesFine'
  BY <1>1, <1>2, <1>3 DEF Types, TablesFine
<1>5. AskedFine'
  <2> SUFFICES ASSUME NEW what, what = [asked[User(u.id)] EXCEPT !.roles = @ \cup {r.id}]
               PROVE  AskedFine'
    OBVIOUS
  <2>1. what \in UserAsks /\ blurred' \in SUBSET Things
    BY <1>1, <1>3 DEF UserAsks, Types, AskedFine
  <2> QED
    BY <1>1, <1>2, <1>3, <2>1, AskUserFine DEF Types
<1> QED
  BY <1>1, <1>4, <1>5, IdleTypes

LEMMA CrashTypes ==
  ASSUME Types, Crash
  PROVE  Types'
<1>1. \A h \in Handlers : Own(handler[h]) \in SUBSET Things
  BY OwnThings, BoundsAssumption DEF Types, TablesFine
<1>2. TablesFine' /\ AskedFine'
  BY <1>1 DEF Crash, tables, Types, TablesFine, AskedFine
<1>3. calls' \in 0..MaxCalls /\ boot' \in Stages
  <2>1. calls < MaxCalls /\ calls' = calls + 1 /\ boot' = "admin"
    BY DEF Crash
  <2>2. calls \in 0..MaxCalls
    BY DEF Types
  <2> QED
    BY <2>1, <2>2, BoundsAssumption DEF Stages
<1>4. \A h \in Handlers : handler'[h] = Nothing
  BY DEF Crash
<1> QED
  BY <1>2, <1>3, <1>4 DEF Types, Starting, Fine

-----------------------------------------------------------------------------
LEMMA TypesInductive ==
  ASSUME Types, [Next]_vars
  PROVE  Types'
<1>1. ASSUME NEW h \in Handlers, Step(h)
      PROVE  Types'
  BY <1>1, UserRequestTypes, RoleRequestTypes, LoginTypes, FailTypes, ReadUserTypes, PickRolesTypes,
     SaveUserTypes, SaveRolesTypes, BindUserTypes, RebindUserTypes, TrimUserTypes, DeleteUserTypes,
     ReadRoleTypes, CreateRoleTypes, SaveRoleTypes, BindRoleTypes, TrimRoleTypes, DeleteRoleTypes
     DEF Step
<1>2. CASE Seed
  <2>1. OperatorKeys \in SUBSET Keys /\ Keys \in SUBSET Keys /\ Admin \in RoleNames /\ Operator \in RoleNames
        /\ {"admin", "admin keys", "operator", "operator keys"} \subseteq Stages \ {"up"} /\ "user" \in Stages
    BY NamesAssumption, KeysAssumption DEF Stages
  <2> QED
    BY <1>2, <2>1, SeedRoleTypes, SeedKeysTypes, SeedUserTypes, SeedJoinTypes DEF Seed
<1>3. CASE UNCHANGED vars
  <2>1. UNCHANGED <<users, nextUser, roles, nextRole, userRoles, roleKeys, boot, handler, calls, asked, blurred>>
    BY <1>3 DEF vars, tables, history
  <2> QED
    BY <2>1 DEF Types, TablesFine, AskedFine, Starting
<1> QED
  BY <1>1, <1>2, <1>3, CrashTypes DEF Next

LEMMA TypesHold == Spec => []Types
<1>1. Init => Types
  <2> SUFFICES ASSUME Init PROVE Types
    OBVIOUS
  <2>1. TablesFine
    BY BoundsAssumption DEF Init, TablesFine, Table
  <2>2. \A i : ~ Given(i, nextUser) /\ ~ Given(i, nextRole)
    BY DEF Init, Given
  <2>3. AskedFine
    BY <2>2 DEF Init, AskedFine
  <2> QED
    BY <2>1, <2>3, BoundsAssumption DEF Init, Types, Stages, Starting, Fine
<1>2. Types /\ [Next]_vars => Types'
  BY TypesInductive
<1> QED
  BY <1>1, <1>2, PTL DEF Spec

(* The tables, the calls and what was asked have the shape TypeOK gives    *)
(* them (models.go, and the requests of rbac.go).                          *)
THEOREM AccessTypesHold == Spec => []TypeOK
<1>1. Types => TypeOK
  <2> SUFFICES ASSUME Types PROVE TypeOK
    OBVIOUS
  <2>1. userRoles \in SUBSET (UserIds \X RoleIds) /\ roleKeys \in SUBSET (RoleIds \X Keys)
    BY DEF Types, TablesFine
  <2>2. \A h \in Handlers : handler[h] \in Calls \/ handler[h] = Nothing
    BY DEF Types, Fine, Shaped
  <2>3. \A t \in Things : asked[t] \in {Nothing} \cup UserAsks \cup RoleAsks
    BY DEF Types, AskedFine
  <2> QED
    BY <2>1, <2>2, <2>3 DEF TypeOK, Types, TablesFine, AskedFine, UserAsks, RoleAsks
<1> QED
  BY <1>1, TypesHold, PTL

-----------------------------------------------------------------------------
(* What is built in.                                                       *)

(* A row of roles, in the table or as a handler has it; and one like it.   *)
HeldRow(x) ==
  \/ x \in roles
  \/ \E h \in Handlers : handler[h] # Nothing /\ \E d \in handler[h].roles : x = d.row
Sourced(x) == \E y : HeldRow(y) /\ y.id = x.id /\ y.builtIn = x.builtIn

(* All copies of a role agree on whether it is built in.                   *)
OneFlag ==
  \A x, y : HeldRow(x) /\ HeldRow(y) /\ Given(x.id, nextRole) /\ x.id = y.id => x.builtIn = y.builtIn

Stay == \A r \in roles : r.builtIn => \E q \in roles' : q.id = r.id /\ q.builtIn

LEMMA FlagStep ==
  ASSUME Types, OneFlag, NEW h \in Handlers, NEW c, NEW things, Become(h, c, things),
         nextRole' = nextRole, \A x \in roles' : Sourced(x),
         c # Nothing => \A d \in c.roles : Given(d.row.id, nextRole) => Sourced(d.row)
  PROVE  OneFlag'
<1>1. ASSUME NEW x, HeldRow(x)', Given(x.id, nextRole)
      PROVE  Sourced(x)
  <2>1. CASE x \in roles'
    BY <2>1
  <2>2. ASSUME NEW g \in Handlers, handler'[g] # Nothing, NEW d \in handler'[g].roles, x = d.row
        PROVE  Sourced(x)
    <3>1. CASE g = h
      BY <1>1, <2>2, <3>1, BecomeFacts
    <3>2. CASE g # h
      <4>1. handler'[g] = Told(handler[g], things)
        BY <3>2, BecomeFacts
      <4>2. handler[g] # Nothing
        BY <2>2, <4>1 DEF Told
      <4>3. handler'[g].roles = handler[g].roles
        BY <4>1, <4>2, AtWork DEF Told, Calls
      <4>4. HeldRow(x)
        BY <2>2, <4>2, <4>3 DEF HeldRow
      <4> QED
        BY <4>4 DEF Sourced
    <3> QED
      BY <3>1, <3>2
  <2> QED
    BY <1>1, <2>1, <2>2 DEF HeldRow
<1> QED
  BY <1>1 DEF OneFlag, Sourced

LEMMA HeldAreSourced ==
  /\ \A x \in roles : Sourced(x)
  /\ \A h \in Handlers : handler[h] # Nothing => \A d \in handler[h].roles : Sourced(d.row)
BY DEF Sourced, HeldRow

(* Steps that leave the table alone, and take copies of it or none.        *)
LEMMA TableFlags ==
  ASSUME Types, OneFlag, NEW h \in Handlers, NEW c, NEW things, Become(h, c, things),
         UNCHANGED <<roles, nextRole>>,
         c # Nothing => \A d \in c.roles : Given(d.row.id, nextRole) => Sourced(d.row)
  PROVE  OneFlag' /\ Stay
BY FlagStep, HeldAreSourced DEF Stay

LEMMA BeginFlags ==
  ASSUME Types, OneFlag, NEW h \in Handlers, NEW op, NEW at, NEW user, NEW copies,
         Begin(h, op, at, user, copies), \A d \in copies : Given(d.row.id, nextRole) => Sourced(d.row)
  PROVE  OneFlag' /\ Stay
BY TableFlags DEF Begin, tables

LEMMA RequestFlags ==
  ASSUME Types, OneFlag, NEW h \in Handlers, UserRequest(h) \/ RoleRequest(h) \/ Login(h)
  PROVE  OneFlag' /\ Stay
<1>1. CASE UserRequest(h)
  <2>1. PICK op, at, user : Begin(h, op, at, user, {})
    BY <1>1 DEF UserRequest
  <2> QED
    BY <2>1, BeginFlags
<1>2. CASE RoleRequest(h)
  <2>1. ASSUME NEW n, NEW keys,
               Begin(h, "createRole", "row", Nothing,
                     {[row |-> [id |-> 0, name |-> n, builtIn |-> FALSE], keys |-> keys]})
        PROVE  OneFlag' /\ Stay
    <3> SUFFICES ASSUME NEW d, d = [row |-> [id |-> 0, name |-> n, builtIn |-> FALSE], keys |-> keys]
                 PROVE  OneFlag' /\ Stay
      OBVIOUS
    <3>1. ~ Given(d.row.id, nextRole)
      BY DEF Given
    <3> QED
      BY <2>1, <3>1, BeginFlags
  <2>2. ASSUME NEW op, Begin(h, op, "read", Nothing, {})
        PROVE  OneFlag' /\ Stay
    BY <2>2, BeginFlags
  <2> QED
    BY <1>2, <2>1, <2>2 DEF RoleRequest
<1>3. CASE Login(h)
  <2>1. PICK u \in users : Begin(h, "login", "roles", u, {Copy(r) : r \in RolesOf(u.id)})
    BY <1>3 DEF Login
  <2>2. \A d \in {Copy(r) : r \in RolesOf(u.id)} : Sourced(d.row)
    <3>1. \A r \in RolesOf(u.id) : r \in roles /\ Copy(r).row = r
      BY DEF RolesOf, Copy
    <3> QED
      BY <3>1, HeldAreSourced
  <2> QED
    BY <2>1, <2>2, BeginFlags
<1> QED
  BY <1>1, <1>2, <1>3

LEMMA ReadFlags ==
  ASSUME Types, OneFlag, NEW h \in Handlers, ReadUser(h) \/ PickRoles(h) \/ ReadRole(h)
  PROVE  OneFlag' /\ Stay
<1> SUFFICES ASSUME NEW c, c = handler[h]
             PROVE  OneFlag' /\ Stay
  OBVIOUS
<1>1. c # Nothing /\ c \in Calls /\ UNCHANGED <<roles, nextRole>>
  BY AtWork DEF ReadUser, PickRoles, ReadRole, At, tables
<1>2. CASE ReadUser(h)
  <2>1. PICK u \in users, n \in UserNames, active \in BOOLEAN, given \in BOOLEAN :
          Become(h, [c EXCEPT !.user = [u EXCEPT !.name = n, !.active = active],
                              !.roles = {Copy(r) : r \in RolesOf(u.id)}, !.given = given,
                              !.at = IF given THEN "pick" ELSE "row"], {})
    BY <1>2 DEF ReadUser
  <2> SUFFICES ASSUME NEW copies, copies = {Copy(r) : r \in RolesOf(u.id)},
                      NEW v, v = [u EXCEPT !.name = n, !.active = active],
                      NEW b, b = IF given THEN "pick" ELSE "row",
                      NEW d, d = [c EXCEPT !.user = v, !.roles = copies, !.given = given, !.at = b]
               PROVE  OneFlag' /\ Stay
    OBVIOUS
  <2>2. \A e \in copies : Sourced(e.row)
    <3>1. \A r \in RolesOf(u.id) : r \in roles /\ Copy(r).row = r
      BY DEF RolesOf, Copy
    <3> QED
      BY <3>1, HeldAreSourced
  <2>3. d.roles = copies
    BY <1>1 DEF Calls
  <2> QED
    BY <1>1, <2>1, <2>2, <2>3, TableFlags
<1>3. CASE PickRoles(h)
  <2>1. PICK picked \in SUBSET roles :
          Become(h, [c EXCEPT !.roles = {Copy(r) : r \in picked}, !.at = "row",
                              !.behind = @ \cap {User(u) : u \in UserIds}], {})
    BY <1>3 DEF PickRoles
  <2> SUFFICES ASSUME NEW copies, copies = {Copy(r) : r \in picked},
                      NEW b, b = c.behind \cap {User(u) : u \in UserIds},
                      NEW d, d = [c EXCEPT !.roles = copies, !.at = "row", !.behind = b]
               PROVE  OneFlag' /\ Stay
    OBVIOUS
  <2>2. \A e \in copies : Sourced(e.row)
    <3>1. \A r : Copy(r).row = r
      BY DEF Copy
    <3> QED
      BY <3>1, HeldAreSourced
  <2>3. d.roles = copies
    BY <1>1 DEF Calls
  <2> QED
    BY <1>1, <2>1, <2>2, <2>3, TableFlags
<1>4. CASE ReadRole(h)
  <2>1. \E r \in roles : \E e, d :
          Become(h, d, {}) /\ d.roles = {e} /\ e.row.id = r.id /\ e.row.builtIn = r.builtIn
    <3>1. PICK r \in roles :
            \/ Become(h, [c EXCEPT !.roles = {Copy(r)}, !.at = "delete"], {})
            \/ \E n, given, keys :
                 Become(h, [c EXCEPT !.roles = {[row |-> [r EXCEPT !.name = n], keys |-> keys]},
                                     !.given = given, !.at = "row"], {})
      BY <1>4 DEF ReadRole
    <3>2. r \in Roles
      BY DEF Types, TablesFine
    <3>3. CASE Become(h, [c EXCEPT !.roles = {Copy(r)}, !.at = "delete"], {})
      <4> SUFFICES ASSUME NEW e, e = Copy(r), NEW d, d = [c EXCEPT !.roles = {e}, !.at = "delete"]
                   PROVE  Become(h, d, {}) /\ d.roles = {e} /\ e.row.id = r.id /\ e.row.builtIn = r.builtIn
        OBVIOUS
      <4> QED
        BY <1>1, <3>3 DEF Copy, Calls
    <3>4. ASSUME NEW n, NEW given, NEW keys,
                 Become(h, [c EXCEPT !.roles = {[row |-> [r EXCEPT !.name = n], keys |-> keys]},
                                     !.given = given, !.at = "row"], {})
          PROVE  \E e, d : Become(h, d, {}) /\ d.roles = {e} /\ e.row.id = r.id /\ e.row.builtIn = r.builtIn
      <4> SUFFICES ASSUME NEW e, e = [row |-> [r EXCEPT !.name = n], keys |-> keys],
                          NEW d, d = [c EXCEPT !.roles = {e}, !.given = given, !.at = "row"]
                   PROVE  Become(h, d, {}) /\ d.roles = {e} /\ e.row.id = r.id /\ e.row.builtIn = r.builtIn
        OBVIOUS
      <4> QED
        BY <1>1, <3>2, <3>4 DEF Roles, Calls
    <3> QED
      BY <3>1, <3>3, <3>4
  <2>2. PICK e, d : Become(h, d, {}) /\ d.roles = {e} /\ Sourced(e.row)
    BY <2>1, HeldAreSourced DEF Sourced
  <2> QED
    BY <1>1, <2>2, TableFlags
<1> QED
  BY <1>2, <1>3, <1>4

(* Steps that keep the copies they have.                                   *)
LEMMA CarriedFlags ==
  ASSUME Types, OneFlag, NEW h \in Handlers, handler[h] # Nothing, UNCHANGED <<roles, nextRole>>,
         \E c, things : Become(h, c, things) /\ (c = Nothing \/ c.roles = handler[h].roles)
  PROVE  OneFlag' /\ Stay
<1>1. PICK c, things : Become(h, c, things) /\ (c = Nothing \/ c.roles = handler[h].roles)
  OBVIOUS
<1>2. c # Nothing => \A d \in c.roles : Sourced(d.row)
  BY <1>1, HeldAreSourced
<1> QED
  BY <1>1, <1>2, TableFlags

LEMMA WorkFlags ==
  ASSUME Types, OneFlag, NEW h \in Handlers,
         Fail(h) \/ SaveUser(h) \/ BindUser(h) \/ TrimUser(h) \/ DeleteUser(h) \/ BindRole(h) \/ TrimRole(h)
  PROVE  OneFlag' /\ Stay
<1> SUFFICES ASSUME NEW c, c = handler[h]
             PROVE  OneFlag' /\ Stay
  OBVIOUS
<1>1. c # Nothing /\ UNCHANGED <<roles, nextRole>>
  BY DEF Fail, SaveUser, BindUser, TrimUser, DeleteUser, BindRole, TrimRole, At, tables
<1>2. c \in Calls
  BY <1>1, AtWork
<1>3. CASE Fail(h) \/ TrimUser(h) \/ DeleteUser(h) \/ TrimRole(h)
  <2>1. PICK things : Become(h, Nothing, things)
    BY <1>3 DEF Fail, TrimUser, DeleteUser, TrimRole
  <2> QED
    BY <1>1, <2>1, CarriedFlags
<1>4. CASE SaveUser(h)
  <2> SUFFICES ASSUME NEW new, new = NewRow(c), NEW d, d = [c EXCEPT !.user.id = new.id, !.at = "roles"]
               PROVE  OneFlag' /\ Stay
    OBVIOUS
  <2>1. Become(h, d, {User(new.id)})
    BY <1>4, SaveUserFacts
  <2>2. d.roles = c.roles
    BY <1>2 DEF Calls
  <2> QED
    BY <1>1, <2>1, <2>2, CarriedFlags
<1>5. CASE BindUser(h)
  <2>1. PICK d, things : Become(h, d, things) /\ (d = Nothing \/ d = [c EXCEPT !.at = "rebind"])
    BY <1>5 DEF BindUser
  <2>2. d = Nothing \/ d.roles = c.roles
    BY <1>2, <2>1 DEF Calls
  <2> QED
    BY <1>1, <2>1, <2>2, CarriedFlags
<1>6. CASE BindRole(h)
  <2>1. PICK d, things, at : Become(h, d, things) /\ (d = Nothing \/ d = [c EXCEPT !.at = at])
    BY <1>6 DEF BindRole
  <2>2. d = Nothing \/ d.roles = c.roles
    BY <1>2, <2>1 DEF Calls
  <2> QED
    BY <1>1, <2>1, <2>2, CarriedFlags
<1> QED
  BY <1>3, <1>4, <1>5, <1>6

(* What inserting what is missing makes of the table.                      *)
LEMMA MissingFacts ==
  ASSUME NEW copies
  PROVE  /\ roles \subseteq InsertMissing(copies)
         /\ \A x \in InsertMissing(copies) :
              x \in roles \/ (x.id \notin Ids(roles) /\ \E d \in copies : x = d.row)
BY DEF InsertMissing

LEMMA SaveRolesFlags ==
  ASSUME Types, OneFlag, NEW h \in Handlers, SaveRoles(h)
  PROVE  OneFlag' /\ Stay
<1> SUFFICES ASSUME NEW c, c = handler[h], NEW e, e = [c EXCEPT !.at = "bind"],
                    NEW written, written = HeldBy(c.roles)
             PROVE  OneFlag' /\ Stay
  OBVIOUS
<1>1. /\ c \in Calls /\ c # Nothing /\ nextRole' = nextRole /\ Become(h, e, Mixed(h, written))
      /\ Shaped(c, nextUser, nextRole) /\ ~ NewRole(c)
      /\ roles' = RestFrom(c.roles) \cup RowsOf(c.roles) \/ roles' = InsertMissing(c.roles)
  BY SaveRolesFacts DEF UserOps, NewRole
<1>2. e.roles = c.roles
  BY <1>1 DEF Calls
<1>3. \A d \in c.roles : Sourced(d.row) /\ Given(d.row.id, nextRole) /\ HeldRow(d.row)
  BY <1>1, HeldAreSourced DEF Shaped, HeldRow
<1>4. \A x \in roles' : Sourced(x)
  <2>1. \A x \in RestFrom(c.roles) \cup RowsOf(c.roles) : x \in roles \/ \E d \in c.roles : x = d.row
    BY DEF RestFrom, RowsOf
  <2>2. \A x \in InsertMissing(c.roles) : x \in roles \/ \E d \in c.roles : x = d.row
    BY MissingFacts
  <2> QED
    BY <1>1, <1>3, <2>1, <2>2, HeldAreSourced
<1>5. Stay
  <2>1. CASE roles' = InsertMissing(c.roles)
    BY <2>1, MissingFacts DEF Stay
  <2>2. CASE roles' = RestFrom(c.roles) \cup RowsOf(c.roles)
    <3> SUFFICES ASSUME NEW r \in roles, r.builtIn
                 PROVE  \E q \in roles' : q.id = r.id /\ q.builtIn
      BY DEF Stay
    <3>1. CASE r \in RestFrom(c.roles)
      BY <2>2, <3>1
    <3>2. ASSUME NEW d \in c.roles, d.row.id = r.id
          PROVE  d.row \in roles' /\ d.row.builtIn
      <4>1. d.row \in roles'
        BY <2>2 DEF RowsOf
      <4>2. HeldRow(r)
        BY DEF HeldRow
      <4> QED
        BY <1>3, <3>2, <4>1, <4>2 DEF OneFlag
    <3> QED
      BY <3>1, <3>2, HeldFacts
  <2> QED
    BY <1>1, <2>1, <2>2
<1> QED
  BY <1>1, <1>2, <1>3, <1>4, <1>5, FlagStep

LEMMA RebindUserFlags ==
  ASSUME Types, OneFlag, NEW h \in Handlers, RebindUser(h)
  PROVE  OneFlag' /\ Stay
<1> SUFFICES ASSUME NEW c, c = handler[h], NEW e, e = [c EXCEPT !.at = "trim"]
             PROVE  OneFlag' /\ Stay
  OBVIOUS
<1>1. c # Nothing /\ roles' = InsertMissing(c.roles) /\ nextRole' = nextRole
  BY DEF RebindUser, At
<1>2. PICK things : Become(h, e, things)
  BY DEF RebindUser
<1>3. e.roles = c.roles
  BY <1>1, AtWork DEF Calls
<1>4. \A d \in c.roles : Sourced(d.row)
  BY <1>1, HeldAreSourced
<1>5. \A x \in roles' : Sourced(x)
  BY <1>1, <1>4, HeldAreSourced, MissingFacts
<1> QED
  BY <1>1, <1>2, <1>3, <1>4, <1>5, FlagStep, MissingFacts DEF Stay

LEMMA SaveRoleFlags ==
  ASSUME Types, OneFlag, NEW h \in Handlers, SaveRole(h)
  PROVE  OneFlag' /\ Stay
<1> SUFFICES ASSUME NEW c, c = handler[h], NEW e, e = [c EXCEPT !.at = "bind"]
             PROVE  OneFlag' /\ Stay
  OBVIOUS
<1>1. c # Nothing /\ c.op = "updateRole" /\ c.at = "row" /\ nextRole' = nextRole
  BY DEF SaveRole, At, Is
<1>2. PICK d \in c.roles : roles' = Upsert(roles, d.row) /\ Become(h, e, {Role(d.row.id)})
  BY DEF SaveRole
<1>3. e.roles = c.roles
  BY <1>1, AtWork DEF Calls
<1>4. HeldRow(d.row) /\ Sourced(d.row) /\ Given(d.row.id, nextRole) /\ \A f \in c.roles : Sourced(f.row)
  BY <1>1, HeldAreSourced, RoleWork DEF HeldRow, RoleOps, NewRole
<1>5. \A x \in roles' : Sourced(x)
  BY <1>2, <1>4, HeldAreSourced DEF Upsert
<1>6. Stay
  <2> SUFFICES ASSUME NEW r \in roles, r.builtIn
               PROVE  \E q \in roles' : q.id = r.id /\ q.builtIn
    BY DEF Stay
  <2>1. HeldRow(r)
    BY DEF HeldRow
  <2>2. r.id = d.row.id => d.row.builtIn
    BY <1>4, <2>1 DEF OneFlag
  <2> QED
    BY <1>2, <2>2 DEF Upsert
<1> QED
  BY <1>1, <1>2, <1>3, <1>4, <1>5, <1>6, FlagStep

LEMMA DeleteRoleFlags ==
  ASSUME Types, OneFlag, NEW h \in Handlers, DeleteRole(h)
  PROVE  OneFlag' /\ Stay
<1> SUFFICES ASSUME NEW c, c = handler[h]
             PROVE  OneFlag' /\ Stay
  OBVIOUS
<1>1. c # Nothing /\ c.op = "deleteRole" /\ c.at = "delete" /\ nextRole' = nextRole
  BY DEF DeleteRole, At, Is
<1>2. PICK d \in c.roles : roles' = Without(roles, d.row.id) /\ Become(h, Nothing, {Role(d.row.id)})
  BY DEF DeleteRole
<1>3. HeldRow(d.row) /\ Given(d.row.id, nextRole) /\ ~ d.row.builtIn
  BY <1>1, AtWork DEF HeldRow, Shaped, NewRole
<1>4. \A x \in roles' : Sourced(x)
  BY <1>2, HeldAreSourced DEF Without
<1>5. Stay
  <2> SUFFICES ASSUME NEW r \in roles, r.builtIn
               PROVE  \E q \in roles' : q.id = r.id /\ q.builtIn
    BY DEF Stay
  <2>1. HeldRow(r)
    BY DEF HeldRow
  <2>2. r.id # d.row.id
    BY <1>3, <2>1 DEF OneFlag
  <2> QED
    BY <1>2, <2>2 DEF Without
<1> QED
  BY <1>1, <1>2, <1>4, <1>5, FlagStep

LEMMA CreateRoleFlags ==
  ASSUME Types, OneFlag, NEW h \in Handlers, CreateRole(h)
  PROVE  OneFlag' /\ Stay
<1> SUFFICES ASSUME NEW c, c = handler[h]
             PROVE  OneFlag' /\ Stay
  OBVIOUS
<1>1. PICK e : /\ e.row.id = nextRole /\ roles' = roles \cup {e.row} /\ c \in Calls
               /\ Become(h, [c EXCEPT !.roles = {e}, !.at = "bind"], {Role(nextRole)})
               /\ nextRole' = nextRole + 1 /\ nextRole \in Nat
  BY CreateRoleFacts
<1> SUFFICES ASSUME NEW f, f = [c EXCEPT !.roles = {e}, !.at = "bind"]
             PROVE  OneFlag' /\ Stay
  OBVIOUS
<1>2. f.roles = {e}
  BY <1>1 DEF Calls
<1>3. ASSUME NEW x, HeldRow(x)', x # e.row, Given(x.id, nextRole')
      PROVE  HeldRow(x) /\ Given(x.id, nextRole)
  <2>1. HeldRow(x) /\ (Given(x.id, nextRole) \/ x.id = 0)
    <3>1. CASE x \in roles'
      BY <1>1, <1>3, <3>1 DEF HeldRow, Types, TablesFine, Table
    <3>2. ASSUME NEW g \in Handlers, handler'[g] # Nothing, NEW d \in handler'[g].roles, x = d.row
          PROVE  HeldRow(x) /\ (Given(x.id, nextRole) \/ x.id = 0)
      <4>1. g # h
        <5>1. handler'[h] = f
          BY <1>1, BecomeFacts
        <5>2. \A b \in f.roles : b.row = e.row
          BY <1>2
        <5> QED
          BY <1>3, <3>2, <5>1, <5>2
      <4>2. handler'[g] = Told(handler[g], {Role(nextRole)}) /\ handler[g] # Nothing
        BY <1>1, <3>2, <4>1, BecomeFacts DEF Told
      <4>3. handler'[g].roles = handler[g].roles
        BY <4>2, AtWork DEF Told, Calls
      <4> QED
        BY <3>2, <4>2, <4>3, AtWork DEF HeldRow, Shaped
    <3> QED
      BY <1>3, <3>1, <3>2 DEF HeldRow
  <2> QED
    BY <1>3, <2>1 DEF Given
<1>4. OneFlag'
  <2> SUFFICES ASSUME NEW x, NEW y, HeldRow(x)', HeldRow(y)', Given(x.id, nextRole'), x.id = y.id
               PROVE  x.builtIn = y.builtIn
    BY DEF OneFlag
  <2>1. \A i : Given(i, nextRole) => i # nextRole
    BY <1>1, GivenFacts
  <2>2. CASE x = e.row \/ y = e.row
    BY <1>1, <1>3, <2>1, <2>2
  <2>3. CASE x # e.row /\ y # e.row
    BY <1>3, <2>3 DEF OneFlag
  <2> QED
    BY <2>2, <2>3
<1> QED
  BY <1>1, <1>4 DEF Stay

(* While nobody is served, there are no copies to disagree.                *)
LEMMA IdleFlags ==
  ASSUME Types', \A h \in Handlers : handler'[h] = Nothing
  PROVE  OneFlag'
BY DEF OneFlag, HeldRow, Types, TablesFine, Table

LEMMA SeedFlags ==
  ASSUME Types, Types', Seed
  PROVE  OneFlag' /\ Stay
<1>1. handler' = handler /\ boot # "up"
  BY DEF Seed, SeedRole, SeedKeys, SeedUser, SeedJoin
<1>2. OneFlag'
  BY <1>1, IdleFlags DEF Types, Starting
<1>3. Stay
  <2>1. ASSUME NEW stage, NEW name, NEW next, SeedRole(stage, name, next)
        PROVE  Stay
    BY <2>1 DEF Stay, SeedRole
  <2>2. ASSUME NEW stage, NEW name, NEW keys, NEW next, SeedKeys(stage, name, keys, next)
        PROVE  Stay
    <3>1. PICK r \in roles : roles' = Upsert(roles, [r EXCEPT !.builtIn = TRUE])
      BY <2>2 DEF SeedKeys, Named
    <3> SUFFICES ASSUME NEW x, x = [r EXCEPT !.builtIn = TRUE]
                 PROVE  Stay
      OBVIOUS
    <3>2. x.id = r.id /\ x.builtIn
      BY DEF Types, TablesFine, Roles
    <3> QED
      BY <3>1, <3>2 DEF Stay, Upsert
  <2>3. CASE SeedUser \/ SeedJoin
    BY <2>3 DEF Stay, SeedUser, SeedJoin
  <2> QED
    BY <2>1, <2>2, <2>3 DEF Seed
<1> QED
  BY <1>2, <1>3

LEMMA FlagInductive ==
  ASSUME Types, Types', OneFlag, [Next]_vars
  PROVE  OneFlag' /\ Stay
<1>1. ASSUME NEW h \in Handlers, Step(h)
      PROVE  OneFlag' /\ Stay
  BY <1>1, RequestFlags, ReadFlags, WorkFlags, SaveRolesFlags, RebindUserFlags, SaveRoleFlags,
     DeleteRoleFlags, CreateRoleFlags DEF Step
<1>2. CASE Crash
  <2>1. \A h \in Handlers : handler'[h] = Nothing
    BY <1>2 DEF Crash
  <2>2. Stay
    BY <1>2 DEF Crash, tables, Stay
  <2> QED
    BY <2>1, <2>2, IdleFlags
<1>3. CASE UNCHANGED vars
  <2>1. UNCHANGED <<roles, nextRole, handler>>
    BY <1>3 DEF vars, tables
  <2> QED
    BY <2>1 DEF OneFlag, HeldRow, Stay
<1> QED
  BY <1>1, <1>2, <1>3, SeedFlags DEF Next

(* No step deletes a built-in role or lets a copy of it make it deletable  *)
(* (deleteRole, and the saves that write copies of roles back).            *)
THEOREM BuiltInsStayHolds == Spec => BuiltInsStay
<1>1. Init => OneFlag
  BY DEF Init, OneFlag, HeldRow
<1>2. Types /\ Types' /\ OneFlag /\ [Next]_vars => OneFlag'
  BY FlagInductive
<1>3. Types /\ Types' /\ OneFlag /\ [Next]_vars =>
        [\A r \in roles : r.builtIn => \E q \in roles' : q.id = r.id /\ q.builtIn]_vars
  BY FlagInductive DEF Stay
<1> QED
  BY <1>1, <1>2, <1>3, TypesHold, PTL DEF Spec, BuiltInsStay

-----------------------------------------------------------------------------
(* How far a start has come.                                               *)
Has(name, keys) == \E r \in Named(roles, name) : r.builtIn /\ KeysOf(r.id) = keys
Seeded ==
  /\ boot = "admin keys" => Named(roles, Admin) # {}
  /\ boot \in {"operator", "operator keys", "user", "join"} => Has(Admin, Keys)
  /\ boot = "operator keys" => Named(roles, Operator) # {}
  /\ boot \in {"user", "join"} => Has(Operator, OperatorKeys)
  /\ boot = "join" => Named(users, Bootstrap) # {}

(* The keys of a role that others' keys are not written to.                *)
LEMMA KeysKept ==
  ASSUME NEW i, \A k : k[1] = i => (k \in roleKeys' <=> k \in roleKeys)
  PROVE  KeysOf(i)' = KeysOf(i)
<1>1. \A k \in Keys : <<i, k>> \in roleKeys' <=> <<i, k>> \in roleKeys
  OBVIOUS
<1> QED
  BY <1>1 DEF KeysOf

LEMMA HasKept ==
  ASSUME roles \subseteq roles', UNCHANGED roleKeys, NEW name, NEW keys, Has(name, keys)
  PROVE  Has(name, keys)'
BY DEF Has, Named, KeysOf

LEMMA SeedRoleMakes ==
  ASSUME NEW stage, NEW name, NEW next, SeedRole(stage, name, next)
  PROVE  roles \subseteq roles' /\ Named(roles', name) # {} /\ UNCHANGED roleKeys /\ boot' = next
<1>1. CASE Named(roles, name) # {} /\ UNCHANGED <<roles, nextRole, asked>>
  BY <1>1 DEF SeedRole
<1>2. CASE roles' = roles \cup {[id |-> nextRole, name |-> name, builtIn |-> TRUE]}
  <2>1. [id |-> nextRole, name |-> name, builtIn |-> TRUE] \in Named(roles', name)
    BY <1>2 DEF Named
  <2> QED
    BY <1>2, <2>1 DEF SeedRole
<1> QED
  BY <1>1, <1>2 DEF SeedRole

LEMMA SeedKeysMakes ==
  ASSUME Types, NEW stage, NEW name, NEW keys \in SUBSET Keys, NEW next, SeedKeys(stage, name, keys, next)
  PROVE  /\ Has(name, keys)' /\ boot' = next
         /\ \A other \in RoleNames : other # name => \A ks : Has(other, ks) => Has(other, ks)'
<1>1. PICK r \in Named(roles, name) :
       /\ roles' = Upsert(roles, [r EXCEPT !.builtIn = TRUE])
       /\ roleKeys' = {k \in roleKeys : k[1] # r.id} \cup ({r.id} \X keys)
  BY DEF SeedKeys
<1> SUFFICES ASSUME NEW x, x = [r EXCEPT !.builtIn = TRUE]
             PROVE  /\ Has(name, keys)' /\ boot' = next
                    /\ \A other \in RoleNames : other # name => \A ks : Has(other, ks) => Has(other, ks)'
  OBVIOUS
<1>2. x.id = r.id /\ x.name = name /\ x.builtIn /\ r \in roles /\ x \in roles'
  BY <1>1 DEF Named, Types, TablesFine, Roles, Upsert
<1>3. Has(name, keys)'
  <2>1. KeysOf(r.id)' = keys
    <3>1. \A k \in Keys : <<r.id, k>> \in roleKeys' <=> k \in keys
      BY <1>1
    <3> QED
      BY <3>1 DEF KeysOf
  <2> QED
    BY <1>2, <2>1 DEF Has, Named
<1>4. ASSUME NEW other, other # name, NEW ks, Has(other, ks)
      PROVE  Has(other, ks)'
  <2>1. PICK q \in roles : q.name = other /\ q.builtIn /\ KeysOf(q.id) = ks
    BY <1>4 DEF Has, Named
  <2>2. q.id # r.id
    BY <1>2, <1>4, <2>1 DEF Types, TablesFine, Table, Named
  <2>3. q \in roles'
    BY <1>1, <1>2, <2>2 DEF Upsert
  <2>4. KeysOf(q.id)' = KeysOf(q.id)
    <3>1. \A k \in Keys : <<q.id, k>> \in roleKeys' <=> <<q.id, k>> \in roleKeys
      BY <1>1, <2>2
    <3> QED
      BY <3>1 DEF KeysOf
  <2> QED
    BY <2>1, <2>3, <2>4 DEF Has, Named
<1> QED
  BY <1>3, <1>4 DEF SeedKeys

LEMMA SeedUserMakes ==
  ASSUME SeedUser
  PROVE  Named(users', Bootstrap) # {} /\ UNCHANGED <<roles, roleKeys>> /\ boot' = "join"
<1>1. CASE Named(users, Bootstrap) # {} /\ UNCHANGED <<users, nextUser, asked>>
  BY <1>1 DEF SeedUser
<1>2. CASE users' = users \cup {[id |-> nextUser, name |-> Bootstrap, active |-> TRUE]}
  <2>1. [id |-> nextUser, name |-> Bootstrap, active |-> TRUE] \in Named(users', Bootstrap)
    BY <1>2 DEF Named
  <2> QED
    BY <1>2, <2>1 DEF SeedUser
<1> QED
  BY <1>1, <1>2 DEF SeedUser

LEMMA SeedInductive ==
  ASSUME Types, Seeded, [Next]_vars
  PROVE  Seeded'
<1>1. ASSUME NEW h \in Handlers, Step(h)
      PROVE  Seeded'
  <2>1. boot' = "up"
    <3>1. boot' = boot
      BY <1>1 DEF Step, UserRequest, RoleRequest, Login, Begin, Fail, ReadUser, PickRoles, SaveUser,
         SaveRoles, BindUser, RebindUser, TrimUser, DeleteUser, ReadRole, CreateRole, SaveRole, BindRole,
         TrimRole, DeleteRole
    <3>2. boot = "up" \/ handler[h] # Nothing
      BY <1>1 DEF Step, UserRequest, RoleRequest, Login, Begin, Fail, ReadUser, PickRoles, SaveUser,
         SaveRoles, BindUser, RebindUser, TrimUser, DeleteUser, ReadRole, CreateRole, SaveRole, BindRole,
         TrimRole, DeleteRole, At
    <3> QED
      BY <3>1, <3>2, AtWork
  <2> QED
    BY <2>1 DEF Seeded
<1>2. CASE Crash
  BY <1>2 DEF Crash, Seeded
<1>3. CASE SeedRole("admin", Admin, "admin keys")
  <2>1. Named(roles', Admin) # {} /\ boot' = "admin keys"
    BY <1>3, SeedRoleMakes
  <2> QED
    BY <2>1 DEF Seeded
<1>4. CASE SeedKeys("admin keys", Admin, Keys, "operator")
  <2>1. Has(Admin, Keys)' /\ boot' = "operator"
    BY <1>4, SeedKeysMakes
  <2> QED
    BY <2>1 DEF Seeded
<1>5. CASE SeedRole("operator", Operator, "operator keys")
  <2>1. Has(Admin, Keys)
    BY <1>5 DEF SeedRole, Seeded
  <2> QED
    <3>1. roles \subseteq roles' /\ Named(roles', Operator) # {} /\ UNCHANGED roleKeys
          /\ boot' = "operator keys"
      BY <1>5, SeedRoleMakes
    <3>2. Has(Admin, Keys)'
      BY <2>1, <3>1, HasKept
    <3> QED
      BY <3>1, <3>2 DEF Seeded
<1>6. CASE SeedKeys("operator keys", Operator, OperatorKeys, "user")
  <2>1. Has(Admin, Keys)
    BY <1>6 DEF SeedKeys, Seeded
  <2> QED
    <3>1. Has(Operator, OperatorKeys)' /\ boot' = "user" /\ Has(Admin, Keys)'
      BY <1>6, <2>1, SeedKeysMakes, KeysAssumption, NamesAssumption, RolesAssumption
    <3> QED
      BY <3>1 DEF Seeded
<1>7. CASE SeedUser
  <2>1. Has(Admin, Keys) /\ Has(Operator, OperatorKeys)
    BY <1>7 DEF SeedUser, Seeded
  <2> QED
    BY <1>7, <2>1, SeedUserMakes, HasKept DEF Seeded
<1>8. CASE SeedJoin
  BY <1>8 DEF SeedJoin, Seeded
<1>9. CASE UNCHANGED vars
  <2>1. UNCHANGED <<boot, roles, roleKeys, users>>
    BY <1>9 DEF vars, tables
  <2> QED
    BY <2>1 DEF Seeded, Has, Named, KeysOf
<1> QED
  BY <1>1, <1>2, <1>3, <1>4, <1>5, <1>6, <1>7, <1>8, <1>9 DEF Next, Seed

LEMMA SeedEnds ==
  ASSUME Types, Seeded, Next, boot # "up", boot' = "up"
  PROVE  Ready'
<1>1. SeedJoin
  <2>1. \A h \in Handlers : ~ Step(h)
    <3> SUFFICES ASSUME NEW h \in Handlers, Step(h) PROVE FALSE
      OBVIOUS
    <3>1. boot' = boot
      BY DEF Step, UserRequest, RoleRequest, Login, Begin, Fail, ReadUser, PickRoles, SaveUser,
         SaveRoles, BindUser, RebindUser, TrimUser, DeleteUser, ReadRole, CreateRole, SaveRole, BindRole,
         TrimRole, DeleteRole
    <3> QED
      BY <3>1
  <2> QED
    BY <2>1 DEF Next, Crash, Seed, SeedRole, SeedKeys, SeedUser
<1>2. Has(Admin, Keys) /\ Has(Operator, OperatorKeys)
  BY <1>1 DEF SeedJoin, Seeded
<1>3. UNCHANGED <<users, roles, roleKeys>>
  BY <1>1 DEF SeedJoin
<1>4. PICK u \in Named(users, Bootstrap), r \in Named(roles, Admin) :
        userRoles' = userRoles \cup {<<u.id, r.id>>}
  BY <1>1 DEF SeedJoin
<1>5. r.builtIn /\ KeysOf(r.id) = Keys
  BY <1>2 DEF Has, Named, Types, TablesFine, Table
<1>6. PICK o \in Named(roles, Operator) : o.builtIn /\ KeysOf(o.id) = OperatorKeys
  BY <1>2 DEF Has
<1>7. KeysOf(r.id)' = Keys /\ KeysOf(o.id)' = OperatorKeys
  BY <1>3, <1>5, <1>6 DEF KeysOf
<1> QED
  BY <1>3, <1>4, <1>5, <1>6, <1>7 DEF Ready, Named

(* Whenever a start ends, the built-in roles have their keys and the       *)
(* bootstrap user has the administrator's role (Seed).                     *)
THEOREM SeedRestoresHolds == Spec => SeedRestores
<1>1. Init => Seeded
  BY DEF Init, Seeded
<1>2. Types /\ Seeded /\ [Next]_vars => Seeded'
  BY SeedInductive
<1>3. Types /\ Seeded /\ [Next]_vars => [boot # "up" /\ boot' = "up" => Ready']_vars
  BY SeedEnds DEF vars
<1> QED
  BY <1>1, <1>2, <1>3, TypesHold, PTL DEF Spec, SeedRestores

-----------------------------------------------------------------------------
(* What a handler owns, and what it has a copy of.                         *)
LEMMA OwnFacts ==
  ASSUME NEW c \in Calls
  PROVE  /\ c.at \in {"read", "pick", "row", "delete"} => Own(c) = {}
         /\ c.op \in {"createUser", "updateUser"} /\ c.at \in {"roles", "bind", "rebind", "trim"} =>
              Own(c) = {User(c.user.id)}
         /\ c.op \in RoleOps /\ c.at \in {"bind", "rebind", "trim"} =>
              Own(c) = {Role(d.row.id) : d \in c.roles}
         /\ c.op = "login" => Own(c) = {}
         /\ \A i : Role(i) \in Own(c) => c.op \in RoleOps
         /\ \A i : User(i) \in Own(c) => c.op \in {"createUser", "updateUser"}
<1>1. c # Nothing
  BY NothingAssumption
<1>2. \A i, j : User(i) # Role(j)
  BY ThingFacts
<1> QED
  BY <1>1, <1>2 DEF Own, RoleOps

LEMMA CopiedFacts ==
  ASSUME NEW c \in Calls, c.at \notin {"read", "delete"}
  PROVE  /\ \A d \in c.roles : Role(d.row.id) \in Copied(c)
         /\ c.user # Nothing => User(c.user.id) \in Copied(c)
BY DEF Copied

(* What becomes of another handler's call.                                 *)
LEMMA OtherCall ==
  ASSUME Types, NEW h \in Handlers, NEW c, NEW things \in SUBSET Things, Become(h, c, things),
         NEW g \in Handlers, g # h
  PROVE  /\ handler'[g] = Nothing <=> handler[g] = Nothing
         /\ Own(handler'[g]) = Own(handler[g])
         /\ handler[g] # Nothing => /\ Alike(handler[g], handler'[g]) /\ handler[g] \in Calls
                                    /\ handler'[g].behind = handler[g].behind \cup (things \cap Copied(handler[g]))
<1>1. handler'[g] = Told(handler[g], things)
  BY BecomeFacts
<1>2. CASE handler[g] = Nothing
  BY <1>1, <1>2 DEF Told
<1>3. CASE handler[g] # Nothing
  <2>1. handler[g] \in Calls
    BY <1>3, AtWork
  <2>2. Alike(handler[g], handler'[g]) /\ handler'[g] # Nothing
        /\ handler'[g].behind = handler[g].behind \cup (things \cap Copied(handler[g]))
    BY <1>1, <2>1, ToldFacts, NothingAssumption DEF Alike
  <2>3. Own(handler'[g]) = Own(handler[g])
    BY <1>3, <2>2 DEF Alike, Own
  <2> QED
    BY <1>3, <2>1, <2>2, <2>3
<1> QED
  BY <1>2, <1>3

(* Somebody else is at a thing, and will see it settled or blurred.        *)
Others(h, thing) == \E g \in Handlers : g # h /\ thing \in Own(handler[g])

LEMMA OthersStay ==
  ASSUME Types, NEW h \in Handlers, NEW c, NEW things \in SUBSET Things, Become(h, c, things),
         NEW thing
  PROVE  /\ Others(h, thing)' <=> Others(h, thing)
         /\ \A g \in Handlers : g # h /\ Others(g, thing) =>
              Others(g, thing)' \/ thing \in Own(handler[h]) \ Own(c)
         /\ Sharp(thing)' => /\ thing \notin blurred' \cup Own(c)
                             /\ \A g \in Handlers : g # h => thing \notin Own(handler[g])
<1>1. \A g \in Handlers : g # h => Own(handler'[g]) = Own(handler[g])
  BY OtherCall
<1>2. Own(handler'[h]) = Own(c)
  BY BecomeFacts
<1> QED
  BY <1>1, <1>2 DEF Others, Sharp

-----------------------------------------------------------------------------
(* Roles are as asked.                                                     *)

(* What a handler that is not behind with a role has of it.                *)
CopyGood(h, c, d) ==
  LET i == d.row.id IN
  /\ c.op \in UserOps => d.row \in roles /\ d.keys = KeysOf(i)
  /\ c.op \in RoleOps /\ c.at \in {"bind", "rebind", "trim"} => d.row \in roles
  /\ c.op \in RoleOps /\ c.at \in {"rebind", "trim"} => d.keys \subseteq KeysOf(i)
  /\ c.op = "updateRole" /\ ~ c.given /\ c.at \in {"row", "bind"} =>
       /\ d.keys = KeysOf(i)
       /\ Role(i) \in blurred \/ asked[Role(i)].keys = KeysOf(i) \/ Others(h, Role(i))

RoleCall(h, c) ==
  c.at \notin {"read", "delete"} /\ ~ NewRole(c) =>
    \A d \in c.roles : Role(d.row.id) \notin c.behind => CopyGood(h, c, d)

RolesInv ==
  /\ RoleAsAsked
  /\ \A h \in Handlers : handler[h] # Nothing => RoleCall(h, handler[h])

(* A step that leaves a role as it is.                                     *)
SameRole(i) ==
  /\ \A r : r.id = i => (r \in roles' <=> r \in roles)
  /\ KeysOf(i)' = KeysOf(i) /\ asked'[Role(i)] = asked[Role(i)]
  /\ Role(i) \in blurred => Role(i) \in blurred'

RoleSettled(i) ==
  \A r \in roles : r.id = i => asked[Role(i)] = [name |-> r.name, keys |-> KeysOf(r.id)]

LEMMA RoleCallKept ==
  ASSUME NEW g, NEW c \in Calls, NEW d, Alike(c, d), RoleCall(g, c), c.behind \subseteq d.behind,
         c.at \notin {"read", "delete"} /\ ~ NewRole(c) =>
           \A e \in c.roles : Role(e.row.id) \notin d.behind =>
             /\ SameRole(e.row.id)
             /\ Others(g, Role(e.row.id)) => Others(g, Role(e.row.id))' \/ Role(e.row.id) \in blurred'
  PROVE  RoleCall(g, d)'
<1>1. NewRole(d) = NewRole(c)
  BY DEF Alike, NewRole
<1> SUFFICES ASSUME d.at \notin {"read", "delete"}, ~ NewRole(d), NEW e \in d.roles,
                    Role(e.row.id) \notin d.behind
             PROVE  CopyGood(g, d, e)'
  BY <1>1 DEF RoleCall
<1>2. e \in c.roles /\ c.at = d.at /\ c.op = d.op /\ c.given = d.given
  BY DEF Alike
<1>3. CopyGood(g, c, e)
  BY <1>1, <1>2 DEF RoleCall
<1>4. /\ SameRole(e.row.id)
      /\ Others(g, Role(e.row.id)) => Others(g, Role(e.row.id))' \/ Role(e.row.id) \in blurred'
  BY <1>1, <1>2
<1> QED
  BY <1>2, <1>3, <1>4 DEF CopyGood, SameRole

LEMMA RoleStep ==
  ASSUME Types, Types', RolesInv, NEW h \in Handlers, NEW c, NEW things \in SUBSET Things,
         Become(h, c, things),
         \A i \in RoleIds : Role(i) \notin things =>
           SameRole(i) /\ (Role(i) \in Own(handler[h]) => Role(i) \in Own(c) \cup blurred'),
         \A i \in RoleIds : Role(i) \in things =>
           Role(i) \in Own(c) \cup blurred' \/ Others(h, Role(i)) \/ RoleSettled(i)',
         c # Nothing => RoleCall(h, c)'
  PROVE  RolesInv'
<1>1. RoleAsAsked'
  <2> SUFFICES ASSUME NEW r, r \in roles', Sharp(Role(r.id))'
               PROVE  asked'[Role(r.id)] = [name |-> r.name, keys |-> KeysOf(r.id)']
    BY DEF RoleAsAsked
  <2>1. r.id \in RoleIds
    BY BoundsAssumption DEF Types, TablesFine, Table, RoleIds, Given
  <2>2. /\ Role(r.id) \notin blurred' \cup Own(c)
        /\ \A g \in Handlers : g # h => Role(r.id) \notin Own(handler[g])
    BY OthersStay
  <2>3. CASE Role(r.id) \in things
    <3>1. RoleSettled(r.id)'
      BY <2>1, <2>2, <2>3 DEF Others
    <3> QED
      BY <3>1 DEF RoleSettled
  <2>4. CASE Role(r.id) \notin things
    <3>1. SameRole(r.id) /\ Role(r.id) \notin Own(handler[h])
      BY <2>1, <2>2, <2>4
    <3>2. r \in roles /\ Sharp(Role(r.id))
      BY <2>2, <3>1 DEF SameRole, Sharp
    <3>3. asked[Role(r.id)] = [name |-> r.name, keys |-> KeysOf(r.id)]
      BY <3>2 DEF RolesInv, RoleAsAsked
    <3> QED
      BY <3>1, <3>3 DEF SameRole
  <2> QED
    BY <2>3, <2>4
<1>2. ASSUME NEW g \in Handlers, handler'[g] # Nothing
      PROVE  RoleCall(g, handler[g])'
  <2> SUFFICES ASSUME NEW d, d = handler'[g], NEW b, b = handler[g]
               PROVE  RoleCall(g, d)'
    OBVIOUS
  <2>1. CASE g = h
    BY <1>2, <2>1, BecomeFacts
  <2>2. CASE g # h
    <3>1. Alike(b, d) /\ b \in Calls /\ b # Nothing /\ d.behind = b.behind \cup (things \cap Copied(b))
      BY <1>2, <2>2, OtherCall
    <3>2. ASSUME b.at \notin {"read", "delete"}, ~ NewRole(b), NEW e \in b.roles, Role(e.row.id) \notin d.behind
          PROVE  /\ SameRole(e.row.id)
                 /\ Others(g, Role(e.row.id)) => Others(g, Role(e.row.id))' \/ Role(e.row.id) \in blurred'
      <4>1. Role(e.row.id) \notin things
        BY <3>1, <3>2, CopiedFacts
      <4>2. e.row.id \in RoleIds
        BY <3>1, <3>2, AtWork, GivenIds DEF Shaped, Types
      <4>3. SameRole(e.row.id) /\ (Role(e.row.id) \in Own(handler[h]) => Role(e.row.id) \in Own(c) \cup blurred')
        BY <4>1, <4>2
      <4>4. Others(g, Role(e.row.id)) =>
              Others(g, Role(e.row.id))' \/ Role(e.row.id) \in Own(handler[h]) \ Own(c)
        BY <2>2, OthersStay
      <4> QED
        BY <4>3, <4>4
    <3>3. RoleCall(g, b)
      BY <3>1 DEF RolesInv
    <3> QED
      BY <3>1, <3>2, <3>3, RoleCallKept
  <2> QED
    BY <2>1, <2>2
<1> QED
  BY <1>1, <1>2 DEF RolesInv

LEMMA UntouchedRole ==
  ASSUME UNCHANGED <<roles, roleKeys>>, NEW i, asked'[Role(i)] = asked[Role(i)],
         Role(i) \in blurred => Role(i) \in blurred'
  PROVE  SameRole(i)
BY DEF SameRole, KeysOf

(* A step that changes no role.                                            *)
LEMMA QuietRoles ==
  ASSUME Types, Types', RolesInv, NEW h \in Handlers, NEW c, NEW things \in SUBSET Things,
         Become(h, c, things), UNCHANGED <<roles, roleKeys>>,
         \A i \in RoleIds : /\ Role(i) \notin things /\ asked'[Role(i)] = asked[Role(i)]
                            /\ Role(i) \in blurred => Role(i) \in blurred'
                            /\ Role(i) \in Own(handler[h]) => Role(i) \in Own(c) \cup blurred',
         c # Nothing => RoleCall(h, c)'
  PROVE  RolesInv'
<1>1. \A i \in RoleIds : SameRole(i)
  BY UntouchedRole
<1> QED
  BY <1>1, RoleStep

LEMMA RolesAtFail ==
  ASSUME Types, Types', RolesInv, NEW h \in Handlers, Fail(h)
  PROVE  RolesInv'
<1>1. Become(h, Nothing, {}) /\ blurred' = blurred \cup Own(handler[h])
      /\ UNCHANGED <<roles, roleKeys, asked>>
  BY DEF Fail, tables
<1> QED
  BY <1>1, QuietRoles

(* Copies just made are as the tables are.                                 *)
LEMMA CopiesGood ==
  ASSUME Types, UNCHANGED <<roles, roleKeys>>, NEW h, NEW c, c.op \in UserOps,
         \A d \in c.roles : \E r \in roles : d = Copy(r)
  PROVE  RoleCall(h, c)'
<1>1. \A d \in c.roles : d.row \in roles /\ d.keys = KeysOf(d.row.id)
  BY CopyFacts
<1>2. \A i : KeysOf(i)' = KeysOf(i)
  BY DEF KeysOf
<1>3. c.op \notin RoleOps /\ c.op # "updateRole"
  BY DEF UserOps, RoleOps
<1> QED
  BY <1>1, <1>2, <1>3 DEF RoleCall, CopyGood

LEMMA RolesAtBegin ==
  ASSUME Types, Types', RolesInv, NEW h \in Handlers, NEW op, NEW at, NEW user, NEW copies,
         Begin(h, op, at, user, copies),
         \/ at \in {"read", "delete"} \/ (op = "createRole" /\ at = "row")
         \/ op \in UserOps /\ \A d \in copies : \E r \in roles : d = Copy(r)
  PROVE  RolesInv'
<1> SUFFICES ASSUME NEW c, c = [op |-> op, at |-> at, user |-> user, roles |-> copies,
                                given |-> op = "createRole", behind |-> {}]
             PROVE  RolesInv'
  OBVIOUS
<1>1. /\ Become(h, c, {}) /\ handler[h] = Nothing /\ UNCHANGED <<roles, roleKeys, asked, blurred>>
      /\ c.op = op /\ c.at = at /\ c.roles = copies
  BY DEF Begin, tables, history
<1>2. Own(handler[h]) = {}
  BY <1>1 DEF Own
<1>3. RoleCall(h, c)'
  <2>1. CASE at \in {"read", "delete"} \/ (op = "createRole" /\ at = "row")
    BY <1>1, <2>1 DEF RoleCall, NewRole
  <2>2. CASE op \in UserOps /\ \A d \in copies : \E r \in roles : d = Copy(r)
    BY <1>1, <2>2, CopiesGood
  <2> QED
    BY <2>1, <2>2
<1> QED
  BY <1>1, <1>2, <1>3, QuietRoles

LEMMA RolesAtRequest ==
  ASSUME Types, Types', RolesInv, NEW h \in Handlers, UserRequest(h) \/ RoleRequest(h) \/ Login(h)
  PROVE  RolesInv'
<1>1. CASE UserRequest(h)
  BY <1>1, RolesAtBegin DEF UserRequest, UserOps
<1>2. CASE RoleRequest(h)
  BY <1>2, RolesAtBegin DEF RoleRequest
<1>3. CASE Login(h)
  <2>1. PICK u \in users : Begin(h, "login", "roles", u, {Copy(r) : r \in RolesOf(u.id)})
    BY <1>3 DEF Login
  <2> SUFFICES ASSUME NEW copies, copies = {Copy(r) : r \in RolesOf(u.id)}
               PROVE  RolesInv'
    OBVIOUS
  <2>2. \A d \in copies : \E r \in roles : d = Copy(r)
    BY DEF RolesOf
  <2>3. Begin(h, "login", "roles", u, copies)
    BY <2>1
  <2> QED
    BY <2>2, <2>3, RolesAtBegin DEF UserOps
<1> QED
  BY <1>1, <1>2, <1>3

LEMMA RolesAtRead ==
  ASSUME Types, Types', RolesInv, NEW h \in Handlers, ReadUser(h) \/ PickRoles(h)
  PROVE  RolesInv'
<1> SUFFICES ASSUME NEW c, c = handler[h]
             PROVE  RolesInv'
  OBVIOUS
<1>1. /\ c # Nothing /\ c \in Calls /\ c.op \in UserOps /\ c.at \in {"read", "pick"}
      /\ UNCHANGED <<roles, roleKeys, asked, blurred>>
  BY AtWork DEF ReadUser, PickRoles, At, Is, tables, history, UserOps, Shaped, Staged, Calls
<1>2. Own(c) = {}
  BY <1>1, OwnFacts
<1>3. PICK d : /\ Become(h, d, {}) /\ d.op = c.op
               /\ \A e \in d.roles : \E r \in roles : e = Copy(r)
  <2>1. CASE ReadUser(h)
    <3>1. PICK u, v, given, b :
            Become(h, [c EXCEPT !.user = v, !.roles = {Copy(r) : r \in RolesOf(u.id)}, !.given = given,
                                !.at = b], {})
      BY <2>1 DEF ReadUser
    <3> SUFFICES ASSUME NEW copies, copies = {Copy(r) : r \in RolesOf(u.id)},
                        NEW d, d = [c EXCEPT !.user = v, !.roles = copies, !.given = given, !.at = b]
                 PROVE  Become(h, d, {}) /\ d.op = c.op /\ \A e \in d.roles : \E r \in roles : e = Copy(r)
      OBVIOUS
    <3>2. \A e \in copies : \E r \in roles : e = Copy(r)
      BY DEF RolesOf
    <3>3. d.op = c.op /\ d.roles = copies
      BY <1>1 DEF Calls
    <3> QED
      BY <3>1, <3>2, <3>3
  <2>2. CASE PickRoles(h)
    <3>1. PICK picked, b : picked \in SUBSET roles /\
            Become(h, [c EXCEPT !.roles = {Copy(r) : r \in picked}, !.at = "row", !.behind = b], {})
      BY <2>2 DEF PickRoles
    <3> SUFFICES ASSUME NEW copies, copies = {Copy(r) : r \in picked},
                        NEW d, d = [c EXCEPT !.roles = copies, !.at = "row", !.behind = b]
                 PROVE  Become(h, d, {}) /\ d.op = c.op /\ \A e \in d.roles : \E r \in roles : e = Copy(r)
      OBVIOUS
    <3>2. \A e \in copies : \E r \in roles : e = Copy(r)
      BY <3>1
    <3>3. d.op = c.op /\ d.roles = copies
      BY <1>1 DEF Calls
    <3> QED
      BY <3>1, <3>2, <3>3
  <2> QED
    BY <2>1, <2>2
<1>4. RoleCall(h, d)'
  BY <1>1, <1>3, CopiesGood
<1> QED
  BY <1>1, <1>2, <1>3, <1>4, QuietRoles

LEMMA RolesAtReadRole ==
  ASSUME Types, Types', RolesInv, NEW h \in Handlers, ReadRole(h)
  PROVE  RolesInv'
<1> SUFFICES ASSUME NEW c, c = handler[h]
             PROVE  RolesInv'
  OBVIOUS
<1>1. /\ c # Nothing /\ c \in Calls /\ c.at = "read" /\ UNCHANGED <<roles, roleKeys, asked, blurred>>
      /\ Own(c) = {}
  BY AtWork, OwnFacts DEF ReadRole, At, tables, history
<1>2. CASE \E e : Become(h, [c EXCEPT !.roles = {e}, !.at = "delete"], {})
  <2>1. PICK e : Become(h, [c EXCEPT !.roles = {e}, !.at = "delete"], {})
    BY <1>2
  <2> SUFFICES ASSUME NEW d, d = [c EXCEPT !.roles = {e}, !.at = "delete"]
               PROVE  RolesInv'
    OBVIOUS
  <2>2. d.at = "delete"
    BY <1>1 DEF Calls
  <2>3. RoleCall(h, d)'
    BY <2>2 DEF RoleCall
  <2> QED
    BY <1>1, <2>1, <2>3, QuietRoles
<1>3. ASSUME c.op = "updateRole", NEW r \in roles, NEW n \in RoleNames, NEW given, NEW keys,
             given \/ keys = KeysOf(r.id),
             Become(h, [c EXCEPT !.roles = {[row |-> [r EXCEPT !.name = n], keys |-> keys]},
                                 !.given = given, !.at = "row"], {})
      PROVE  RolesInv'
  <2> SUFFICES ASSUME NEW e, e = [row |-> [r EXCEPT !.name = n], keys |-> keys],
                      NEW d, d = [c EXCEPT !.roles = {e}, !.given = given, !.at = "row"]
               PROVE  RolesInv'
    OBVIOUS
  <2>1. /\ Become(h, d, {}) /\ d.op = "updateRole" /\ d.roles = {e} /\ d.given = given /\ d.at = "row"
        /\ e.row.id = r.id /\ e.keys = keys
    BY <1>1, <1>3 DEF Calls, Types, TablesFine, Roles
  <2>2. Role(r.id) \in blurred \/ asked[Role(r.id)].keys = KeysOf(r.id) \/ Others(h, Role(r.id))
    <3>1. CASE Sharp(Role(r.id))
      <4>1. asked[Role(r.id)] = [name |-> r.name, keys |-> KeysOf(r.id)]
        BY <3>1 DEF RolesInv, RoleAsAsked
      <4> QED
        BY <4>1
    <3>2. CASE ~ Sharp(Role(r.id))
      BY <1>1, <3>2 DEF Sharp, Others
    <3> QED
      BY <3>1, <3>2
  <2>3. KeysOf(r.id)' = KeysOf(r.id) /\ (Others(h, Role(r.id))' <=> Others(h, Role(r.id)))
    BY <1>1, <2>1, OthersStay DEF KeysOf
  <2>4. RoleCall(h, d)'
    <3> SUFFICES ASSUME ~ given
                 PROVE  CopyGood(h, d, e)'
      BY <2>1 DEF RoleCall, CopyGood, UserOps, RoleOps
    <3> QED
      BY <1>1, <1>3, <2>1, <2>2, <2>3 DEF CopyGood, UserOps, RoleOps
  <2> QED
    BY <1>1, <2>1, <2>4, QuietRoles
<1> QED
  BY <1>2, <1>3 DEF ReadRole, Is

(* What is asked of a user is not asked of a role.                         *)
LEMMA AskUserElsewhere ==
  ASSUME Types, NEW u, NEW what, Ask(User(u), what)
  PROVE  \A i \in RoleIds : asked'[Role(i)] = asked[Role(i)]
BY ThingFacts DEF Ask, Types, AskedFine

LEMMA AskRoleElsewhere ==
  ASSUME Types, NEW r \in RoleIds, NEW what, Ask(Role(r), what)
  PROVE  /\ asked'[Role(r)] = what
         /\ \A i \in RoleIds : i # r => asked'[Role(i)] = asked[Role(i)]
         /\ \A i \in UserIds : asked'[User(i)] = asked[User(i)]
BY ThingFacts DEF Ask, Types, AskedFine

(* A user's request goes on with the roles it has.                         *)
LEMMA RoleCallGoesOn ==
  ASSUME NEW h, NEW c, RoleCall(h, c), c.op \in UserOps, c.at \notin {"read", "delete"},
         NEW d, d.op = c.op, d.roles = c.roles, c.behind \subseteq d.behind,
         \A e \in c.roles : Role(e.row.id) \notin d.behind => SameRole(e.row.id)
  PROVE  RoleCall(h, d)'
<1> SUFFICES ASSUME NEW e \in d.roles, Role(e.row.id) \notin d.behind
             PROVE  CopyGood(h, d, e)'
  BY DEF RoleCall
<1>1. CopyGood(h, c, e)
  BY DEF RoleCall, NewRole, UserOps
<1>2. e.row \in roles /\ e.keys = KeysOf(e.row.id) /\ SameRole(e.row.id)
  BY <1>1 DEF CopyGood
<1> QED
  BY <1>2 DEF CopyGood, SameRole, UserOps, RoleOps

LEMMA RolesAtUser ==
  ASSUME Types, Types', RolesInv, NEW h \in Handlers,
         SaveUser(h) \/ BindUser(h) \/ TrimUser(h) \/ DeleteUser(h)
  PROVE  RolesInv'
<1> SUFFICES ASSUME NEW c, c = handler[h]
             PROVE  RolesInv'
  OBVIOUS
<1>1. /\ c # Nothing /\ c \in Calls /\ UNCHANGED <<roles, roleKeys>>
      /\ c.op \in UserOps \cup {"deleteUser"}
  BY AtWork DEF SaveUser, BindUser, TrimUser, DeleteUser, At, Is, UserOps
<1>2. \A i \in RoleIds : Role(i) \notin Own(c) /\ \A u : Role(i) # User(u)
  BY <1>1, OwnFacts, ThingFacts DEF UserOps, RoleOps
<1>3. \A i \in RoleIds : /\ asked'[Role(i)] = asked[Role(i)]
                         /\ Role(i) \in blurred => Role(i) \in blurred'
  <2>1. asked' = asked \/ \E u, what : Ask(User(u), what)
    BY DEF SaveUser, BindUser, TrimUser, DeleteUser, history
  <2>2. \E u : blurred \ {User(u)} \subseteq blurred'
    BY DEF SaveUser, BindUser, TrimUser, DeleteUser, history, Blur, Settle
  <2> QED
    BY <1>2, <2>1, <2>2, AskUserElsewhere
<1>4. \A i \in RoleIds : SameRole(i)
  BY <1>1, <1>3, UntouchedRole
<1>5. ASSUME NEW d, NEW things \in SUBSET Things, Become(h, d, things),
             \A i \in RoleIds : Role(i) \notin things,
             d # Nothing => /\ d.op = c.op /\ d.roles = c.roles /\ d.behind = c.behind
                            /\ c.op \in UserOps /\ c.at \notin {"read", "delete"}
      PROVE  RolesInv'
  <2>1. ASSUME d # Nothing
        PROVE  RoleCall(h, d)'
    <3>1. RoleCall(h, c)
      BY <1>1 DEF RolesInv
    <3>2. \A e \in c.roles : Role(e.row.id) \notin d.behind => SameRole(e.row.id)
      <4>1. \A e \in c.roles : e.row.id \in RoleIds
        BY <1>1, <1>5, <2>1, AtWork, GivenIds DEF Shaped, NewRole, UserOps, Types
      <4> QED
        BY <1>4, <4>1
    <3> QED
      BY <1>5, <2>1, <3>1, <3>2, RoleCallGoesOn
  <2> QED
    BY <1>1, <1>2, <1>3, <1>5, <2>1, QuietRoles
<1>6. CASE SaveUser(h)
  <2>1. PICK v : Become(h, [c EXCEPT !.user.id = v.id, !.at = "roles"], {User(v.id)}) /\ v.id \in UserIds
    BY <1>6, SaveUserFacts
  <2> SUFFICES ASSUME NEW d, d = [c EXCEPT !.user.id = v.id, !.at = "roles"]
               PROVE  RolesInv'
    OBVIOUS
  <2>2. c.at = "row" /\ c.op \in UserOps
    BY <1>6 DEF SaveUser, At, Is, UserOps
  <2>3. d.op = c.op /\ d.roles = c.roles /\ d.behind = c.behind
    BY <1>1 DEF Calls
  <2>4. {User(v.id)} \in SUBSET Things /\ \A i \in RoleIds : Role(i) \notin {User(v.id)}
    BY <2>1, ThingFacts
  <2>5. Become(h, d, {User(v.id)})
    BY <2>1
  <2> QED
    BY <1>5, <2>2, <2>3, <2>4, <2>5
<1>7. CASE BindUser(h)
  <2> SUFFICES ASSUME NEW d, d = IF c.given THEN [c EXCEPT !.at = "rebind"] ELSE Nothing,
                      NEW thing, thing = User(c.user.id),
                      NEW things, things = IF c.op = "login" THEN Mixed(h, {thing}) ELSE {thing}
               PROVE  RolesInv'
    OBVIOUS
  <2>1. Become(h, d, things)
    BY <1>7 DEF BindUser
  <2>2. c.at = "bind" /\ c.op \in UserOps
    BY <1>7 DEF BindUser, At, Is, UserOps
  <2>3. d # Nothing => d.op = c.op /\ d.roles = c.roles /\ d.behind = c.behind
    BY <1>1 DEF Calls
  <2>4. thing \in Things
    BY <1>1, <2>2, UserWork
  <2>5. things \in SUBSET Things /\ \A i \in RoleIds : Role(i) \notin things
    BY <1>2, <2>4 DEF Mixed
  <2> QED
    BY <1>5, <2>1, <2>2, <2>3, <2>5
<1>8. CASE TrimUser(h) \/ DeleteUser(h)
  <2>1. Become(h, Nothing, {User(c.user.id)})
    BY <1>8 DEF TrimUser, DeleteUser
  <2>2. User(c.user.id) \in Things
    <3>1. (c.at = "trim" /\ c.op \in UserOps) \/ (c.op = "deleteUser" /\ c.at = "delete")
      BY <1>8 DEF TrimUser, DeleteUser, At, Is, UserOps
    <3>2. Given(c.user.id, nextUser)
      BY <1>1, <3>1, AtWork DEF Shaped, NewUser, UserOps
    <3> QED
      BY <3>2, GivenIds, ThingFacts DEF Types
  <2> QED
    BY <1>2, <1>5, <2>1, <2>2
<1> QED
  BY <1>6, <1>7, <1>8

(* What a user's request inserts or overwrites.                            *)
LEMMA MixedFacts ==
  ASSUME NEW h, NEW things, Blur(h, things)
  PROVE  /\ Mixed(h, things) \subseteq blurred' /\ blurred \subseteq blurred'
         /\ \A t : t \in Mixed(h, things) <=> t \in things /\ t \in handler[h].behind
BY DEF Mixed, Blur

LEMMA KeysWithFacts ==
  ASSUME NEW copies \in SUBSET Copies, Apart(copies), roleKeys' = KeysWith(copies), NEW i
  PROVE  /\ (\A d \in copies : d.row.id # i) => KeysOf(i)' = KeysOf(i)
         /\ \A d \in copies : d.row.id = i => KeysOf(i)' = KeysOf(i) \cup d.keys
<1>1. \A k : <<i, k>> \in roleKeys' <=> <<i, k>> \in roleKeys \/ \E d \in copies : d.row.id = i /\ k \in d.keys
  BY DEF KeysWith
<1>2. KeysOf(i)' = {k \in Keys : <<i, k>> \in roleKeys'} /\ KeysOf(i) = {k \in Keys : <<i, k>> \in roleKeys}
  BY DEF KeysOf
<1>3. (\A d \in copies : d.row.id # i) => KeysOf(i)' = KeysOf(i)
  BY <1>1, <1>2
<1>4. ASSUME NEW d \in copies, d.row.id = i
      PROVE  KeysOf(i)' = KeysOf(i) \cup d.keys
  <2>1. \A e \in copies : e.row.id = i => e = d
    BY <1>4 DEF Apart
  <2>2. d.keys \in SUBSET Keys
    BY DEF Copies
  <2> QED
    BY <1>1, <1>2, <1>4, <2>1, <2>2
<1> QED
  BY <1>3, <1>4

LEMMA RolesAtSaveRoles ==
  ASSUME Types, Types', RolesInv, NEW h \in Handlers, SaveRoles(h)
  PROVE  RolesInv'
<1> SUFFICES ASSUME NEW c, c = handler[h], NEW d, d = [c EXCEPT !.at = "bind"],
                    NEW written, written = HeldBy(c.roles)
             PROVE  RolesInv'
  OBVIOUS
<1>1. /\ Shaped(c, nextUser, nextRole) /\ c \in Calls /\ c.op \in UserOps /\ c.at = "roles" /\ c # Nothing
      /\ \/ roles' = RestFrom(c.roles) \cup RowsOf(c.roles)
         \/ roles' = InsertMissing(c.roles)
      /\ roleKeys' = KeysWith(c.roles) /\ Blur(h, written) /\ Become(h, d, Mixed(h, written))
      /\ UNCHANGED asked /\ Mixed(h, written) \in SUBSET Things
  BY SaveRolesFacts
<1>2. /\ d.op = c.op /\ d.at = "bind" /\ d.roles = c.roles /\ d.behind = c.behind
      /\ c.roles \in SUBSET Copies /\ Apart(c.roles)
      /\ \A e \in c.roles : e.row.id \in RoleIds
  BY <1>1, UserWork DEF Calls
<1>3. RoleCall(h, c)
  BY <1>1 DEF RolesInv
<1>4. ASSUME NEW i, \A e \in c.roles : e.row.id # i
      PROVE  SameRole(i)
  <2>1. \A r : r.id = i => (r \in roles' <=> r \in roles)
    <3>1. CASE roles' = RestFrom(c.roles) \cup RowsOf(c.roles)
      BY <1>4, <3>1, HeldFacts DEF RowsOf
    <3>2. CASE roles' = InsertMissing(c.roles)
      BY <1>4, <3>2, MissingFacts
    <3> QED
      BY <1>1, <3>1, <3>2
  <2>2. KeysOf(i)' = KeysOf(i)
    BY <1>1, <1>2, <1>4, KeysWithFacts
  <2> QED
    BY <1>1, <2>1, <2>2, MixedFacts DEF SameRole
<1>5. ASSUME NEW e \in c.roles, Role(e.row.id) \notin c.behind
      PROVE  SameRole(e.row.id)
  <2>1. e.row \in roles /\ e.keys = KeysOf(e.row.id)
    BY <1>1, <1>3, <1>5 DEF RoleCall, CopyGood, NewRole, UserOps
  <2>2. \A r : r.id = e.row.id => (r \in roles' <=> r \in roles)
    <3>1. \A r \in roles : r.id = e.row.id => r = e.row
      BY <2>1 DEF Types, TablesFine, Table
    <3>2. \A r \in roles' : r.id = e.row.id => r = e.row
      <4>1. e.row \in roles'
        <5>1. e.row \in RowsOf(c.roles)
          BY DEF RowsOf
        <5> QED
          BY <1>1, <2>1, <5>1, MissingFacts
      <4> QED
        BY <4>1 DEF Types, TablesFine, Table
    <3>3. e.row \in roles'
      <4>1. e.row \in RowsOf(c.roles)
        BY DEF RowsOf
      <4> QED
        BY <1>1, <2>1, <4>1, MissingFacts
    <3> QED
      BY <2>1, <3>1, <3>2, <3>3
  <2>3. KeysOf(e.row.id)' = KeysOf(e.row.id)
    <3>1. KeysOf(e.row.id)' = KeysOf(e.row.id) \cup e.keys
      BY <1>1, <1>2, KeysWithFacts
    <3> QED
      BY <2>1, <3>1
  <2> QED
    BY <1>1, <2>2, <2>3, MixedFacts DEF SameRole
<1>6. RoleCall(h, d)'
  BY <1>1, <1>2, <1>3, <1>5, RoleCallGoesOn
<1>7. \A i \in RoleIds : Role(i) \notin Mixed(h, written) => SameRole(i)
  <2> SUFFICES ASSUME NEW i \in RoleIds, Role(i) \notin Mixed(h, written)
               PROVE  SameRole(i)
    OBVIOUS
  <2>1. CASE \E e \in c.roles : e.row.id = i
    <3>1. PICK e \in c.roles : e.row.id = i
      BY <2>1
    <3>2. Role(e.row.id) \in written
      BY HeldFacts
    <3>3. Role(e.row.id) \notin c.behind
      BY <1>1, <3>1, <3>2, MixedFacts
    <3> QED
      BY <1>5, <3>1, <3>3
  <2> QED
    BY <1>4, <2>1
<1>8. \A i \in RoleIds : Role(i) \notin Own(c) /\ (Role(i) \in Mixed(h, written) => Role(i) \in blurred')
  BY <1>1, OwnFacts, MixedFacts DEF UserOps, RoleOps
<1> QED
  BY <1>1, <1>6, <1>7, <1>8, RoleStep

LEMMA RolesAtRebind ==
  ASSUME Types, Types', RolesInv, NEW h \in Handlers, RebindUser(h)
  PROVE  RolesInv'
<1>0. ASSUME NEW d, NEW things \in SUBSET Things, Become(h, d, things), RoleCall(h, d)',
             \A i \in RoleIds : Role(i) \notin things => SameRole(i) /\ Role(i) \notin Own(handler[h]),
             \A i \in RoleIds : Role(i) \in things => Role(i) \in blurred'
      PROVE  RolesInv'
  BY <1>0, RoleStep
<1> SUFFICES ASSUME NEW c, c = handler[h], NEW d, d = [c EXCEPT !.at = "trim"],
                    NEW written, written = {User(c.user.id)} \cup {Role(e.row.id) : e \in c.roles},
                    NEW things, things = {User(c.user.id)} \cup Mixed(h, written)
             PROVE  RolesInv'
  OBVIOUS
<1>1. /\ c # Nothing /\ c.op = "updateUser" /\ c.op \in UserOps /\ c.at = "rebind"
      /\ roles' = InsertMissing(c.roles) /\ Blur(h, written) /\ Become(h, d, things)
      /\ UNCHANGED <<roleKeys, asked>>
  BY DEF RebindUser, At, Is, UserOps
<1>2. /\ c \in Calls /\ User(c.user.id) \in Things
      /\ \A e \in c.roles : e.row.id \in RoleIds /\ Role(e.row.id) \in Things
  BY <1>1, UserWork
<1>3. things \in SUBSET Things
  BY <1>1, <1>2, MixedFacts
<1>4. d.op = c.op /\ d.at = "trim" /\ d.roles = c.roles /\ d.behind = c.behind
  BY <1>1, <1>2 DEF Calls
<1>5. RoleCall(h, c)
  BY <1>1 DEF RolesInv
<1>6. ASSUME NEW i, \A e \in c.roles : e.row.id = i => Role(i) \notin c.behind
      PROVE  SameRole(i)
  <2>1. \A r \in roles' : r.id = i => r \in roles
    <3> SUFFICES ASSUME NEW r, r \in roles', r.id = i, r \notin roles
                 PROVE  FALSE
      OBVIOUS
    <3>1. PICK e \in c.roles : r = e.row /\ r.id \notin Ids(roles)
      BY <1>1, MissingFacts
    <3>2. e.row \in roles
      BY <1>1, <1>5, <1>6, <3>1 DEF RoleCall, CopyGood, NewRole
    <3> QED
      BY <3>1, <3>2
  <2>2. KeysOf(i)' = KeysOf(i)
    BY <1>1 DEF KeysOf
  <2> QED
    BY <1>1, <2>1, <2>2, MissingFacts, MixedFacts DEF SameRole
<1>7. RoleCall(h, d)'
  <2>1. \A e \in c.roles : Role(e.row.id) \notin d.behind => SameRole(e.row.id)
    BY <1>4, <1>6
  <2> QED
    BY <1>1, <1>4, <1>5, <2>1, RoleCallGoesOn
<1>8. \A i \in RoleIds : Role(i) \notin things => SameRole(i)
  BY <1>1, <1>6, MixedFacts
<1>9. \A i \in RoleIds : Role(i) \notin Own(c) /\ (Role(i) \in things => Role(i) \in blurred')
  BY <1>1, <1>2, OwnFacts, MixedFacts, ThingFacts DEF UserOps, RoleOps
<1>10. Become(h, d, things)
  BY <1>1
<1> QED
  BY <1>0, <1>3, <1>7, <1>8, <1>9, <1>10

(* A step of a role's request, at the one role it is about.                *)
LEMMA AtOneRole ==
  ASSUME Types, Types', RolesInv, NEW h \in Handlers, NEW c, NEW i \in RoleIds,
         Become(h, c, {Role(i)}),
         \A j \in RoleIds : j # i => SameRole(j) /\ Role(j) \notin Own(handler[h]),
         Role(i) \in Own(c) \cup blurred' \/ Others(h, Role(i)) \/ RoleSettled(i)',
         c # Nothing => RoleCall(h, c)'
  PROVE  RolesInv'
<1>1. {Role(i)} \in SUBSET Things /\ \A j : Role(j) \in {Role(i)} <=> j = i
  BY ThingFacts
<1> QED
  BY <1>1, RoleStep

LEMMA OwnRole ==
  ASSUME NEW c \in Calls, c.op \in RoleOps, c.at \in {"bind", "rebind", "trim"},
         NEW d, c.roles = {d}
  PROVE  Role(d.row.id) \in Own(c) /\ \A j : Role(j) \in Own(c) => j = d.row.id
<1>1. c # Nothing
  BY NothingAssumption
<1> QED
  BY <1>1, ThingFacts DEF Own, RoleOps

LEMMA RolesAtCreate ==
  ASSUME Types, Types', RolesInv, NEW h \in Handlers, CreateRole(h)
  PROVE  RolesInv'
<1> SUFFICES ASSUME NEW c, c = handler[h]
             PROVE  RolesInv'
  OBVIOUS
<1>1. PICK d \in c.roles, e \in Copies :
           /\ e.row.id = nextRole /\ e.row \in Roles
           /\ nextRole \in RoleIds /\ ~ Clash(roles, e.row) /\ roles' = roles \cup {e.row}
           /\ Become(h, [c EXCEPT !.roles = {e}, !.at = "bind"], {Role(nextRole)})
           /\ Ask(Role(nextRole), [name |-> d.row.name, keys |-> {}]) /\ d.row.name \in RoleNames
           /\ nextRole' = nextRole + 1 /\ nextRole \in Nat
           /\ c # Nothing /\ c.op = "createRole" /\ c.at = "row" /\ c \in Calls
           /\ Shaped(c, nextUser, nextRole)
           /\ UNCHANGED <<users, nextUser, userRoles, roleKeys, boot, calls, blurred>>
  BY CreateRoleFacts
<1> SUFFICES ASSUME NEW f, f = [c EXCEPT !.roles = {e}, !.at = "bind"]
             PROVE  RolesInv'
  OBVIOUS
<1>2. f \in Calls /\ f.op = "createRole" /\ f.at = "bind" /\ f.roles = {e}
  BY <1>1 DEF Calls
<1>3. \A j \in RoleIds : j # nextRole => SameRole(j) /\ Role(j) \notin Own(c)
  <2>1. Own(c) = {}
    BY <1>1, OwnFacts
  <2>2. \A j : KeysOf(j)' = KeysOf(j)
    BY <1>1 DEF KeysOf
  <2>3. \A j \in RoleIds : j # nextRole => asked'[Role(j)] = asked[Role(j)]
    BY <1>1, AskRoleElsewhere
  <2> QED
    BY <1>1, <2>1, <2>2, <2>3 DEF SameRole
<1>4. Role(nextRole) \in Own(f)
  BY <1>1, <1>2, OwnRole DEF RoleOps
<1>5. RoleCall(h, f)'
  BY <1>1, <1>2 DEF RoleCall, CopyGood, UserOps, RoleOps
<1>6. Become(h, f, {Role(nextRole)})
  BY <1>1
<1> QED
  BY <1>1, <1>3, <1>4, <1>5, <1>6, AtOneRole

LEMMA RolesAtSave ==
  ASSUME Types, Types', RolesInv, NEW h \in Handlers, SaveRole(h)
  PROVE  RolesInv'
<1> SUFFICES ASSUME NEW c, c = handler[h], NEW f, f = [c EXCEPT !.at = "bind"]
             PROVE  RolesInv'
  OBVIOUS
<1>1. c # Nothing /\ c.op = "updateRole" /\ c.at = "row" /\ UNCHANGED <<roleKeys, asked>>
  BY DEF SaveRole, At, Is
<1>2. PICK d \in c.roles : /\ roles' = Upsert(roles, d.row) /\ Become(h, f, {Role(d.row.id)})
                           /\ Blur(h, {Role(d.row.id)})
  BY DEF SaveRole
<1> DEFINE i == d.row.id
<1>3. c \in Calls /\ c.roles = {d} /\ i \in RoleIds /\ ~ NewRole(c)
  BY <1>1, RoleWork DEF RoleOps, NewRole
<1>4. /\ f \in Calls /\ f.op = "updateRole" /\ f.at = "bind" /\ f.roles = {d}
      /\ f.given = c.given /\ f.behind = c.behind
  BY <1>1, <1>3 DEF Calls
<1>5. \A j : KeysOf(j)' = KeysOf(j)
  BY <1>1 DEF KeysOf
<1>6. \A j \in RoleIds : j # i => SameRole(j) /\ Role(j) \notin Own(c)
  <2>1. Own(c) = {}
    BY <1>1, <1>3, OwnFacts
  <2> QED
    BY <1>1, <1>2, <1>5, <2>1, MixedFacts DEF SameRole, Upsert
<1>7. Role(i) \in Own(f)
  BY <1>4, OwnRole DEF RoleOps
<1>8. RoleCall(h, f)'
  <2> SUFFICES ASSUME Role(i) \notin c.behind
               PROVE  CopyGood(h, f, d)'
    BY <1>4 DEF RoleCall
  <2>1. CopyGood(h, c, d)
    BY <1>1, <1>3 DEF RolesInv, RoleCall
  <2>2. Others(h, Role(i))' <=> Others(h, Role(i))
    BY <1>2, <1>3, ThingFacts, OthersStay
  <2>3. d.row \in roles'
    BY <1>2 DEF Upsert
  <2>4. Role(i) \in blurred => Role(i) \in blurred'
    BY <1>2, MixedFacts
  <2> HIDE DEF i
  <2>5. ~ c.given => /\ d.keys = KeysOf(i)
                     /\ Role(i) \in blurred \/ asked[Role(i)].keys = KeysOf(i) \/ Others(h, Role(i))
    BY <1>1, <2>1 DEF CopyGood, i
  <2> QED
    BY <1>1, <1>4, <1>5, <2>2, <2>3, <2>4, <2>5 DEF CopyGood, UserOps, RoleOps, i
<1> HIDE DEF i
<1>9. Become(h, f, {Role(i)})
  BY <1>2 DEF i
<1> QED
  BY <1>3, <1>6, <1>7, <1>8, <1>9, AtOneRole

LEMMA RolesAtDelete ==
  ASSUME Types, Types', RolesInv, NEW h \in Handlers, DeleteRole(h)
  PROVE  RolesInv'
<1> SUFFICES ASSUME NEW c, c = handler[h]
             PROVE  RolesInv'
  OBVIOUS
<1>1. c # Nothing /\ c.op = "deleteRole" /\ c.at = "delete" /\ UNCHANGED <<roleKeys, asked, blurred>>
  BY DEF DeleteRole, At, Is, history
<1>2. PICK d \in c.roles : roles' = Without(roles, d.row.id) /\ Become(h, Nothing, {Role(d.row.id)})
  BY DEF DeleteRole
<1>3. d.row.id \in RoleIds /\ Own(c) = {}
  BY <1>1, AtWork, OwnFacts, GivenIds DEF Shaped, NewRole, Types
<1>4. \A j : KeysOf(j)' = KeysOf(j)
  BY <1>1 DEF KeysOf
<1>5. \A j \in RoleIds : j # d.row.id => SameRole(j) /\ Role(j) \notin Own(c)
  BY <1>1, <1>2, <1>3, <1>4 DEF SameRole, Without
<1>6. RoleSettled(d.row.id)'
  BY <1>2 DEF RoleSettled, Without
<1> QED
  BY <1>2, <1>3, <1>5, <1>6, AtOneRole

LEMMA RolesAtBind ==
  ASSUME Types, Types', RolesInv, NEW h \in Handlers, BindRole(h)
  PROVE  RolesInv'
<1> SUFFICES ASSUME NEW c, c = handler[h],
                    NEW f, f = IF ~ c.given THEN Nothing
                               ELSE [c EXCEPT !.at = IF @ = "bind" THEN "rebind" ELSE "trim"]
             PROVE  RolesInv'
  OBVIOUS
<1>1. /\ c # Nothing /\ c.op \in RoleOps /\ c.at \in {"bind", "rebind"}
      /\ roleKeys' = KeysWith(c.roles) /\ UNCHANGED roles
  BY DEF BindRole, At, Is, RoleOps
<1>2. PICK d \in c.roles :
       /\ Become(h, f, {Role(d.row.id)}) /\ Blur(h, {Role(d.row.id)})
       /\ IF c.given THEN UNCHANGED asked
          ELSE Ask(Role(d.row.id), [asked[Role(d.row.id)] EXCEPT !.name = d.row.name])
  BY DEF BindRole
<1> SUFFICES ASSUME NEW i, i = d.row.id,
                    NEW what, what = [asked[Role(i)] EXCEPT !.name = d.row.name]
             PROVE  RolesInv'
  OBVIOUS
<1>3. /\ c \in Calls /\ c.roles = {d} /\ d \in Copies /\ i \in RoleIds /\ ~ NewRole(c)
      /\ Shaped(c, nextUser, nextRole) /\ asked[Role(i)] \in RoleAsks /\ d.row.name \in RoleNames
  BY <1>1, RoleWork DEF NewRole
<1>4. /\ KeysOf(i)' = KeysOf(i) \cup d.keys
      /\ \A j : j # i => KeysOf(j)' = KeysOf(j)
  <2>1. c.roles \in SUBSET Copies /\ Apart(c.roles)
    BY <1>3 DEF Apart
  <2> QED
    BY <1>1, <1>3, <2>1, KeysWithFacts
<1>5. /\ c.given => asked' = asked
      /\ ~ c.given => asked'[Role(i)] = what
      /\ \A j \in RoleIds : j # i => asked'[Role(j)] = asked[Role(j)]
  <2>1. ~ c.given => Ask(Role(i), what)
    BY <1>2
  <2> QED
    BY <1>2, <1>3, <2>1, AskRoleElsewhere
<1>6. \A j \in RoleIds : j # i => SameRole(j) /\ Role(j) \notin Own(c)
  <2>1. \A j : Role(j) \in Own(c) => j = i
    BY <1>1, <1>3, OwnRole
  <2> QED
    BY <1>1, <1>2, <1>4, <1>5, <2>1, MixedFacts DEF SameRole
<1>7. Role(i) \notin c.behind => CopyGood(h, c, d)
  BY <1>1, <1>3 DEF RolesInv, RoleCall
<1>8. Become(h, f, {Role(i)})
  BY <1>2
<1>9. CASE c.given
  <2>1. PICK at \in {"rebind", "trim"} : f = [c EXCEPT !.at = at]
    BY <1>9
  <2>2. f \in Calls /\ f.op = c.op /\ f.at = at /\ f.roles = {d} /\ f.given = c.given /\ f.behind = c.behind
    BY <1>3, <2>1 DEF Calls
  <2>3. Role(i) \in Own(f)
    BY <1>1, <2>2, OwnRole
  <2>4. RoleCall(h, f)'
    <3> SUFFICES ASSUME Role(i) \notin c.behind
                 PROVE  CopyGood(h, f, d)'
      BY <2>2 DEF RoleCall
    <3>1. d.row \in roles
      BY <1>1, <1>7 DEF CopyGood
    <3>2. d.keys \subseteq KeysOf(i)'
      BY <1>4
    <3> QED
      BY <1>1, <1>9, <2>2, <3>1, <3>2 DEF CopyGood, UserOps, RoleOps
  <2> QED
    BY <1>3, <1>6, <1>8, <2>3, <2>4, AtOneRole
<1>10. CASE ~ c.given
  <2>1. f = Nothing /\ c.op = "updateRole" /\ c.at = "bind"
    BY <1>1, <1>3, <1>10 DEF Shaped, Staged, RoleOps
  <2>2. CASE Role(i) \in c.behind
    <3>1. Role(i) \in blurred'
      BY <1>2, <2>2, MixedFacts
    <3> QED
      BY <1>3, <1>6, <1>8, <2>1, <3>1, AtOneRole
  <2>3. CASE Role(i) \notin c.behind
    <3>1. /\ d.row \in roles /\ d.keys = KeysOf(i)
          /\ Role(i) \in blurred \/ asked[Role(i)].keys = KeysOf(i) \/ Others(h, Role(i))
      BY <1>7, <1>10, <2>1, <2>3 DEF CopyGood, RoleOps
    <3>2. asked[Role(i)].keys = KeysOf(i) => RoleSettled(i)'
      <4> SUFFICES ASSUME asked[Role(i)].keys = KeysOf(i), NEW r, r \in roles', r.id = i
                   PROVE  asked'[Role(i)] = [name |-> r.name, keys |-> KeysOf(i)']
        BY DEF RoleSettled
      <4>1. r = d.row
        BY <1>1, <3>1 DEF Types, TablesFine, Table
      <4>2. KeysOf(i)' = KeysOf(i)
        BY <1>4, <3>1
      <4>3. what = [name |-> d.row.name, keys |-> KeysOf(i)]
        BY <1>3 DEF RoleAsks
      <4> QED
        BY <1>5, <1>10, <4>1, <4>2, <4>3
    <3>3. Role(i) \in blurred => Role(i) \in blurred'
      BY <1>2, MixedFacts
    <3>4. Role(i) \in Own(f) \cup blurred' \/ Others(h, Role(i)) \/ RoleSettled(i)'
      BY <3>1, <3>2, <3>3
    <3> QED
      BY <1>3, <1>6, <1>8, <2>1, <3>4, AtOneRole
  <2> QED
    BY <2>2, <2>3
<1> QED
  BY <1>9, <1>10

LEMMA RolesAtTrim ==
  ASSUME Types, Types', RolesInv, NEW h \in Handlers, TrimRole(h)
  PROVE  RolesInv'
<1> SUFFICES ASSUME NEW c, c = handler[h]
             PROVE  RolesInv'
  OBVIOUS
<1>1. c # Nothing /\ c.op \in RoleOps /\ c.at = "trim" /\ UNCHANGED roles
  BY DEF TrimRole, At, Is, RoleOps
<1>2. PICK d \in c.roles :
       /\ roleKeys' = {k \in roleKeys : k[1] = d.row.id => k[2] \in d.keys}
       /\ Become(h, Nothing, {Role(d.row.id)}) /\ Settle(h, Role(d.row.id))
       /\ Ask(Role(d.row.id), [name |-> d.row.name, keys |-> d.keys])
  BY DEF TrimRole
<1> SUFFICES ASSUME NEW i, i = d.row.id, NEW what, what = [name |-> d.row.name, keys |-> d.keys]
             PROVE  RolesInv'
  OBVIOUS
<1>3. c \in Calls /\ c.roles = {d} /\ d.keys \in SUBSET Keys /\ i \in RoleIds /\ ~ NewRole(c)
  BY <1>1, RoleWork DEF NewRole
<1>4. KeysOf(i)' = KeysOf(i) \cap d.keys /\ \A j : j # i => KeysOf(j)' = KeysOf(j)
  <2>1. \A j, k : <<j, k>> \in roleKeys' <=> <<j, k>> \in roleKeys /\ (j = i => k \in d.keys)
    BY <1>2
  <2> QED
    BY <2>1 DEF KeysOf
<1>5. asked'[Role(i)] = what /\ \A j \in RoleIds : j # i => asked'[Role(j)] = asked[Role(j)]
  BY <1>2, <1>3, AskRoleElsewhere
<1>6. IF Role(i) \in c.behind THEN blurred' = blurred \cup {Role(i)} ELSE blurred' = blurred \ {Role(i)}
  BY <1>2 DEF Settle
<1>7. \A j \in RoleIds : j # i => SameRole(j) /\ Role(j) \notin Own(c)
  <2>1. \A j : Role(j) \in Own(c) => j = i
    BY <1>1, <1>3, OwnRole
  <2>2. \A j : j # i => Role(j) # Role(i)
    BY ThingFacts
  <2> QED
    BY <1>1, <1>4, <1>5, <1>6, <2>1, <2>2 DEF SameRole
<1>8. Role(i) \in blurred' \/ RoleSettled(i)'
  <2> SUFFICES ASSUME Role(i) \notin c.behind
               PROVE  RoleSettled(i)'
    BY <1>6
  <2>1. d.row \in roles /\ d.keys \subseteq KeysOf(i)
    BY <1>1, <1>3 DEF RolesInv, RoleCall, CopyGood
  <2> SUFFICES ASSUME NEW r, r \in roles', r.id = i
               PROVE  asked'[Role(i)] = [name |-> r.name, keys |-> KeysOf(i)']
    BY DEF RoleSettled
  <2>2. r = d.row
    BY <1>1, <2>1 DEF Types, TablesFine, Table
  <2>3. KeysOf(i)' = d.keys
    BY <1>4, <2>1
  <2> QED
    BY <1>5, <2>2, <2>3
<1> QED
  BY <1>2, <1>3, <1>7, <1>8, AtOneRole

(* A start, while nobody is served.                                        *)
LEMMA RolesIdle ==
  ASSUME Types, RoleAsAsked, \A h \in Handlers : handler[h] = Nothing /\ handler'[h] = Nothing,
         Types', \A i \in RoleIds : RoleSettled(i)' \/ SameRole(i)
  PROVE  RolesInv'
<1>1. \A h \in Handlers : Own(handler[h]) = {}
  BY DEF Own
<1>2. RoleAsAsked'
  <2> SUFFICES ASSUME NEW r, r \in roles', Sharp(Role(r.id))'
               PROVE  asked'[Role(r.id)] = [name |-> r.name, keys |-> KeysOf(r.id)']
    BY DEF RoleAsAsked
  <2>1. r.id \in RoleIds
    BY BoundsAssumption DEF Types, TablesFine, Table, RoleIds, Given
  <2>2. Role(r.id) \notin blurred'
    BY DEF Sharp
  <2>3. CASE SameRole(r.id)
    <3>1. r \in roles /\ Sharp(Role(r.id))
      BY <1>1, <2>2, <2>3 DEF SameRole, Sharp
    <3>2. asked[Role(r.id)] = [name |-> r.name, keys |-> KeysOf(r.id)]
      BY <3>1 DEF RoleAsAsked
    <3> QED
      BY <2>3, <3>2 DEF SameRole
  <2>4. CASE RoleSettled(r.id)'
    BY <2>4 DEF RoleSettled
  <2> QED
    BY <2>1, <2>2, <2>3, <2>4
<1> QED
  BY <1>2 DEF RolesInv

LEMMA RolesAtSeedRole ==
  ASSUME Types, Types', RoleAsAsked, \A h \in Handlers : handler[h] = Nothing /\ handler'[h] = Nothing,
         NEW stage, NEW name, NEW next, SeedRole(stage, name, next)
  PROVE  RolesInv'
<1>1. UNCHANGED <<roleKeys, blurred>>
  BY DEF SeedRole
<1>2. CASE UNCHANGED <<roles, asked>>
  BY <1>1, <1>2, UntouchedRole, RolesIdle
<1>3. CASE /\ nextRole <= MaxRoles /\ Ask(Role(nextRole), [name |-> name, keys |-> {}])
           /\ roles' = roles \cup {[id |-> nextRole, name |-> name, builtIn |-> TRUE]}
  <2> SUFFICES ASSUME NEW n, n = nextRole, NEW x, x = [id |-> n, name |-> name, builtIn |-> TRUE],
                      NEW what, what = [name |-> name, keys |-> {}]
               PROVE  RolesInv'
    OBVIOUS
  <2>1. n \in RoleIds
    BY <1>3, GivenIds, BoundsAssumption DEF RoleIds, Types
  <2>2. /\ asked'[Role(n)] = what /\ roles' = roles \cup {x} /\ x.id = n /\ x.name = name
        /\ \A i \in RoleIds : i # n => asked'[Role(i)] = asked[Role(i)]
    BY <1>3, <2>1, AskRoleElsewhere
  <2>3. KeysOf(n)' = {} /\ \A i : KeysOf(i)' = KeysOf(i)
    <3>1. \A k \in roleKeys : k[1] # n
      BY DEF Types, TablesFine, Given
    <3>2. \A k : <<n, k>> \notin roleKeys
      BY <3>1
    <3> QED
      BY <1>1, <3>2 DEF KeysOf
  <2>4. \A i \in RoleIds : i # n => SameRole(i)
    BY <1>1, <2>2, <2>3 DEF SameRole
  <2>5. RoleSettled(n)'
    <3>1. \A r \in roles : r.id # n
      BY DEF Types, TablesFine, Table, Given
    <3> QED
      BY <2>2, <2>3, <3>1 DEF RoleSettled
  <2> QED
    BY <2>4, <2>5, RolesIdle
<1> QED
  BY <1>2, <1>3 DEF SeedRole

LEMMA RolesAtSeedKeys ==
  ASSUME Types, Types', RoleAsAsked, \A h \in Handlers : handler[h] = Nothing /\ handler'[h] = Nothing,
         NEW stage, NEW name, NEW keys \in SUBSET Keys, NEW next, SeedKeys(stage, name, keys, next)
  PROVE  RolesInv'
<1>1. PICK r \in Named(roles, name) :
       /\ roles' = Upsert(roles, [r EXCEPT !.builtIn = TRUE])
       /\ roleKeys' = {k \in roleKeys : k[1] # r.id} \cup ({r.id} \X keys)
       /\ Ask(Role(r.id), [name |-> name, keys |-> keys])
       /\ blurred' = blurred \ {Role(r.id)}
  BY DEF SeedKeys
<1> SUFFICES ASSUME NEW x, x = [r EXCEPT !.builtIn = TRUE], NEW what, what = [name |-> name, keys |-> keys]
             PROVE  RolesInv'
  OBVIOUS
<1>2. r \in roles /\ r.id \in RoleIds /\ x.id = r.id /\ x.name = name
  <2>1. r \in roles /\ r.name = name
    BY DEF Named
  <2> QED
    BY <2>1, BoundsAssumption DEF Types, TablesFine, Table, Given, RoleIds, Roles
<1>3. /\ asked'[Role(r.id)] = what
      /\ \A i \in RoleIds : i # r.id => asked'[Role(i)] = asked[Role(i)]
  BY <1>1, <1>2, AskRoleElsewhere
<1>4. KeysOf(r.id)' = keys /\ \A i : i # r.id => KeysOf(i)' = KeysOf(i)
  <2>1. \A i, k : <<i, k>> \in roleKeys' <=> IF i = r.id THEN k \in keys ELSE <<i, k>> \in roleKeys
    BY <1>1
  <2> QED
    BY <2>1 DEF KeysOf
<1>5. \A i \in RoleIds : i # r.id => SameRole(i)
  BY <1>1, <1>2, <1>3, <1>4, ThingFacts DEF SameRole, Upsert
<1>6. RoleSettled(r.id)'
  BY <1>1, <1>2, <1>3, <1>4 DEF RoleSettled, Upsert
<1> QED
  BY <1>5, <1>6, RolesIdle

LEMMA RolesAtSeed ==
  ASSUME Types, Types', RolesInv, Seed
  PROVE  RolesInv'
<1>1. RoleAsAsked /\ \A h \in Handlers : handler[h] = Nothing /\ handler'[h] = Nothing
  BY DEF RolesInv, Types, Starting, Seed, SeedRole, SeedKeys, SeedUser, SeedJoin
<1>2. CASE SeedUser \/ SeedJoin
  <2>1. UNCHANGED <<roles, roleKeys, blurred>> /\ (asked' = asked \/ \E u, what : Ask(User(u), what))
    BY <1>2 DEF SeedUser, SeedJoin
  <2>2. \A i \in RoleIds : SameRole(i)
    BY <2>1, UntouchedRole, AskUserElsewhere
  <2> QED
    BY <1>1, <2>2, RolesIdle
<1>3. Keys \in SUBSET Keys /\ OperatorKeys \in SUBSET Keys
  BY KeysAssumption
<1> QED
  BY <1>1, <1>2, <1>3, RolesAtSeedRole, RolesAtSeedKeys DEF Seed

(* A crash ends every request, and blurs what they were at.                *)
LEMMA RolesAtCrash ==
  ASSUME RolesInv, Crash
  PROVE  RolesInv'
<1>1. /\ \A h \in Handlers : handler'[h] = Nothing
      /\ blurred' = blurred \cup UNION {Own(handler[h]) : h \in Handlers}
      /\ UNCHANGED <<roles, roleKeys, asked>>
  BY DEF Crash, tables
<1>2. \A thing : Sharp(thing)' => Sharp(thing)
  BY <1>1 DEF Sharp
<1>3. \A i : KeysOf(i)' = KeysOf(i)
  BY <1>1 DEF KeysOf
<1> QED
  BY <1>1, <1>2, <1>3 DEF RolesInv, RoleAsAsked

LEMMA RolesInductive ==
  ASSUME Types, Types', RolesInv, [Next]_vars
  PROVE  RolesInv'
<1>1. ASSUME NEW h \in Handlers, Step(h)
      PROVE  RolesInv'
  BY <1>1, RolesAtFail, RolesAtRequest, RolesAtRead, RolesAtReadRole, RolesAtUser, RolesAtSaveRoles,
     RolesAtRebind, RolesAtCreate, RolesAtSave, RolesAtBind, RolesAtTrim, RolesAtDelete DEF Step
<1>2. CASE UNCHANGED vars
  <2>1. UNCHANGED <<roles, roleKeys, handler, asked, blurred>>
    BY <1>2 DEF vars, tables, history
  <2> QED
    BY <2>1 DEF RolesInv, RoleAsAsked, RoleCall, CopyGood, Others, Sharp, KeysOf
<1> QED
  BY <1>1, <1>2, RolesAtSeed, RolesAtCrash DEF Next

(* A role has the name and the keys last asked for, whatever copies of it  *)
(* logins and user updates write back, unless requests that change it      *)
(* overlapped or one did not finish (updateRole, updateUser, login).       *)
THEOREM RoleAsAskedHolds == Spec => []RoleAsAsked
<1>1. Init => RolesInv
  BY DEF Init, RolesInv, RoleAsAsked
<1>2. Types /\ Types' /\ RolesInv /\ [Next]_vars => RolesInv'
  BY RolesInductive
<1>3. RolesInv => RoleAsAsked
  BY DEF RolesInv
<1> QED
  BY <1>1, <1>2, <1>3, TypesHold, PTL DEF Spec

-----------------------------------------------------------------------------
(* Users are as asked.                                                     *)

(* What a handler that is not behind with a user has of it.                *)
UserGood(h, c) ==
  LET i == c.user.id IN
  /\ c.op = "updateUser" /\ c.at \in {"pick", "row"} => i \in Ids(users)
  /\ c.op = "updateUser" /\ c.at \notin {"pick", "row"} => c.user \in users
  /\ c.op = "createUser" => Bound(i) = {} /\ \E u \in users : u.id = i /\ u.active
  /\ c.op = "login" \/ (c.op = "updateUser" /\ (~ c.given \/ c.at = "trim")) =>
       \A d \in c.roles : d.row.id \in Bound(i)
  /\ c.op = "updateUser" /\ ~ c.given =>
       User(i) \in blurred \/ asked[User(i)].roles = Bound(i) \/ Others(h, User(i))

UserCall(h, c) ==
  c.op \in UserOps /\ c.at # "read" /\ ~ NewUser(c) /\ User(c.user.id) \notin c.behind => UserGood(h, c)

UsersInv ==
  /\ UserAsAsked
  /\ \A h \in Handlers : handler[h] # Nothing => UserCall(h, handler[h])

(* A step that leaves a user as it is.                                     *)
SameUser(i) ==
  /\ \A u : u.id = i => (u \in users' <=> u \in users)
  /\ Bound(i)' = Bound(i) /\ asked'[User(i)] = asked[User(i)]
  /\ User(i) \in blurred => User(i) \in blurred'

UserSettled(i) ==
  \A u \in users : u.id = i => Stored(asked[User(i)]) = [active |-> u.active, roles |-> Bound(u.id)]

LEMMA UserCallKept ==
  ASSUME NEW g, NEW c \in Calls, NEW d, UserCall(g, c), d.op = c.op, d.user = c.user, d.roles = c.roles,
         d.given = c.given, c.behind \subseteq d.behind, NewUser(d) = NewUser(c), d.at # "read",
         c.op \in UserOps /\ c.at # "read" /\ ~ NewUser(c) /\ User(c.user.id) \notin d.behind =>
           /\ SameUser(c.user.id)
           /\ Others(g, User(c.user.id)) => Others(g, User(c.user.id))' \/ User(c.user.id) \in blurred',
         d.at = c.at \/ (c.at = "roles" /\ d.at = "bind")
  PROVE  UserCall(g, d)'
<1> SUFFICES ASSUME c.op \in UserOps, ~ NewUser(c), User(c.user.id) \notin d.behind, c.at # "read"
             PROVE  UserGood(g, d)'
  BY DEF UserCall
<1>1. UserGood(g, c)
  BY DEF UserCall
<1>2. /\ SameUser(c.user.id)
      /\ Others(g, User(c.user.id)) => Others(g, User(c.user.id))' \/ User(c.user.id) \in blurred'
  OBVIOUS
<1>3. c.user.id \in Ids(users) => c.user.id \in Ids(users)'
  BY <1>2 DEF SameUser, Ids
<1>4. c.user \in users => c.user \in users'
  BY <1>2 DEF SameUser
<1> QED
  BY <1>1, <1>2, <1>3, <1>4 DEF UserGood, SameUser

LEMMA UserStep ==
  ASSUME Types, Types', UsersInv, NEW h \in Handlers, NEW c, NEW things \in SUBSET Things,
         Become(h, c, things),
         \A i \in UserIds : User(i) \notin things =>
           SameUser(i) /\ (User(i) \in Own(handler[h]) => User(i) \in Own(c) \cup blurred'),
         \A i \in UserIds : User(i) \in things =>
           User(i) \in Own(c) \cup blurred' \/ Others(h, User(i)) \/ UserSettled(i)',
         c # Nothing => UserCall(h, c)'
  PROVE  UsersInv'
<1>1. UserAsAsked'
  <2> SUFFICES ASSUME NEW u, u \in users', Sharp(User(u.id))'
               PROVE  Stored(asked'[User(u.id)]) = [active |-> u.active, roles |-> Bound(u.id)']
    BY DEF UserAsAsked
  <2>1. u.id \in UserIds
    BY BoundsAssumption DEF Types, TablesFine, Table, UserIds, Given
  <2>2. /\ User(u.id) \notin blurred' \cup Own(c)
        /\ \A g \in Handlers : g # h => User(u.id) \notin Own(handler[g])
    BY OthersStay
  <2>3. CASE User(u.id) \in things
    <3>1. UserSettled(u.id)'
      BY <2>1, <2>2, <2>3 DEF Others
    <3> QED
      BY <3>1 DEF UserSettled
  <2>4. CASE User(u.id) \notin things
    <3>1. SameUser(u.id) /\ User(u.id) \notin Own(handler[h])
      BY <2>1, <2>2, <2>4
    <3>2. u \in users /\ Sharp(User(u.id))
      BY <2>2, <3>1 DEF SameUser, Sharp
    <3>3. Stored(asked[User(u.id)]) = [active |-> u.active, roles |-> Bound(u.id)]
      BY <3>2 DEF UsersInv, UserAsAsked
    <3> QED
      BY <3>1, <3>3 DEF SameUser
  <2> QED
    BY <2>3, <2>4
<1>2. ASSUME NEW g \in Handlers, handler'[g] # Nothing
      PROVE  UserCall(g, handler[g])'
  <2> SUFFICES ASSUME NEW d, d = handler'[g], NEW b, b = handler[g]
               PROVE  UserCall(g, d)'
    OBVIOUS
  <2>1. CASE g = h
    BY <1>2, <2>1, BecomeFacts
  <2>2. CASE g # h
    <3>1. Alike(b, d) /\ b \in Calls /\ b # Nothing /\ d.behind = b.behind \cup (things \cap Copied(b))
      BY <1>2, <2>2, OtherCall
    <3>2. ASSUME b.op \in UserOps, b.at # "read", ~ NewUser(b), User(b.user.id) \notin d.behind
          PROVE  /\ SameUser(b.user.id)
                 /\ Others(g, User(b.user.id)) => Others(g, User(b.user.id))' \/ User(b.user.id) \in blurred'
      <4>1. b.user # Nothing /\ b.user.id \in UserIds /\ b.at # "delete"
        BY <3>1, <3>2, AtWork, GivenIds, NothingAssumption DEF Shaped, Staged, Types, UserOps
      <4>2. User(b.user.id) \notin things
        BY <3>1, <3>2, <4>1, CopiedFacts
      <4>3. /\ SameUser(b.user.id)
            /\ User(b.user.id) \in Own(handler[h]) => User(b.user.id) \in Own(c) \cup blurred'
        BY <4>1, <4>2
      <4>4. Others(g, User(b.user.id)) =>
              Others(g, User(b.user.id))' \/ User(b.user.id) \in Own(handler[h]) \ Own(c)
        BY <2>2, OthersStay
      <4> QED
        BY <4>3, <4>4
    <3>3. UserCall(g, b)
      BY <3>1 DEF UsersInv
    <3>4. CASE b.at = "read"
      BY <3>1, <3>4 DEF UserCall, Alike
    <3>5. CASE b.at # "read"
      BY <3>1, <3>2, <3>3, <3>5, UserCallKept DEF Alike, NewUser
    <3> QED
      BY <3>4, <3>5
  <2> QED
    BY <2>1, <2>2
<1> QED
  BY <1>1, <1>2 DEF UsersInv

LEMMA UntouchedUser ==
  ASSUME UNCHANGED <<users, userRoles>>, NEW i, asked'[User(i)] = asked[User(i)],
         User(i) \in blurred => User(i) \in blurred'
  PROVE  SameUser(i)
BY DEF SameUser, Bound

(* A step that changes no user.                                            *)
LEMMA QuietUsers ==
  ASSUME Types, Types', UsersInv, NEW h \in Handlers, NEW c, NEW things \in SUBSET Things,
         Become(h, c, things), UNCHANGED <<users, userRoles>>,
         \A i \in UserIds : /\ User(i) \notin things /\ asked'[User(i)] = asked[User(i)]
                            /\ User(i) \in blurred => User(i) \in blurred'
                            /\ User(i) \in Own(handler[h]) => User(i) \in Own(c) \cup blurred',
         c # Nothing => UserCall(h, c)'
  PROVE  UsersInv'
<1>1. \A i \in UserIds : SameUser(i)
  BY UntouchedUser
<1> QED
  BY <1>1, UserStep

LEMMA UsersAtFail ==
  ASSUME Types, Types', UsersInv, NEW h \in Handlers, Fail(h)
  PROVE  UsersInv'
<1>1. Become(h, Nothing, {}) /\ blurred' = blurred \cup Own(handler[h])
      /\ UNCHANGED <<users, userRoles, asked>>
  BY DEF Fail, tables
<1> QED
  BY <1>1, QuietUsers

LEMMA UsersAtBegin ==
  ASSUME Types, Types', UsersInv, NEW h \in Handlers, NEW op, NEW at, NEW user, NEW copies,
         Begin(h, op, at, user, copies),
         \/ at = "read" \/ op \notin UserOps \/ (op = "createUser" /\ at = "pick")
         \/ op = "login" /\ \A d \in copies : d.row.id \in Bound(user.id)
  PROVE  UsersInv'
<1> SUFFICES ASSUME NEW c, c = [op |-> op, at |-> at, user |-> user, roles |-> copies,
                                given |-> op = "createRole", behind |-> {}]
             PROVE  UsersInv'
  OBVIOUS
<1>1. /\ Become(h, c, {}) /\ handler[h] = Nothing /\ UNCHANGED <<users, userRoles, asked, blurred>>
      /\ c.op = op /\ c.at = at /\ c.user = user /\ c.roles = copies
  BY DEF Begin, tables, history
<1>2. Own(handler[h]) = {}
  BY <1>1 DEF Own
<1>3. UserCall(h, c)'
  <2>1. CASE at = "read" \/ op \notin UserOps \/ (op = "createUser" /\ at = "pick")
    BY <1>1, <2>1 DEF UserCall, NewUser
  <2>2. CASE op = "login" /\ \A d \in copies : d.row.id \in Bound(user.id)
    <3>1. Bound(user.id)' = Bound(user.id)
      BY <1>1 DEF Bound
    <3> QED
      BY <1>1, <2>2, <3>1 DEF UserCall, UserGood
  <2> QED
    BY <2>1, <2>2
<1> QED
  BY <1>1, <1>2, <1>3, QuietUsers

(* The roles of a user are bound to it.                                    *)
LEMMA RolesBound ==
  ASSUME Types, NEW u, NEW copies, copies = {Copy(r) : r \in RolesOf(u)}
  PROVE  \A d \in copies : d.row.id \in Bound(u)
<1>1. \A r \in RolesOf(u) : r.id \in Bound(u)
  BY GivenIds DEF RolesOf, Bound, Types, TablesFine, Table
<1> QED
  BY <1>1 DEF Copy

LEMMA UsersAtRequest ==
  ASSUME Types, Types', UsersInv, NEW h \in Handlers, UserRequest(h) \/ RoleRequest(h) \/ Login(h)
  PROVE  UsersInv'
<1>1. CASE UserRequest(h)
  BY <1>1, UsersAtBegin DEF UserRequest, UserOps
<1>2. CASE RoleRequest(h)
  BY <1>2, UsersAtBegin DEF RoleRequest, UserOps
<1>3. CASE Login(h)
  <2>1. PICK u \in users : Begin(h, "login", "roles", u, {Copy(r) : r \in RolesOf(u.id)})
    BY <1>3 DEF Login
  <2> SUFFICES ASSUME NEW copies, copies = {Copy(r) : r \in RolesOf(u.id)}
               PROVE  UsersInv'
    OBVIOUS
  <2>2. \A d \in copies : d.row.id \in Bound(u.id)
    BY RolesBound
  <2>3. Begin(h, "login", "roles", u, copies)
    BY <2>1
  <2> QED
    BY <2>2, <2>3, UsersAtBegin
<1> QED
  BY <1>1, <1>2, <1>3

LEMMA UsersAtRead ==
  ASSUME Types, Types', UsersInv, NEW h \in Handlers, ReadUser(h)
  PROVE  UsersInv'
<1> SUFFICES ASSUME NEW c, c = handler[h]
             PROVE  UsersInv'
  OBVIOUS
<1>1. /\ c # Nothing /\ c \in Calls /\ c.op = "updateUser" /\ c.at = "read"
      /\ UNCHANGED <<users, userRoles, asked, blurred>>
  BY AtWork DEF ReadUser, At, Is, tables, history
<1>2. Own(c) = {}
  BY <1>1, OwnFacts
<1>3. PICK u \in users, n \in UserNames, active \in BOOLEAN, given \in BOOLEAN :
        Become(h, [c EXCEPT !.user = [u EXCEPT !.name = n, !.active = active],
                            !.roles = {Copy(r) : r \in RolesOf(u.id)}, !.given = given,
                            !.at = IF given THEN "pick" ELSE "row"], {})
  BY DEF ReadUser
<1> SUFFICES ASSUME NEW copies, copies = {Copy(r) : r \in RolesOf(u.id)},
                    NEW v, v = [u EXCEPT !.name = n, !.active = active],
                    NEW b, b = IF given THEN "pick" ELSE "row",
                    NEW d, d = [c EXCEPT !.user = v, !.roles = copies, !.given = given, !.at = b],
                    NEW i, i = u.id
             PROVE  UsersInv'
  OBVIOUS
<1>4. /\ d.op = "updateUser" /\ d.user = v /\ d.roles = copies /\ d.given = given /\ d.at \in {"pick", "row"}
      /\ v.id = i
  BY <1>1 DEF Calls, Types, TablesFine, Users
<1>5. Become(h, d, {})
  BY <1>3
<1>6. User(i) \in blurred \/ asked[User(i)].roles = Bound(i) \/ Others(h, User(i))
  <2>1. CASE Sharp(User(i))
    <3>1. Stored(asked[User(i)]) = [active |-> u.active, roles |-> Bound(i)]
      BY <2>1 DEF UsersInv, UserAsAsked
    <3> QED
      BY <3>1 DEF Stored
  <2>2. CASE ~ Sharp(User(i))
    BY <1>1, <1>2, <2>2 DEF Sharp, Others
  <2> QED
    BY <2>1, <2>2
<1>7. Bound(i)' = Bound(i) /\ (Others(h, User(i))' <=> Others(h, User(i)))
  BY <1>1, <1>5, OthersStay DEF Bound
<1>8. i \in Ids(users)' /\ \A e \in copies : e.row.id \in Bound(i)
  BY <1>1, RolesBound DEF Ids
<1>9. UserCall(h, d)'
  <2>1. UserGood(h, d)'
    <3>1. d.user.id = i /\ d.op # "login" /\ d.op # "createUser"
      BY <1>4
    <3>2. \A e \in d.roles : e.row.id \in Bound(i)'
      BY <1>4, <1>7, <1>8
    <3>3. User(i) \in blurred' \/ asked'[User(i)].roles = Bound(i)' \/ Others(h, User(i))'
      BY <1>1, <1>6, <1>7
    <3> QED
      BY <1>4, <1>8, <3>1, <3>2, <3>3 DEF UserGood
  <2> QED
    BY <2>1 DEF UserCall
<1> QED
  BY <1>1, <1>2, <1>5, <1>9, QuietUsers

LEMMA UsersAtPick ==
  ASSUME Types, Types', UsersInv, NEW h \in Handlers, PickRoles(h)
  PROVE  UsersInv'
<1> SUFFICES ASSUME NEW c, c = handler[h]
             PROVE  UsersInv'
  OBVIOUS
<1>1. /\ c # Nothing /\ c \in Calls /\ c.at = "pick" /\ Shaped(c, nextUser, nextRole)
      /\ UNCHANGED <<users, userRoles, asked, blurred>>
  BY AtWork DEF PickRoles, At, tables, history
<1>2. Own(c) = {}
  BY <1>1, OwnFacts
<1>3. PICK picked \in SUBSET roles :
        Become(h, [c EXCEPT !.roles = {Copy(r) : r \in picked}, !.at = "row",
                            !.behind = @ \cap {User(u) : u \in UserIds}], {})
  BY DEF PickRoles
<1> SUFFICES ASSUME NEW copies, copies = {Copy(r) : r \in picked},
                    NEW b, b = c.behind \cap {User(u) : u \in UserIds},
                    NEW d, d = [c EXCEPT !.roles = copies, !.at = "row", !.behind = b]
             PROVE  UsersInv'
  OBVIOUS
<1>4. d.op = c.op /\ d.user = c.user /\ d.given = c.given /\ d.at = "row" /\ d.behind = b
  BY <1>1 DEF Calls
<1>5. Become(h, d, {})
  BY <1>3
<1>6. UserCall(h, d)'
  <2> SUFFICES ASSUME d.op \in UserOps, ~ NewUser(d), User(d.user.id) \notin d.behind
               PROVE  UserGood(h, d)'
    BY DEF UserCall
  <2>1. c.op = "updateUser" /\ c.given
    BY <1>1, <1>4 DEF NewUser, Shaped, Staged, UserOps
  <2>2. c.user.id \in UserIds
    BY <1>1, <2>1, GivenIds DEF Shaped, NewUser, UserOps, Types
  <2>3. User(c.user.id) \notin c.behind
    BY <1>4, <2>2
  <2>4. c.user.id \in Ids(users)
    BY <1>1, <2>1, <2>3 DEF UsersInv, UserCall, UserGood, NewUser, UserOps
  <2> QED
    BY <1>1, <1>4, <2>1, <2>4 DEF UserGood, Ids
<1> QED
  BY <1>1, <1>2, <1>5, <1>6, QuietUsers

(* A role's request leaves the users alone.                                *)
LEMMA UsersAtRole ==
  ASSUME Types, Types', UsersInv, NEW h \in Handlers,
         \/ ReadRole(h) \/ CreateRole(h) \/ SaveRole(h) \/ BindRole(h) \/ TrimRole(h) \/ DeleteRole(h)
  PROVE  UsersInv'
<1>0. ASSUME NEW d, NEW i \in RoleIds, NEW things \in SUBSET {Role(i)}, Become(h, d, things),
             handler[h] # Nothing, handler[h].op \in RoleOps \cup {"deleteRole"},
             d = Nothing \/ d.op = handler[h].op,
             UNCHANGED <<users, userRoles>>, asked' = asked \/ \E what : Ask(Role(i), what),
             blurred \ {Role(i)} \subseteq blurred'
      PROVE  UsersInv'
  <2>1. \A u \in UserIds : User(u) # Role(i) /\ User(u) \notin Own(handler[h])
    BY <1>0, AtWork, OwnFacts, ThingFacts DEF RoleOps
  <2>2. things \in SUBSET Things /\ \A u \in UserIds : User(u) \notin things
    BY <2>1, ThingFacts
  <2>3. \A u \in UserIds : asked'[User(u)] = asked[User(u)]
    BY <1>0, AskRoleElsewhere
  <2>4. d # Nothing => UserCall(h, d)'
    BY <1>0 DEF UserCall, UserOps, RoleOps
  <2> QED
    BY <1>0, <2>1, <2>2, <2>3, <2>4, QuietUsers
<1> SUFFICES ASSUME NEW c, c = handler[h]
             PROVE  UsersInv'
  OBVIOUS
<1>1. c # Nothing /\ c \in Calls /\ UNCHANGED <<users, userRoles>>
  BY AtWork DEF ReadRole, CreateRole, SaveRole, BindRole, TrimRole, DeleteRole, At, tables
<1>2. CASE ReadRole(h)
  <2>1. PICK r \in roles :
          \/ /\ Is(h, {"deleteRole"})
             /\ Become(h, [c EXCEPT !.roles = {Copy(r)}, !.at = "delete"], {})
          \/ /\ Is(h, {"updateRole"})
             /\ \E e, given : Become(h, [c EXCEPT !.roles = {e}, !.given = given, !.at = "row"], {})
    BY <1>2 DEF ReadRole
  <2>2. r.id \in RoleIds /\ c.op \in RoleOps \cup {"deleteRole"} /\ UNCHANGED <<asked, blurred>>
    BY <1>2, <2>1, GivenIds DEF ReadRole, Is, history, RoleOps, Types, TablesFine, Table
  <2>3. PICK d : Become(h, d, {}) /\ d.op = c.op
    <3>1. ASSUME NEW d, \/ d = [c EXCEPT !.roles = {Copy(r)}, !.at = "delete"]
                        \/ \E e, given : d = [c EXCEPT !.roles = {e}, !.given = given, !.at = "row"]
          PROVE  d.op = c.op
      BY <1>1, <3>1 DEF Calls
    <3> QED
      BY <2>1, <3>1
  <2> QED
    BY <1>0, <1>1, <2>2, <2>3
<1>3. CASE CreateRole(h)
  <2>1. PICK e, what :
          /\ Become(h, [c EXCEPT !.roles = {e}, !.at = "bind"], {Role(nextRole)})
          /\ Ask(Role(nextRole), what) /\ nextRole \in RoleIds /\ c.op = "createRole" /\ UNCHANGED blurred
    BY <1>3, CreateRoleFacts
  <2> SUFFICES ASSUME NEW d, d = [c EXCEPT !.roles = {e}, !.at = "bind"], NEW n, n = nextRole
               PROVE  UsersInv'
    OBVIOUS
  <2>2. d.op = c.op
    BY <1>1 DEF Calls
  <2> QED
    BY <1>0, <1>1, <2>1, <2>2 DEF RoleOps
<1>4. CASE SaveRole(h)
  <2>1. PICK e \in c.roles : Become(h, [c EXCEPT !.at = "bind"], {Role(e.row.id)}) /\ Blur(h, {Role(e.row.id)})
    BY <1>4 DEF SaveRole
  <2>2. c.op = "updateRole" /\ c.at = "row" /\ UNCHANGED asked
    BY <1>4 DEF SaveRole, At, Is
  <2> SUFFICES ASSUME NEW d, d = [c EXCEPT !.at = "bind"]
               PROVE  UsersInv'
    OBVIOUS
  <2>3. d.op = c.op
    BY <1>1 DEF Calls
  <2>4. e.row.id \in RoleIds
    BY <1>1, <2>2, RoleWork DEF RoleOps, NewRole
  <2>5. c.op \in RoleOps /\ blurred \ {Role(e.row.id)} \subseteq blurred'
    BY <2>1, <2>2, MixedFacts DEF RoleOps
  <2> QED
    BY <1>0, <1>1, <2>1, <2>2, <2>3, <2>4, <2>5
<1>5. CASE BindRole(h) \/ TrimRole(h)
  <2>1. PICK e \in c.roles, at \in {"rebind", "trim"} :
          /\ Become(h, IF ~ c.given \/ c.at = "trim" THEN Nothing ELSE [c EXCEPT !.at = at], {Role(e.row.id)})
          /\ Blur(h, {Role(e.row.id)}) \/ Settle(h, Role(e.row.id))
          /\ asked' = asked \/ \E what : Ask(Role(e.row.id), what)
    BY <1>5 DEF BindRole, TrimRole, At
  <2>2. c.op \in RoleOps /\ c.at \in {"bind", "rebind", "trim"}
    BY <1>5 DEF BindRole, TrimRole, At, Is, RoleOps
  <2> SUFFICES ASSUME NEW d, d = IF ~ c.given \/ c.at = "trim" THEN Nothing ELSE [c EXCEPT !.at = at]
               PROVE  UsersInv'
    OBVIOUS
  <2>3. d = Nothing \/ d.op = c.op
    BY <1>1 DEF Calls
  <2>4. e.row.id \in RoleIds
    BY <1>1, <2>2, RoleWork DEF NewRole
  <2>5. blurred \ {Role(e.row.id)} \subseteq blurred'
    BY <2>1, MixedFacts DEF Settle
  <2> QED
    BY <1>0, <1>1, <2>1, <2>2, <2>3, <2>4, <2>5
<1>6. CASE DeleteRole(h)
  <2>1. PICK e \in c.roles : Become(h, Nothing, {Role(e.row.id)})
    BY <1>6 DEF DeleteRole
  <2>2. c.op = "deleteRole" /\ c.at = "delete" /\ UNCHANGED <<asked, blurred>>
    BY <1>6 DEF DeleteRole, At, Is, history
  <2>3. e.row.id \in RoleIds
    BY <1>1, <2>2, AtWork, GivenIds DEF Shaped, NewRole, Types
  <2> QED
    BY <1>0, <1>1, <2>1, <2>2, <2>3
<1> QED
  BY <1>2, <1>3, <1>4, <1>5, <1>6

(* A step of a user's request, at the one user it is about.                *)
LEMMA AtOneUser ==
  ASSUME Types, Types', UsersInv, NEW h \in Handlers, NEW c, NEW i \in UserIds,
         NEW things \in SUBSET Things, Become(h, c, things),
         \A j \in UserIds : User(j) \in things => j = i,
         User(i) \notin things =>
           SameUser(i) /\ (User(i) \in Own(handler[h]) => User(i) \in Own(c) \cup blurred'),
         \A j \in UserIds : j # i => SameUser(j) /\ User(j) \notin Own(handler[h]),
         User(i) \in things => User(i) \in Own(c) \cup blurred' \/ Others(h, User(i)) \/ UserSettled(i)',
         c # Nothing => UserCall(h, c)'
  PROVE  UsersInv'
<1>1. \A j \in UserIds : User(j) \notin things =>
        SameUser(j) /\ (User(j) \in Own(handler[h]) => User(j) \in Own(c) \cup blurred')
  OBVIOUS
<1>2. \A j \in UserIds : User(j) \in things =>
        User(j) \in Own(c) \cup blurred' \/ Others(h, User(j)) \/ UserSettled(j)'
  OBVIOUS
<1> QED
  BY <1>1, <1>2, UserStep

LEMMA OwnUser ==
  ASSUME NEW c \in Calls
  PROVE  /\ c.op \in {"createUser", "updateUser"} /\ c.at \in {"roles", "bind", "rebind", "trim"} =>
              User(c.user.id) \in Own(c)
         /\ \A j : User(j) \in Own(c) => j = c.user.id
<1>1. c # Nothing
  BY NothingAssumption
<1> QED
  BY <1>1, ThingFacts DEF Own

LEMMA UsersAtSave ==
  ASSUME Types, Types', UsersInv, NEW h \in Handlers, SaveUser(h)
  PROVE  UsersInv'
<1> SUFFICES ASSUME NEW c, c = handler[h], NEW v, v = NewRow(c), NEW i, i = v.id,
                    NEW d, d = [c EXCEPT !.user.id = i, !.at = "roles"]
             PROVE  UsersInv'
  OBVIOUS
<1>1. /\ Shaped(c, nextUser, nextRole) /\ c \in Calls /\ c.op \in {"createUser", "updateUser"}
      /\ c.at = "row" /\ c # Nothing /\ v \in Users /\ i \in UserIds
      /\ users' = Upsert(users, v) /\ Become(h, d, {User(i)}) /\ Blur(h, {User(i)})
      /\ c.op = "createUser" => i = nextUser /\ Ask(User(i), [active |-> c.user.active, new |-> TRUE, roles |-> {}])
      /\ c.op = "updateUser" => asked' = asked /\ i = c.user.id
      /\ UNCHANGED userRoles
  BY SaveUserFacts
<1>2. /\ d \in Calls /\ d.op = c.op /\ d.at = "roles" /\ d.user = [c.user EXCEPT !.id = i]
      /\ d.user.id = i /\ d.roles = c.roles /\ d.given = c.given /\ d.behind = c.behind
      /\ c.user \in Users
  <2>1. c.user \in Users /\ [c.user EXCEPT !.id = i] \in Users
    BY <1>1 DEF Shaped, UserOps, Users
  <2> QED
    BY <1>1, <2>1 DEF Calls, Users
<1>3. /\ \A j : Bound(j)' = Bound(j)
      /\ \A j \in UserIds : j # i => asked'[User(j)] = asked[User(j)]
  BY <1>1, ThingFacts DEF Bound, Ask, Types, AskedFine
<1>4. \A j \in UserIds : j # i => SameUser(j) /\ User(j) \notin Own(c)
  <2>1. Own(c) = {}
    BY <1>1, OwnFacts
  <2> QED
    BY <1>1, <1>3, <2>1, MixedFacts DEF SameUser, Upsert
<1>5. User(i) \in Own(d)
  BY <1>1, <1>2, OwnUser
<1>6. UserCall(h, d)'
  <2> SUFFICES ASSUME User(i) \notin c.behind
               PROVE  UserGood(h, d)'
    BY <1>2 DEF UserCall
  <2>1. v \in users'
    BY <1>1 DEF Upsert
  <2>2. CASE c.op = "createUser"
    <3>1. Bound(i)' = {}
      <4>1. \A j \in userRoles : j[1] # i
        BY <1>1, <2>2 DEF Types, TablesFine, Given
      <4>2. \A r : <<i, r>> \notin userRoles
        BY <4>1
      <4> QED
        BY <1>3, <4>2 DEF Bound
    <3>2. v.id = i /\ v.active
      BY <1>2, <2>2 DEF NewRow, Users
    <3> QED
      BY <1>2, <2>1, <2>2, <3>1, <3>2 DEF UserGood
  <2>3. CASE c.op = "updateUser"
    <3>1. UserGood(h, c)
      BY <1>1, <2>3 DEF UsersInv, UserCall, UserOps, NewUser
    <3>2. Others(h, User(i))' <=> Others(h, User(i))
      BY <1>1, ThingFacts, OthersStay
    <3>3. ~ c.given => /\ \A e \in c.roles : e.row.id \in Bound(i)
                       /\ User(i) \in blurred \/ asked[User(i)].roles = Bound(i) \/ Others(h, User(i))
      BY <1>1, <2>3, <3>1 DEF UserGood
    <3>4. User(i) \in blurred => User(i) \in blurred'
      BY <1>1, MixedFacts
    <3>5. v = d.user
      <4>1. i \in Ids(users)
        BY <1>1, <2>3, <3>1 DEF UserGood
      <4> QED
        BY <1>1, <1>2, <2>3, <4>1 DEF NewRow, Users
    <3> QED
      BY <1>1, <1>2, <1>3, <2>1, <2>3, <3>2, <3>3, <3>4, <3>5 DEF UserGood
  <2> QED
    BY <1>1, <2>2, <2>3
<1>7. {User(i)} \in SUBSET Things /\ \A j \in UserIds : User(j) \in {User(i)} => j = i
  BY <1>1, ThingFacts
<1> QED
  BY <1>1, <1>4, <1>5, <1>6, <1>7, AtOneUser

LEMMA UsersAtSaveRoles ==
  ASSUME Types, Types', UsersInv, NEW h \in Handlers, SaveRoles(h)
  PROVE  UsersInv'
<1> SUFFICES ASSUME NEW c, c = handler[h], NEW d, d = [c EXCEPT !.at = "bind"],
                    NEW written, written = HeldBy(c.roles)
             PROVE  UsersInv'
  OBVIOUS
<1>1. /\ c \in Calls /\ c.op \in UserOps /\ c.at = "roles" /\ c # Nothing
      /\ Blur(h, written) /\ Become(h, d, Mixed(h, written))
      /\ UNCHANGED <<users, nextUser, nextRole, userRoles, boot, calls, asked>>
      /\ Mixed(h, written) \in SUBSET Things
  BY SaveRolesFacts
<1>2. /\ d.op = c.op /\ d.at = "bind" /\ d.user = c.user /\ d.roles = c.roles /\ d \in Calls
      /\ d.given = c.given /\ d.behind = c.behind /\ c.user.id \in UserIds /\ ~ NewUser(c)
  BY <1>1, UserWork DEF Calls
<1>3. \A i \in UserIds : User(i) \notin Mixed(h, written)
  BY <1>1, MixedFacts, HeldFacts, ThingFacts
<1>4. \A i \in UserIds : SameUser(i)
  BY <1>1, UntouchedUser, MixedFacts
<1>5. UserCall(h, d)'
  <2>1. UserCall(h, c)
    BY <1>1 DEF UsersInv
  <2>2. Others(h, User(c.user.id)) => Others(h, User(c.user.id))'
    BY <1>1, OthersStay
  <2>3. NewUser(c) = FALSE /\ NewUser(d) = FALSE
    BY <1>1, <1>2 DEF NewUser
  <2> QED
    BY <1>1, <1>2, <1>4, <2>1, <2>2, <2>3, UserCallKept
<1>6. \A i \in UserIds : User(i) \in Own(c) => User(i) \in Own(d)
  <2>1. \A i \in UserIds : User(i) \in Own(c) => i = c.user.id /\ c.op \in {"createUser", "updateUser"}
    BY <1>1, OwnFacts, OwnUser
  <2> QED
    BY <1>1, <1>2, <2>1, OwnUser
<1> QED
  BY <1>1, <1>3, <1>4, <1>5, <1>6, UserStep

LEMMA UsersAtDelete ==
  ASSUME Types, Types', UsersInv, NEW h \in Handlers, DeleteUser(h)
  PROVE  UsersInv'
<1> SUFFICES ASSUME NEW c, c = handler[h], NEW i, i = c.user.id
             PROVE  UsersInv'
  OBVIOUS
<1>1. /\ c # Nothing /\ c.op = "deleteUser" /\ c.at = "delete"
      /\ users' = Without(users, i) /\ Become(h, Nothing, {User(i)})
      /\ UNCHANGED <<userRoles, asked, blurred>>
  BY DEF DeleteUser, At, Is, history
<1>2. i \in UserIds /\ Own(c) = {} /\ User(i) \in Things
  BY <1>1, AtWork, GivenIds, ThingFacts, OwnFacts DEF Shaped, NewUser, Types
<1>3. \A j : Bound(j)' = Bound(j)
  BY <1>1 DEF Bound
<1>4. \A j \in UserIds : j # i => SameUser(j) /\ User(j) \notin Own(c)
  BY <1>1, <1>2, <1>3 DEF SameUser, Without
<1>5. UserSettled(i)'
  BY <1>1 DEF UserSettled, Without
<1>6. {User(i)} \in SUBSET Things /\ \A j \in UserIds : User(j) \in {User(i)} => j = i
  BY <1>2, ThingFacts
<1> QED
  BY <1>1, <1>2, <1>4, <1>5, <1>6, AtOneUser

(* Joining a user to roles.                                                *)
LEMMA JoinFacts ==
  ASSUME NEW i, NEW copies, \A d \in copies : d.row.id \in RoleIds, userRoles' = RolesWith(i, copies)
  PROVE  /\ \A j : j # i => Bound(j)' = Bound(j)
         /\ \A r : r \in Bound(i)' <=> r \in Bound(i) \/ \E d \in copies : r = d.row.id
         /\ (\A d \in copies : d.row.id \in Bound(i)) => Bound(i)' = Bound(i)
<1>1. \A j, r : <<j, r>> \in userRoles' <=> <<j, r>> \in userRoles \/ (j = i /\ \E d \in copies : r = d.row.id)
  BY DEF RolesWith
<1>2. /\ \A j : j # i => Bound(j)' = Bound(j)
      /\ \A r : r \in Bound(i)' <=> r \in Bound(i) \/ \E d \in copies : r = d.row.id
  BY <1>1 DEF Bound
<1>3. ASSUME \A d \in copies : d.row.id \in Bound(i)
      PROVE  Bound(i)' = Bound(i)
  <2>1. \A r : r \in Bound(i)' <=> r \in Bound(i)
    BY <1>2, <1>3
  <2> QED
    BY <2>1 DEF Bound
<1> QED
  BY <1>2, <1>3

LEMMA UsersAtBind ==
  ASSUME Types, Types', UsersInv, NEW h \in Handlers, BindUser(h)
  PROVE  UsersInv'
<1> SUFFICES ASSUME NEW c, c = handler[h], NEW i, i = c.user.id, NEW thing, thing = User(i),
                    NEW d, d = IF c.given THEN [c EXCEPT !.at = "rebind"] ELSE Nothing,
                    NEW things, things = IF c.op = "login" THEN Mixed(h, {thing}) ELSE {thing},
                    NEW ids, ids = {e.row.id : e \in c.roles},
                    NEW what, what = [active |-> c.user.active, new |-> c.op = "createUser",
                                      roles  |-> IF c.op = "createUser" THEN ids ELSE asked[thing].roles]
             PROVE  UsersInv'
  OBVIOUS
<1>1. /\ c # Nothing /\ c.op \in UserOps /\ c.at = "bind"
      /\ userRoles' = RolesWith(i, c.roles) /\ Blur(h, {thing}) /\ Become(h, d, things)
      /\ IF c.given \/ c.op = "login" THEN UNCHANGED asked ELSE Ask(thing, what)
      /\ UNCHANGED users
  BY DEF BindUser, At, Is, UserOps
<1>2. /\ Shaped(c, nextUser, nextRole) /\ c \in Calls /\ i \in UserIds /\ thing \in Things /\ ~ NewUser(c)
      /\ asked[thing] \in UserAsks /\ \A e \in c.roles : e.row.id \in RoleIds
  BY <1>1, UserWork
<1>3. /\ \A j : j # i => Bound(j)' = Bound(j)
      /\ \A r : r \in Bound(i)' <=> r \in Bound(i) \/ \E e \in c.roles : r = e.row.id
      /\ (\A e \in c.roles : e.row.id \in Bound(i)) => Bound(i)' = Bound(i)
  BY <1>1, <1>2, JoinFacts
<1>4. /\ c.given \/ c.op = "login" => asked' = asked
      /\ ~ (c.given \/ c.op = "login") => asked'[thing] = what
      /\ \A j \in UserIds : j # i => asked'[User(j)] = asked[User(j)]
  BY <1>1, <1>2, ThingFacts DEF Ask, Types, AskedFine
<1>5. \A j \in UserIds : j # i => SameUser(j) /\ User(j) \notin Own(c)
  BY <1>1, <1>2, <1>3, <1>4, MixedFacts, OwnUser DEF SameUser
<1>6. things \in SUBSET Things /\ \A j \in UserIds : User(j) \in things => j = i
  BY <1>2, ThingFacts DEF Mixed
<1>7. thing \notin c.behind => UserGood(h, c)
  BY <1>1, <1>2 DEF UsersInv, UserCall
<1>8. thing \in c.behind => thing \in blurred'
  BY <1>1, MixedFacts
<1>9. CASE c.op = "login"
  <2>1. d = Nothing /\ thing \notin Own(c) /\ asked' = asked
    BY <1>2, <1>4, <1>9, OwnFacts DEF Shaped, Staged
  <2>2. CASE thing \in c.behind
    <3>1. thing \in things
      BY <1>9, <2>2 DEF Mixed
    <3> QED
      BY <1>1, <1>2, <1>5, <1>6, <1>8, <2>1, <2>2, <3>1, AtOneUser
  <2>3. CASE thing \notin c.behind
    <3>1. \A e \in c.roles : e.row.id \in Bound(i)
      BY <1>7, <1>9, <2>3 DEF UserGood
    <3>2. Bound(i)' = Bound(i)
      BY <1>3, <3>1
    <3>3. SameUser(i)
      BY <1>1, <2>1, <3>2, MixedFacts DEF SameUser
    <3>4. thing \notin things
      BY <1>9, <2>3 DEF Mixed
    <3> QED
      BY <1>1, <1>2, <1>5, <1>6, <2>1, <3>3, <3>4, AtOneUser
  <2> QED
    BY <2>2, <2>3
<1>10. CASE c.given
  <2>1. c.op = "updateUser" /\ d = [c EXCEPT !.at = "rebind"] /\ things = {thing}
    BY <1>1, <1>2, <1>10 DEF Shaped, Staged, UserOps
  <2>2. d \in Calls /\ d.op = "updateUser" /\ d.at = "rebind" /\ d.user = c.user /\ d.given = c.given
        /\ d.behind = c.behind
    BY <1>2, <2>1 DEF Calls
  <2>3. thing \in Own(d)
    BY <2>2, OwnUser
  <2>4. UserCall(h, d)'
    <3> SUFFICES ASSUME thing \notin c.behind
                 PROVE  UserGood(h, d)'
      BY <2>2 DEF UserCall
    <3>1. c.user \in users
      BY <1>1, <1>7, <2>1 DEF UserGood
    <3> QED
      BY <1>1, <1>10, <2>2, <3>1 DEF UserGood
  <2> QED
    BY <1>1, <1>2, <1>5, <1>6, <2>1, <2>3, <2>4, AtOneUser
<1>11. CASE ~ c.given /\ c.op # "login"
  <2>1. d = Nothing /\ things = {thing} /\ asked'[thing] = what
    BY <1>4, <1>11
  <2>2. thing \in blurred' \/ Others(h, thing) \/ UserSettled(i)'
    <3> SUFFICES ASSUME thing \notin c.behind, ~ Others(h, thing), thing \notin blurred
                 PROVE  UserSettled(i)'
      BY <1>1, <1>8, MixedFacts
    <3>1. UserGood(h, c) /\ c.user \in Users
      BY <1>1, <1>2, <1>7, UserWork
    <3> SUFFICES ASSUME NEW u \in users', u.id = i
                 PROVE  Stored(what) = [active |-> u.active, roles |-> Bound(i)']
      BY <2>1 DEF UserSettled
    <3>3. Stored(what) = [active |-> u.active, roles |-> Bound(i)']
      <4>1. CASE c.op = "createUser"
        <5>1. Bound(i) = {}
          BY <3>1, <4>1 DEF UserGood
        <5>2. \A r : r \in ids <=> \E e \in c.roles : r = e.row.id
          OBVIOUS
        <5>3. Bound(i)' = ids
          BY <1>3, <5>1, <5>2
        <5>4. u.active = TRUE
          <6>1. PICK v \in users : v.id = i /\ v.active
            BY <3>1, <4>1 DEF UserGood
          <6>2. u = v /\ u \in Users
            BY <1>1, <6>1 DEF Types, TablesFine, Table
          <6> QED
            BY <6>1, <6>2 DEF Users
        <5>5. what.new = TRUE /\ what.roles = ids
          BY <4>1
        <5> QED
          BY <5>3, <5>4, <5>5 DEF Stored
      <4>2. CASE c.op = "updateUser"
        <5>1. asked[thing].roles = Bound(i) /\ \A e \in c.roles : e.row.id \in Bound(i)
          BY <1>11, <3>1, <4>2 DEF UserGood
        <5>2. Bound(i)' = Bound(i)
          BY <1>3, <5>1
        <5>3. u = c.user
          BY <1>1, <1>11, <3>1, <4>2 DEF UserGood, Types, TablesFine, Table
        <5> QED
          BY <3>1, <4>2, <5>1, <5>2, <5>3 DEF Stored, Users
      <4> QED
        BY <1>1, <1>11, <4>1, <4>2 DEF UserOps
    <3> QED
      BY <3>3
  <2> QED
    BY <1>1, <1>2, <1>5, <1>6, <2>1, <2>2, AtOneUser
<1> QED
  BY <1>9, <1>10, <1>11

LEMMA UsersAtRebind ==
  ASSUME Types, Types', UsersInv, NEW h \in Handlers, RebindUser(h)
  PROVE  UsersInv'
<1> SUFFICES ASSUME NEW c, c = handler[h], NEW d, d = [c EXCEPT !.at = "trim"], NEW i, i = c.user.id,
                    NEW written, written = {User(i)} \cup {Role(e.row.id) : e \in c.roles},
                    NEW things, things = {User(i)} \cup Mixed(h, written)
             PROVE  UsersInv'
  OBVIOUS
<1>1. /\ c # Nothing /\ c.op = "updateUser" /\ c.op \in UserOps /\ c.at = "rebind"
      /\ userRoles' = RolesWith(i, c.roles) /\ Blur(h, written) /\ Become(h, d, things)
      /\ UNCHANGED <<users, asked>>
  BY DEF RebindUser, At, Is, UserOps
<1>2. /\ Shaped(c, nextUser, nextRole) /\ c \in Calls /\ i \in UserIds /\ User(i) \in Things /\ ~ NewUser(c)
      /\ \A e \in c.roles : e.row.id \in RoleIds /\ Role(e.row.id) \in Things
  BY <1>1, UserWork
<1>3. d \in Calls /\ d.op = c.op /\ d.at = "trim" /\ d.user = c.user /\ d.roles = c.roles
      /\ d.given = c.given /\ d.behind = c.behind /\ c.given
  BY <1>1, <1>2 DEF Calls, Shaped, Staged
<1>4. things \in SUBSET Things /\ User(i) \in things /\ \A j \in UserIds : User(j) \in things => j = i
  BY <1>1, <1>2, MixedFacts, ThingFacts
<1>5. /\ \A j : j # i => Bound(j)' = Bound(j)
      /\ \A e \in c.roles : e.row.id \in Bound(i)'
  BY <1>1, <1>2, JoinFacts
<1>6. \A j \in UserIds : j # i => SameUser(j) /\ User(j) \notin Own(c)
  BY <1>1, <1>2, <1>5, MixedFacts, OwnUser DEF SameUser
<1>7. User(i) \in Own(d)
  BY <1>1, <1>3, OwnUser
<1>8. UserCall(h, d)'
  <2> SUFFICES ASSUME User(i) \notin c.behind
               PROVE  UserGood(h, d)'
    BY <1>3 DEF UserCall
  <2>1. c.user \in users
    BY <1>1, <1>2 DEF UsersInv, UserCall, UserGood
  <2> QED
    BY <1>1, <1>3, <1>5, <2>1 DEF UserGood
<1> QED
  BY <1>1, <1>2, <1>4, <1>6, <1>7, <1>8, AtOneUser

LEMMA UsersAtTrim ==
  ASSUME Types, Types', UsersInv, NEW h \in Handlers, TrimUser(h)
  PROVE  UsersInv'
<1> SUFFICES ASSUME NEW c, c = handler[h], NEW i, i = c.user.id, NEW ids, ids = {e.row.id : e \in c.roles},
                    NEW what, what = [active |-> c.user.active, new |-> FALSE, roles |-> ids]
             PROVE  UsersInv'
  OBVIOUS
<1>1. /\ c # Nothing /\ c.op = "updateUser" /\ c.op \in UserOps /\ c.at = "trim"
      /\ userRoles' = {j \in userRoles : j[1] = i => j[2] \in ids}
      /\ Become(h, Nothing, {User(i)}) /\ Settle(h, User(i)) /\ Ask(User(i), what)
      /\ UNCHANGED users
  BY DEF TrimUser, At, Is, UserOps
<1>2. c \in Calls /\ i \in UserIds /\ ids \in SUBSET RoleIds /\ ~ NewUser(c)
  BY <1>1, UserWork
<1>3. /\ \A j : j # i => Bound(j)' = Bound(j)
      /\ Bound(i)' = Bound(i) \cap ids
  <2>1. \A j, r : <<j, r>> \in userRoles' <=> <<j, r>> \in userRoles /\ (j = i => r \in ids)
    BY <1>1
  <2> QED
    BY <2>1 DEF Bound
<1>4. /\ asked'[User(i)] = what
      /\ \A j \in UserIds : j # i => asked'[User(j)] = asked[User(j)]
  BY <1>1, <1>2, ThingFacts DEF Ask, Types, AskedFine
<1>5. IF User(i) \in c.behind THEN blurred' = blurred \cup {User(i)} ELSE blurred' = blurred \ {User(i)}
  BY <1>1 DEF Settle
<1>6. \A j \in UserIds : j # i => SameUser(j) /\ User(j) \notin Own(c)
  BY <1>1, <1>2, <1>3, <1>4, <1>5, OwnUser, ThingFacts DEF SameUser
<1>7. User(i) \in blurred' \/ UserSettled(i)'
  <2> SUFFICES ASSUME User(i) \notin c.behind
               PROVE  UserSettled(i)'
    BY <1>5
  <2>1. c.user \in users /\ \A e \in c.roles : e.row.id \in Bound(i)
    BY <1>1, <1>2 DEF UsersInv, UserCall, UserGood
  <2>2. \A u \in users' : u.id = i => u = c.user
    BY <1>1, <2>1 DEF Types, TablesFine, Table
  <2>3. Bound(i)' = ids
    BY <1>3, <2>1
  <2>4. c.user.active \in BOOLEAN
    BY <1>1, UserWork
  <2>5. Stored(what) = [active |-> c.user.active, roles |-> Bound(i)']
    BY <2>3, <2>4 DEF Stored
  <2>6. Stored(asked'[User(i)]) = [active |-> c.user.active, roles |-> Bound(i)']
    BY <1>4, <2>5
  <2> QED
    BY <2>2, <2>6 DEF UserSettled
<1>8. {User(i)} \in SUBSET Things /\ \A j \in UserIds : User(j) \in {User(i)} => j = i
  BY <1>2, ThingFacts
<1> QED
  BY <1>1, <1>2, <1>6, <1>7, <1>8, AtOneUser

(* A start, while nobody is served.                                        *)
LEMMA UsersIdle ==
  ASSUME Types, UserAsAsked, \A h \in Handlers : handler[h] = Nothing /\ handler'[h] = Nothing,
         Types', \A i \in UserIds : UserSettled(i)' \/ SameUser(i) \/ User(i) \in blurred'
  PROVE  UsersInv'
<1>1. \A h \in Handlers : Own(handler[h]) = {}
  BY DEF Own
<1>2. UserAsAsked'
  <2> SUFFICES ASSUME NEW u, u \in users', Sharp(User(u.id))'
               PROVE  Stored(asked'[User(u.id)]) = [active |-> u.active, roles |-> Bound(u.id)']
    BY DEF UserAsAsked
  <2>1. u.id \in UserIds
    BY BoundsAssumption DEF Types, TablesFine, Table, UserIds, Given
  <2>2. User(u.id) \notin blurred'
    BY DEF Sharp
  <2>3. CASE SameUser(u.id)
    <3>1. u \in users /\ Sharp(User(u.id))
      BY <1>1, <2>2, <2>3 DEF SameUser, Sharp
    <3>2. Stored(asked[User(u.id)]) = [active |-> u.active, roles |-> Bound(u.id)]
      BY <3>1 DEF UserAsAsked
    <3> QED
      BY <2>3, <3>2 DEF SameUser
  <2>4. CASE UserSettled(u.id)'
    BY <2>4 DEF UserSettled
  <2> QED
    BY <2>1, <2>2, <2>3, <2>4
<1> QED
  BY <1>2 DEF UsersInv

LEMMA UsersAtSeedUser ==
  ASSUME Types, Types', UserAsAsked, \A h \in Handlers : handler[h] = Nothing /\ handler'[h] = Nothing,
         SeedUser
  PROVE  UsersInv'
<1>1. UNCHANGED <<userRoles, blurred>>
  BY DEF SeedUser
<1>2. CASE UNCHANGED <<users, asked>>
  BY <1>1, <1>2, UntouchedUser, UsersIdle
<1>3. CASE /\ nextUser <= MaxUsers /\ Ask(User(nextUser), [active |-> TRUE, new |-> TRUE, roles |-> {}])
           /\ users' = users \cup {[id |-> nextUser, name |-> Bootstrap, active |-> TRUE]}
  <2> SUFFICES ASSUME NEW n, n = nextUser, NEW x, x = [id |-> n, name |-> Bootstrap, active |-> TRUE],
                      NEW what, what = [active |-> TRUE, new |-> TRUE, roles |-> {}]
               PROVE  UsersInv'
    OBVIOUS
  <2>1. n \in UserIds
    BY <1>3, GivenIds, BoundsAssumption DEF UserIds, Types
  <2>2. /\ asked'[User(n)] = what /\ users' = users \cup {x} /\ x.id = n /\ x.active = TRUE
        /\ \A i \in UserIds : i # n => asked'[User(i)] = asked[User(i)]
    BY <1>3, <2>1, ThingFacts DEF Ask, Types, AskedFine
  <2>3. Bound(n)' = {} /\ \A i : Bound(i)' = Bound(i)
    <3>1. \A j \in userRoles : j[1] # n
      BY DEF Types, TablesFine, Given
    <3>2. \A r : <<n, r>> \notin userRoles
      BY <3>1
    <3> QED
      BY <1>1, <3>2 DEF Bound
  <2>4. \A i \in UserIds : i # n => SameUser(i)
    BY <1>1, <2>2, <2>3 DEF SameUser
  <2>5. UserSettled(n)'
    <3>1. \A u \in users : u.id # n
      BY DEF Types, TablesFine, Table, Given
    <3>2. Stored(what) = [active |-> TRUE, roles |-> Bound(n)']
      BY <2>3 DEF Stored
    <3>3. \A u \in users' : u.id = n => u = x
      BY <2>2, <3>1
    <3> QED
      BY <2>2, <3>2, <3>3 DEF UserSettled
  <2> QED
    BY <2>4, <2>5, UsersIdle
<1> QED
  BY <1>2, <1>3 DEF SeedUser

LEMMA UsersAtSeedJoin ==
  ASSUME Types, Types', UserAsAsked, \A h \in Handlers : handler[h] = Nothing /\ handler'[h] = Nothing,
         SeedJoin
  PROVE  UsersInv'
<1>1. PICK u \in Named(users, Bootstrap), r \in Named(roles, Admin) :
       /\ userRoles' = userRoles \cup {<<u.id, r.id>>}
       /\ Ask(User(u.id), [asked[User(u.id)] EXCEPT !.roles = @ \cup {r.id}])
  BY DEF SeedJoin
<1> SUFFICES ASSUME NEW i, i = u.id, NEW what, what = [asked[User(i)] EXCEPT !.roles = @ \cup {r.id}]
             PROVE  UsersInv'
  OBVIOUS
<1>2. UNCHANGED <<users, blurred>>
  BY DEF SeedJoin
<1>3. u \in users /\ i \in UserIds /\ r.id \in RoleIds
  <2>1. u \in users /\ r \in roles
    BY DEF Named
  <2> QED
    BY <2>1, GivenIds DEF Types, TablesFine, Table
<1>4. asked'[User(i)] = what /\ \A j \in UserIds : j # i => asked'[User(j)] = asked[User(j)]
  BY <1>1, <1>3, ThingFacts DEF Ask, Types, AskedFine
<1>5. Bound(i)' = Bound(i) \cup {r.id} /\ \A j : j # i => Bound(j)' = Bound(j)
  <2>1. \A j, q : <<j, q>> \in userRoles' <=> <<j, q>> \in userRoles \/ (j = i /\ q = r.id)
    BY <1>1
  <2> QED
    BY <1>3, <2>1 DEF Bound
<1>6. \A j \in UserIds : j # i => SameUser(j)
  BY <1>2, <1>4, <1>5 DEF SameUser
<1>7. UserSettled(i)' \/ User(i) \in blurred'
  <2> SUFFICES ASSUME User(i) \notin blurred
               PROVE  UserSettled(i)'
    BY <1>2
  <2>1. Sharp(User(i))
    BY DEF Sharp, Own
  <2>2. Stored(asked[User(i)]) = [active |-> u.active, roles |-> Bound(i)]
    BY <1>3, <2>1 DEF UserAsAsked
  <2>3. \A v \in users' : v.id = i => v = u
    BY <1>2, <1>3 DEF Types, TablesFine, Table
  <2>4. asked[User(i)] \in UserAsks
    BY <1>3 DEF Types, TablesFine, Table, AskedFine
  <2>5. Stored(what) = [active |-> u.active, roles |-> Bound(i) \cup {r.id}]
    BY <2>2, <2>4 DEF Stored, UserAsks
  <2> QED
    BY <1>4, <1>5, <2>3, <2>5 DEF UserSettled
<1> QED
  BY <1>6, <1>7, UsersIdle

LEMMA UsersAtSeed ==
  ASSUME Types, Types', UsersInv, Seed
  PROVE  UsersInv'
<1>1. UserAsAsked /\ \A h \in Handlers : handler[h] = Nothing /\ handler'[h] = Nothing
  BY DEF UsersInv, Types, Starting, Seed, SeedRole, SeedKeys, SeedUser, SeedJoin
<1>2. ASSUME UNCHANGED <<users, userRoles>>, NEW r \in RoleIds,
             asked' = asked \/ \E what : Ask(Role(r), what), blurred \ {Role(r)} \subseteq blurred'
      PROVE  UsersInv'
  <2>1. \A i \in UserIds : asked'[User(i)] = asked[User(i)] /\ User(i) # Role(r)
    BY <1>2, AskRoleElsewhere, ThingFacts
  <2>2. \A i \in UserIds : SameUser(i)
    BY <1>2, <2>1, UntouchedUser
  <2> QED
    BY <1>1, <2>2, UsersIdle
<1>3. ASSUME NEW stage, NEW name, NEW next, SeedRole(stage, name, next)
      PROVE  UsersInv'
  <2>1. UNCHANGED <<users, userRoles, blurred>>
    BY <1>3 DEF SeedRole
  <2>2. CASE asked' = asked
    BY <1>1, <2>1, <2>2, UntouchedUser, UsersIdle
  <2>3. CASE nextRole <= MaxRoles /\ \E what : Ask(Role(nextRole), what)
    <3> SUFFICES ASSUME NEW n, n = nextRole
                 PROVE  UsersInv'
      OBVIOUS
    <3>1. n \in RoleIds
      BY <2>3, GivenIds, BoundsAssumption DEF RoleIds, Types
    <3> QED
      BY <1>2, <2>1, <2>3, <3>1
  <2> QED
    BY <1>3, <2>2, <2>3 DEF SeedRole
<1>4. ASSUME NEW stage, NEW name, NEW keys, NEW next, SeedKeys(stage, name, keys, next)
      PROVE  UsersInv'
  <2>1. PICK r \in roles : /\ \E what : Ask(Role(r.id), what)
                           /\ blurred' = blurred \ {Role(r.id)}
                           /\ UNCHANGED <<users, userRoles>>
    BY <1>4 DEF SeedKeys, Named
  <2>2. r.id \in RoleIds
    BY GivenIds DEF Types, TablesFine, Table
  <2> QED
    BY <1>2, <2>1, <2>2
<1> QED
  BY <1>1, <1>3, <1>4, UsersAtSeedUser, UsersAtSeedJoin DEF Seed

LEMMA UsersAtCrash ==
  ASSUME UsersInv, Crash
  PROVE  UsersInv'
<1>1. /\ \A h \in Handlers : handler'[h] = Nothing
      /\ blurred' = blurred \cup UNION {Own(handler[h]) : h \in Handlers}
      /\ UNCHANGED <<users, userRoles, asked>>
  BY DEF Crash, tables
<1>2. \A thing : Sharp(thing)' => Sharp(thing)
  BY <1>1 DEF Sharp
<1>3. \A i : Bound(i)' = Bound(i)
  BY <1>1 DEF Bound
<1> QED
  BY <1>1, <1>2, <1>3 DEF UsersInv, UserAsAsked

LEMMA UsersInductive ==
  ASSUME Types, Types', UsersInv, [Next]_vars
  PROVE  UsersInv'
<1>1. ASSUME NEW h \in Handlers, Step(h)
      PROVE  UsersInv'
  BY <1>1, UsersAtFail, UsersAtRequest, UsersAtRead, UsersAtPick, UsersAtSave, UsersAtSaveRoles, UsersAtBind,
     UsersAtRebind, UsersAtTrim, UsersAtDelete, UsersAtRole DEF Step
<1>2. CASE UNCHANGED vars
  <2>1. UNCHANGED <<users, userRoles, handler, asked, blurred>>
    BY <1>2 DEF vars, tables, history
  <2> QED
    BY <2>1 DEF UsersInv, UserAsAsked, UserCall, UserGood, Others, Sharp, Bound
<1> QED
  BY <1>1, <1>2, UsersAtSeed, UsersAtCrash DEF Next

(* A user is active, and has the roles, as last asked, with the same       *)
(* exceptions, and one more: a user that createUser made is active though  *)
(* it was asked for as inactive, until an update says otherwise            *)
(* (createUser, updateUser, login).                                        *)
THEOREM UserAsAskedHolds == Spec => []UserAsAsked
<1>1. Init => UsersInv
  BY DEF Init, UsersInv, UserAsAsked
<1>2. Types /\ Types' /\ UsersInv /\ [Next]_vars => UsersInv'
  BY UsersInductive
<1>3. UsersInv => UserAsAsked
  BY DEF UsersInv
<1> QED
  BY <1>1, <1>2, <1>3, TypesHold, PTL DEF Spec
=============================================================================
