------------------------------ MODULE GormTable ------------------------------
(***************************************************************************)
(* A database table as the server uses it through gorm: a set of rows,     *)
(* each a record with an `id` (the primary key) and a `name` (the column   *)
(* with the unique index).  The server opens SQLite without foreign keys   *)
(* and without default transactions, so each operator below is one atomic  *)
(* statement and nothing is rolled back with it.                           *)
(***************************************************************************)
EXTENDS Naturals

(* The unique index on `name`: an INSERT or UPDATE of row x fails when     *)
(* another row already has x's name.                                       *)
Clash(table, x) == \E r \in table : r.id # x.id /\ r.name = x.name

(* db.Save(&x) of a row whose primary key is set: UPDATE of every column,  *)
(* and, when no row was there to update, INSERT ... ON CONFLICT DO UPDATE. *)
(* A row deleted since x was read is therefore written back.               *)
Upsert(table, x) == {r \in table : r.id # x.id} \cup {x}

(* db.Delete(&x): deletes by primary key, and is no error if it is gone.   *)
Without(table, id) == {r \in table : r.id # id}
=============================================================================
