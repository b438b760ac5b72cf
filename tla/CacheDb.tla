------------------------------ MODULE CacheDb ------------------------------
(***************************************************************************)
(* The SQLite cache of src/src/cache.rs: its three tables and, for each SQL*)
(* statement the code issues, the table it leaves behind.  A table is a    *)
(* function from primary keys to rows; a key outside the domain has no row.*)
(* Every statement runs in its own transaction (autocommit), so a statement*)
(* is atomic and a method of several statements is not.                    *)
(*                                                                         *)
(* A row carries its age, min(now - cached_at, Ttl), in place of cached_at:*)
(* every query of the code compares exactly that difference with the TTL.  *)
(*                                                                         *)
(* The bundled SQLite is compiled with foreign keys on, so deleting a group*)
(* row, also the implicit delete of INSERT OR REPLACE, cascades to its     *)
(* group_members rows, and inserting a member of a missing group fails.    *)
(***************************************************************************)
EXTENDS Integers

CONSTANT Ttl   \* cache.ttl_seconds, in clock ticks

ASSUME TtlAssumption == Ttl \in Nat

Ages == 0..Ttl

(* Mutant of Fresh: the TTL is not looked at. *)
FreshForever(row) == TRUE

(* cached_at > strftime('%s', 'now') - ttl *)
Fresh(row) == row.age < Ttl

(* One second later: ages above the TTL are not told apart. *)
Older(row) == [row EXCEPT !.age = IF row.age < Ttl THEN row.age + 1 ELSE Ttl]
Aged(t) == [i \in DOMAIN t |-> Older(t[i])]

(* A freshly opened database file. *)
EmptyTable == [i \in {} |-> 0]

-----------------------------------------------------------------------------
(* uid_cache: external_id |-> [login, uid, gid, gid_ext, active, age].     *)
(* external_id is the primary key and uid is UNIQUE; login is neither.     *)
(* gid_ext is a history field: the external identifier gid was resolved    *)
(* for.                                                                    *)

(* Mutant of uid_owner_is_other: the caller's own row blocks it too. *)
uid_owner_is_any(t, id, uid) == \E j \in DOMAIN t : t[j].uid = uid

(* Mutant of uid_owner_is_other: an expired row no longer holds its slot. *)
uid_owner_fresh(t, id, uid) ==
  \E j \in DOMAIN t : j # id /\ t[j].uid = uid /\ Fresh(t[j])

(* Cache::uid_owner answers Some(false): the slot is another user's.  The  *)
(* TTL is not consulted.                                                   *)
uid_owner_is_other(t, id, uid) ==
  \E j \in DOMAIN t : j # id /\ t[j].uid = uid

(* Mutant of store_user: INSERT OR IGNORE. *)
store_user_ignore(t, id, row) ==
  [i \in DOMAIN t \cup {id} |-> IF i \in DOMAIN t THEN t[i] ELSE row]

(* Cache::store_user: INSERT OR REPLACE removes every row that conflicts on*)
(* the primary key or on uid, then inserts.                                *)
store_user(t, id, row) ==
  [i \in {j \in DOMAIN t : t[j].uid # row.uid} \cup {id} |->
     IF i = id THEN row ELSE t[i]]

(* Cache::get_user_by_uid and get_user_by_name: the keys of the fresh rows *)
(* that match.  By name several may match and SQL does not say which one   *)
(* comes first.                                                            *)
get_user_by_uid(t, uid) == {i \in DOMAIN t : t[i].uid = uid /\ Fresh(t[i])}
get_user_by_name(t, n) == {i \in DOMAIN t : t[i].login = n /\ Fresh(t[i])}

-----------------------------------------------------------------------------
(* gid_cache: external_id |-> [name, gid, age], gid UNIQUE, and            *)
(* group_members: a set of pairs <<group external_id, member name>>.       *)

(* Mutant of gid_owner_is_other: an expired row no longer holds its slot. *)
gid_owner_fresh(t, id, gid) ==
  \E j \in DOMAIN t : j # id /\ t[j].gid = gid /\ Fresh(t[j])

(* Cache::gid_owner answers Some(false). *)
gid_owner_is_other(t, id, gid) ==
  \E j \in DOMAIN t : j # id /\ t[j].gid = gid

(* The rows INSERT OR REPLACE removes for a new row of group id. *)
GroupsReplaced(t, id, row) ==
  {j \in DOMAIN t : j = id \/ t[j].gid = row.gid}

(* The first statement of Cache::store_group. *)
store_group_row(t, id, row) ==
  [i \in (DOMAIN t \ GroupsReplaced(t, id, row)) \cup {id} |->
     IF i = id THEN row ELSE t[i]]

(* Mutant of cascade: the foreign key is declared but not enforced. *)
cascade_off(members, gone) == members

(* ON DELETE CASCADE of the foreign key of group_members. *)
cascade(members, gone) == {m \in members : m[1] \notin gone}

(* The DELETE statements on group_members itself, in store_group and in    *)
(* purge_expired.                                                          *)
delete_members(members, groups) == {m \in members : m[1] \notin groups}

get_group_by_gid(t, gid) == {i \in DOMAIN t : t[i].gid = gid /\ Fresh(t[i])}
get_group_by_name(t, n) == {i \in DOMAIN t : t[i].name = n /\ Fresh(t[i])}

(* Cache::get_group_members: no TTL of its own. *)
get_group_members(members, id) == {m[2] : m \in {p \in members : p[1] = id}}

-----------------------------------------------------------------------------
(* The tables after the statements of Cache::purge_expired. *)
Expired(t) == {i \in DOMAIN t : ~Fresh(t[i])}

Purged(t) == [i \in DOMAIN t \ Expired(t) |-> t[i]]
=============================================================================
