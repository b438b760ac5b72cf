------------------------------ MODULE Service ------------------------------
(***************************************************************************)
(* The lookup service of src/src/service.rs on top of the cache database   *)
(* of src/src/cache.rs.  A client is one process that has loaded the NSS or*)
(* the PAM module: it owns a Service and one connection to the database    *)
(* file, and a mutex lets it run one service call at a time.  The database *)
(* file is shared by all clients; the directory is the SCIM server.        *)
(*                                                                         *)
(* A step of a client is one SCIM request or one SQL statement, together   *)
(* with the computation up to the next one.                                *)
(***************************************************************************)
EXTENDS IdMapping, CacheDb, Sequences

CONSTANTS
  Clients,          \* processes that share the cache database
  UserIds,          \* external identifiers of users
  GroupIds,         \* external identifiers of groups
  Names,            \* login, group and member names
  NoDisplay,        \* a group member without a display attribute
  UserRecs,         \* user resources the directory may hold
  GroupRecs,        \* group resources the directory may hold
  Hash,             \* murmur3 of each external identifier
  UidMin, UidSize,  \* mapping.uid_range_min, mapping.uid_range_size
  GidMin, GidSize,  \* mapping.gid_range_min, mapping.gid_range_size
  LongNames,        \* the names longer than MAX_NAME_LEN
  Policy,           \* security.offline_auth_policy, as each client read it at its start
  Calls,            \* the service calls the clients make
  DirectoryChanges, \* whether the directory is edited while clients run
  ScimFails,        \* whether SCIM requests may fail
  DbFails,          \* whether SQL statements may fail (locked, disk full)
  MaxRestarts       \* bound on process exits and restarts

NoItem == [id |-> "none"]
NoJob == [op |-> "none", name |-> "none", num |-> 0, item |-> NoItem,
          todo |-> {}, off |-> 0, uid |-> 0, gid |-> 0, k |-> 0]
NoAnswer == [op |-> "none", name |-> "none", tag |-> "none", id |-> "none"]

ActiveValues == {"true", "false", "absent"}

(* ScimUser and ScimGroup, reduced to the fields the service looks at. *)
UserResource == [id : UserIds, user_name : Names, groups : Seq(GroupIds), active : ActiveValues]
GroupResource == [id : GroupIds, name : Names, members : Seq(Names \cup {NoDisplay})]

ASSUME RangesFit ==
  /\ UidMin \in Nat /\ UidSize \in Nat \ {0}
  /\ GidMin \in Nat /\ GidSize \in Nat \ {0}
  /\ UidMin + UidSize <= Word /\ 2 * UidSize <= Word + 1
  /\ GidMin + GidSize <= Word /\ 2 * GidSize <= Word + 1

ASSUME DirectoryAssumption ==
  /\ UserRecs \subseteq UserResource
  /\ GroupRecs \subseteq GroupResource
  /\ Hash \in [UserIds \cup GroupIds -> Nat]
  /\ UserIds \cap GroupIds = {}
  /\ NoDisplay \notin Names
  /\ MaxRestarts \in Nat

VARIABLES
  dir_users,      \* user resources the directory holds
  dir_groups,     \* group resources the directory holds
  reported,       \* history: the last report received about each user
  uid_cache, gid_cache, group_members,  \* the database file
  pc,             \* where each client is
  job,            \* the call each client is working on
  ret,            \* the answer returned by the last step, if it returned one
  restarts        \* process exits so far

envVars == <<dir_users, dir_groups, reported, restarts>>
dbVars == <<uid_cache, gid_cache, group_members>>
clientVars == <<pc, job>>
vars == <<dir_users, dir_groups, reported, restarts, uid_cache, gid_cache,
          group_members, pc, job, ret>>

UserOps == {"user_by_name", "check_active", "groups_for_user", "list_users"}
GroupOps == {"group_by_name", "list_groups"}
NameOps == {"user_by_name", "check_active", "groups_for_user", "group_by_name"}
NumOps == {"user_by_uid", "group_by_gid"}
ListOps == {"list_users", "list_groups"}
Ops == NameOps \cup NumOps \cup ListOps

UidSlots == UidMin..(UidMin + UidSize - 1)
GidSlots == GidMin..(GidMin + GidSize - 1)

UidCandidate(id, off) == Candidate(Hash[id], UidMin, UidSize, off)
GidCandidate(id, off) == Candidate(Hash[id], GidMin, GidSize, off)

-----------------------------------------------------------------------------
(* The directory.  Identifiers and names are unique at any one time, but a *)
(* name may pass from one identifier to another.                           *)

DirectoryConsistent(recs, Name(_)) ==
  \A r, s \in recs : r.id = s.id \/ Name(r) = Name(s) => r = s

UserName(r) == r.user_name
GroupName(r) == r.name

Put(recs, r) == {s \in recs : s.id # r.id} \cup {r}

EditUsers ==
  /\ DirectoryChanges
  /\ \/ \E r \in UserRecs \ dir_users : dir_users' = Put(dir_users, r)
     \/ \E r \in dir_users : dir_users' = dir_users \ {r}
  /\ DirectoryConsistent(dir_users', UserName)
  /\ ret' = NoAnswer
  /\ UNCHANGED <<dir_groups, reported, restarts, dbVars, clientVars>>

EditGroups ==
  /\ DirectoryChanges
  /\ \/ \E r \in GroupRecs \ dir_groups : dir_groups' = Put(dir_groups, r)
     \/ \E r \in dir_groups : dir_groups' = dir_groups \ {r}
  /\ DirectoryConsistent(dir_groups', GroupName)
  /\ ret' = NoAnswer
  /\ UNCHANGED <<dir_users, reported, restarts, dbVars, clientVars>>

(* A second passes. *)
Tick ==
  /\ uid_cache' = Aged(uid_cache)
  /\ gid_cache' = Aged(gid_cache)
  /\ ret' = NoAnswer
  /\ UNCHANGED <<envVars, group_members, clientVars>>

-----------------------------------------------------------------------------
(* Moving a client along. *)

(* Client c goes on to a place with its job updated. *)
Step(c, place, j) ==
  /\ pc' = [pc EXCEPT ![c] = place]
  /\ job' = [job EXCEPT ![c] = j]
  /\ ret' = NoAnswer

(* The call of client c ends with an answer. *)
Return(c, tag, id) ==
  /\ pc' = [pc EXCEPT ![c] = "idle"]
  /\ job' = [job EXCEPT ![c] = NoJob]
  /\ ret' = [op |-> job[c].op, name |-> job[c].name, tag |-> tag, id |-> id]

(* Start converting one SCIM resource: scim_user_to_model resolves the uid *)
(* first, scim_group_to_model has only a gid to resolve.                   *)
TakeItem(c, r, rest) ==
  Step(c, IF job[c].op \in UserOps THEN "resolve_uid" ELSE "resolve_gid",
       [job[c] EXCEPT !.item = r, !.todo = rest, !.off = 0])

(* A list call goes on with any resource it has not stored yet, in the     *)
(* order the server happened to list them, or is done.                     *)
NextItem(c, todo) ==
  \/ todo = {} /\ Return(c, "listed", "none")
  \/ \E r \in todo : TakeItem(c, r, todo \ {r})

-----------------------------------------------------------------------------
(* Service::new: open the database and purge it, one statement at a time.  *)

Start(c) ==
  /\ pc[c] = "down"
  /\ Step(c, "purge_members", NoJob)
  /\ UNCHANGED <<envVars, dbVars>>

PurgeMembers(c) ==
  /\ pc[c] = "purge_members"
  /\ group_members' = delete_members(group_members, Expired(gid_cache))
  /\ Step(c, "purge_groups", NoJob)
  /\ UNCHANGED <<envVars, uid_cache, gid_cache>>

PurgeGroups(c) ==
  /\ pc[c] = "purge_groups"
  /\ gid_cache' = Purged(gid_cache)
  /\ group_members' = cascade(group_members, Expired(gid_cache))
  /\ Step(c, "purge_users", NoJob)
  /\ UNCHANGED <<envVars, uid_cache>>

PurgeUsers(c) ==
  /\ pc[c] = "purge_users"
  /\ uid_cache' = Purged(uid_cache)
  /\ Step(c, "idle", NoJob)
  /\ UNCHANGED <<envVars, gid_cache, group_members>>

-----------------------------------------------------------------------------
(* The service calls up to their first request. *)

Begin(c, op, n, x, place) ==
  /\ pc[c] = "idle"
  /\ op \in Calls
  /\ Step(c, place, [NoJob EXCEPT !.op = op, !.name = n, !.num = x])
  /\ UNCHANGED <<envVars, dbVars>>

(* The early return for an oversized name. *)
TooLong(c, op, n) ==
  /\ pc[c] = "idle"
  /\ op \in Calls
  /\ ret' = [op |-> op, name |-> n, id |-> "none",
             tag |-> CASE op = "check_active" -> "inactive"
                       [] op = "groups_for_user" -> "gids"
                       [] OTHER -> "missing"]
  /\ UNCHANGED <<envVars, dbVars, clientVars>>

CallByName(c, op, n) ==
  IF n \in LongNames THEN TooLong(c, op, n) ELSE Begin(c, op, n, 0, "scim")

(* lookup_user_by_uid and lookup_group_by_gid never ask the directory. *)
CallByNum(c, op, x) == Begin(c, op, "none", x, "cache")

CallList(c, op) == Begin(c, op, "none", 0, "scim")

-----------------------------------------------------------------------------
(* The answer of the SCIM server. *)

FallBack(c) == Step(c, "cache", job[c])

(* The ghost record of the last report about each account.  The answer     *)
(* that no account has a name reports nothing about any account, and the   *)
(* code keeps nothing of it either.                                        *)
Report(recs) ==
  reported' = [i \in DOMAIN reported \cup {r.id : r \in recs} |->
                 IF \E r \in recs : r.id = i THEN CHOOSE r \in recs : r.id = i
                                             ELSE reported[i]]

(* get_user_by_name: only lookup_user_by_name falls back to the cache when *)
(* the directory does not know the user.                                   *)
ScimUser(c) ==
  LET j == job[c]
      matches == {r \in dir_users : r.user_name = j.name}
  IN
  /\ pc[c] = "scim"
  /\ j.op \in UserOps \ ListOps
  /\ \/ \E r \in matches : TakeItem(c, r, {})
     \/ /\ matches = {}
        /\ CASE j.op = "user_by_name" -> FallBack(c)
             [] j.op = "check_active" -> Return(c, "inactive", "none")
             [] j.op = "groups_for_user" -> Return(c, "gids", "none")
  /\ Report(matches)
  /\ UNCHANGED <<dir_users, dir_groups, restarts, dbVars>>

ScimGroup(c) ==
  LET matches == {r \in dir_groups : r.name = job[c].name}
  IN
  /\ pc[c] = "scim"
  /\ job[c].op = "group_by_name"
  /\ \/ \E r \in matches : TakeItem(c, r, {})
     \/ matches = {} /\ FallBack(c)
  /\ UNCHANGED <<envVars, dbVars>>

(* list_users and list_groups returned everything the directory holds. *)
ScimUserList(c) ==
  /\ pc[c] = "scim"
  /\ job[c].op = "list_users"
  /\ NextItem(c, dir_users)
  /\ Report(dir_users)
  /\ UNCHANGED <<dir_users, dir_groups, restarts, dbVars>>

ScimGroupList(c) ==
  /\ pc[c] = "scim"
  /\ job[c].op = "list_groups"
  /\ NextItem(c, dir_groups)
  /\ UNCHANGED <<envVars, dbVars>>

(* The request failed or timed out: lists fail, a check under the deny     *)
(* policy denies, and everything else falls back to the cache.             *)
ScimFailed(c) ==
  /\ ScimFails
  /\ pc[c] = "scim"
  /\ CASE job[c].op \in ListOps -> Return(c, "error", "none")
       [] job[c].op = "check_active" /\ Policy[c] = "deny" -> Return(c, "inactive", "none")
       [] OTHER -> FallBack(c)
  /\ UNCHANGED <<envVars, dbVars>>

-----------------------------------------------------------------------------
(* Answers from the cache. *)

(* get_user_by_name and get_user_by_uid: any matching fresh row. *)
ReadUser(c) ==
  LET j == job[c]
      rows == IF j.op = "user_by_uid" THEN get_user_by_uid(uid_cache, j.num)
                                      ELSE get_user_by_name(uid_cache, j.name)
      tag(active) == IF j.op # "check_active" THEN "found"
                     ELSE IF active THEN "active" ELSE "inactive"
  IN
  /\ pc[c] = "cache"
  /\ j.op \in {"user_by_name", "user_by_uid", "check_active"}
  /\ \/ \E i \in rows : Return(c, tag(uid_cache[i].active), i)
     \/ /\ rows = {}
        /\ Return(c, IF j.op = "check_active" THEN "inactive" ELSE "missing", "none")
  /\ UNCHANGED <<envVars, dbVars>>

(* get_group_by_name and get_group_by_gid: the row first ... *)
ReadGroup(c) ==
  LET j == job[c]
      rows == IF j.op = "group_by_gid" THEN get_group_by_gid(gid_cache, j.num)
                                       ELSE get_group_by_name(gid_cache, j.name)
  IN
  /\ pc[c] = "cache"
  /\ j.op \in {"group_by_name", "group_by_gid"}
  /\ \/ \E i \in rows : Step(c, "read_members", [j EXCEPT !.item = [id |-> i]])
     \/ rows = {} /\ Return(c, "missing", "none")
  /\ UNCHANGED <<envVars, dbVars>>

(* ... and its members with a second statement. *)
ReadMembers(c) ==
  /\ pc[c] = "read_members"
  /\ Return(c, "found", job[c].item.id)
  /\ UNCHANGED <<envVars, dbVars>>

(* get_groups_for_member, of which only the gids are kept. *)
ReadGroupsForMember(c) ==
  /\ pc[c] = "cache"
  /\ job[c].op = "groups_for_user"
  /\ Return(c, "gids", "none")
  /\ UNCHANGED <<envVars, dbVars>>

-----------------------------------------------------------------------------
(* Identifier resolution: one SELECT per probed slot. *)

(* Mutant of ResolveUid: the loop goes round the range for ever. *)
ResolveUidForever(c) ==
  LET j == job[c]
      cand == UidCandidate(j.item.id, j.off)
  IN
  /\ pc[c] = "resolve_uid"
  /\ IF uid_owner_is_other(uid_cache, j.item.id, cand)
       THEN Step(c, "resolve_uid", [j EXCEPT !.off = (@ + 1) % UidSize])
       ELSE Step(c, "resolve_gid", [j EXCEPT !.uid = cand, !.off = 0])
  /\ UNCHANGED <<envVars, dbVars>>

ResolveUid(c) ==
  LET j == job[c]
      cand == UidCandidate(j.item.id, j.off)
  IN
  /\ pc[c] = "resolve_uid"
  /\ IF j.off = UidSize
       THEN Return(c, "exhausted", j.item.id)
     ELSE IF uid_owner_is_other(uid_cache, j.item.id, cand)
       THEN Step(c, "resolve_uid", [j EXCEPT !.off = @ + 1])
       ELSE Step(c, "resolve_gid", [j EXCEPT !.uid = cand, !.off = 0])
  /\ UNCHANGED <<envVars, dbVars>>

(* The identifier whose gid is resolved: a group's own, a user's first     *)
(* group, or the user's own if the user is in no group.                    *)
gid_external(item) ==
  IF item.id \in GroupIds \/ item.groups = <<>> THEN item.id ELSE item.groups[1]

ResolveGid(c) ==
  LET j == job[c]
      ext == gid_external(j.item)
      cand == GidCandidate(ext, j.off)
  IN
  /\ pc[c] = "resolve_gid"
  /\ IF j.off = GidSize
       THEN Return(c, "exhausted", ext)
     ELSE IF gid_owner_is_other(gid_cache, ext, cand)
       THEN Step(c, "resolve_gid", [j EXCEPT !.off = @ + 1])
       ELSE Step(c, IF j.op \in UserOps THEN "store_user" ELSE "store_group",
                 [j EXCEPT !.gid = cand, !.off = 0])
  /\ UNCHANGED <<envVars, dbVars>>

(* The gid of every group of the user, for lookup_groups_for_user; none of *)
(* them is stored.                                                         *)
ResolveGids(c) ==
  LET j == job[c]
      ext == j.item.groups[j.k]
      cand == GidCandidate(ext, j.off)
  IN
  /\ pc[c] = "resolve_gids"
  /\ IF j.k > Len(j.item.groups)
       THEN Return(c, "gids", "none")
     ELSE IF j.off = GidSize
       THEN Return(c, "exhausted", ext)
     ELSE IF gid_owner_is_other(gid_cache, ext, cand)
       THEN Step(c, "resolve_gids", [j EXCEPT !.off = @ + 1])
       ELSE Step(c, "resolve_gids", [j EXCEPT !.k = @ + 1, !.off = 0])
  /\ UNCHANGED <<envVars, dbVars>>

-----------------------------------------------------------------------------
(* Storing what was resolved. *)

(* The User that scim_user_to_model builds, as a row of age 0. *)
UserRow(j) ==
  [login |-> j.item.user_name, uid |-> j.uid, gid |-> j.gid,
   gid_ext |-> gid_external(j.item), active |-> j.item.active # "false", age |-> 0]

GroupRow(j) == [name |-> j.item.name, gid |-> j.gid, age |-> 0]

StoreUser(c) ==
  LET j == job[c]
  IN
  /\ pc[c] = "store_user"
  /\ uid_cache' = store_user(uid_cache, j.item.id, UserRow(j))
  /\ CASE j.op = "user_by_name" -> Return(c, "found", j.item.id)
       [] j.op = "check_active" ->
            Return(c, IF UserRow(j).active THEN "active" ELSE "inactive", j.item.id)
       [] j.op = "groups_for_user" ->
            Step(c, "resolve_gids", [j EXCEPT !.k = 1, !.off = 0])
       [] j.op = "list_users" -> NextItem(c, j.todo)
  /\ UNCHANGED <<envVars, gid_cache, group_members>>

(* store_group: the group row ... *)
StoreGroup(c) ==
  LET j == job[c]
  IN
  /\ pc[c] = "store_group"
  /\ gid_cache' = store_group_row(gid_cache, j.item.id, GroupRow(j))
  /\ group_members' = cascade(group_members,
                              GroupsReplaced(gid_cache, j.item.id, GroupRow(j)))
  /\ Step(c, "delete_members", j)
  /\ UNCHANGED <<envVars, uid_cache>>

(* ... then its old members ... *)
DeleteMembers(c) ==
  /\ pc[c] = "delete_members"
  /\ group_members' = delete_members(group_members, {job[c].item.id})
  /\ Step(c, "insert_members", [job[c] EXCEPT !.k = 1])
  /\ UNCHANGED <<envVars, uid_cache, gid_cache>>

(* ... then its new ones, one statement each.  Members without a display   *)
(* were dropped by scim_group_to_model.  A second insert of the same name  *)
(* violates the primary key, an insert for a group row that is gone the    *)
(* foreign key: both end the call with an error.                           *)
InsertMember(c) ==
  LET j == job[c]
      m == <<j.item.id, j.item.members[j.k]>>
      next == Step(c, "insert_members", [j EXCEPT !.k = @ + 1])
  IN
  /\ pc[c] = "insert_members"
  /\ j.k <= Len(j.item.members)
  /\ IF m[2] = NoDisplay
       THEN next /\ UNCHANGED group_members
     ELSE IF m \in group_members \/ m[1] \notin DOMAIN gid_cache
       THEN Return(c, "error", "none") /\ UNCHANGED group_members
       ELSE next /\ group_members' = group_members \cup {m}
  /\ UNCHANGED <<envVars, uid_cache, gid_cache>>

(* Mutant of MembersInserted: the loop over the members stops one early. *)
MembersInsertedEarly(c) ==
  LET j == job[c]
  IN
  /\ pc[c] = "insert_members"
  /\ j.k >= Len(j.item.members)
  /\ IF j.op = "group_by_name" THEN Return(c, "found", j.item.id)
                               ELSE NextItem(c, j.todo)
  /\ UNCHANGED <<envVars, dbVars>>

MembersInserted(c) ==
  LET j == job[c]
  IN
  /\ pc[c] = "insert_members"
  /\ j.k > Len(j.item.members)
  /\ IF j.op = "group_by_name" THEN Return(c, "found", j.item.id)
                               ELSE NextItem(c, j.todo)
  /\ UNCHANGED <<envVars, dbVars>>

-----------------------------------------------------------------------------
(* Failures. *)

(* The next step of the client is an SQL statement, not the end of a loop. *)
NextIsStatement(c) ==
  LET j == job[c]
  IN
  \/ pc[c] \in {"purge_members", "purge_groups", "purge_users", "cache",
                "read_members", "store_user", "store_group", "delete_members"}
  \/ pc[c] = "resolve_uid" /\ j.off < UidSize
  \/ pc[c] = "resolve_gid" /\ j.off < GidSize
  \/ pc[c] = "resolve_gids" /\ j.k <= Len(j.item.groups) /\ j.off < GidSize
  \/ /\ pc[c] = "insert_members"
     /\ j.k <= Len(j.item.members)
     /\ j.item.members[j.k] # NoDisplay

(* A statement fails (database locked past the busy timeout, disk full):   *)
(* a call ends with an error, the start-up purge is given up with a        *)
(* warning; what earlier statements committed stays.                       *)
DbFail(c) ==
  /\ DbFails
  /\ NextIsStatement(c)
  /\ IF pc[c] \in {"purge_members", "purge_groups", "purge_users"}
       THEN Step(c, "idle", NoJob)
       ELSE Return(c, "error", "none")
  /\ UNCHANGED <<envVars, dbVars>>

(* The process exits, or is killed between two statements. *)
Exit(c) ==
  /\ pc[c] # "down"
  /\ restarts < MaxRestarts
  /\ restarts' = restarts + 1
  /\ Step(c, "down", NoJob)
  /\ UNCHANGED <<dir_users, dir_groups, reported, dbVars>>

-----------------------------------------------------------------------------

Init ==
  /\ dir_users \in {S \in SUBSET UserRecs : DirectoryConsistent(S, UserName)}
  /\ dir_groups \in {S \in SUBSET GroupRecs : DirectoryConsistent(S, GroupName)}
  /\ reported = EmptyTable
  /\ uid_cache = EmptyTable
  /\ gid_cache = EmptyTable
  /\ group_members = {}
  /\ pc = [c \in Clients |-> "down"]
  /\ job = [c \in Clients |-> NoJob]
  /\ ret = NoAnswer
  /\ restarts = 0

(* A client asks for something. *)
Ask(c) ==
  \/ \E op \in NameOps, n \in Names : CallByName(c, op, n)
  \/ \E x \in UidSlots : CallByNum(c, "user_by_uid", x)
  \/ \E x \in GidSlots : CallByNum(c, "group_by_gid", x)
  \/ \E op \in ListOps : CallList(c, op)

(* A client gets on with what it was asked. *)
Work(c) ==
  \/ PurgeMembers(c) \/ PurgeGroups(c) \/ PurgeUsers(c)
  \/ ScimUser(c) \/ ScimGroup(c) \/ ScimUserList(c) \/ ScimGroupList(c)
  \/ ScimFailed(c)
  \/ ReadUser(c) \/ ReadGroup(c) \/ ReadMembers(c) \/ ReadGroupsForMember(c)
  \/ ResolveUid(c) \/ ResolveGid(c) \/ ResolveGids(c)
  \/ StoreUser(c)
  \/ StoreGroup(c) \/ DeleteMembers(c) \/ InsertMember(c) \/ MembersInserted(c)
  \/ DbFail(c)

Next ==
  \/ EditUsers \/ EditGroups \/ Tick
  \/ \E c \in Clients : Start(c) \/ Ask(c) \/ Work(c) \/ Exit(c)

Spec == Init /\ [][Next]_vars

(* A call in progress goes on: requests and statements have timeouts, so   *)
(* each ends with an answer or an error; and time passes.  Nothing makes a *)
(* client ask, start or exit, and nothing makes the directory change.      *)
Fairness ==
  /\ WF_vars(Tick)
  /\ \A c \in Clients : WF_vars(Work(c))

FairSpec == Spec /\ Fairness

-----------------------------------------------------------------------------
(* Types. *)

UserRows == [login : Names, uid : UidSlots, gid : GidSlots,
             gid_ext : UserIds \cup GroupIds, active : BOOLEAN, age : Ages]
GroupRows == [name : Names, gid : GidSlots, age : Ages]

Places == {"down", "purge_members", "purge_groups", "purge_users", "idle",
           "scim", "cache", "read_members", "resolve_uid", "resolve_gid",
           "resolve_gids", "store_user", "store_group", "delete_members",
           "insert_members"}

(* The record of a group read from the cache keeps only its identifier.    *)
Items == UserRecs \cup GroupRecs \cup [id : GroupIds] \cup {NoItem}

Job == [op : Ops \cup {"none"}, name : Names \cup {"none"}, num : Int,
        item : Items, todo : SUBSET (UserRecs \cup GroupRecs),
        off : Nat, uid : Int, gid : Int, k : Nat]

(* What the fields of a job are good for at each place. *)
ConvertsUser(j) ==
  j.op \in UserOps /\ j.item \in UserRecs /\ j.todo \subseteq UserRecs
ConvertsGroup(j) ==
  j.op \in GroupOps /\ j.item \in GroupRecs /\ j.todo \subseteq GroupRecs

JobFits(place, j) ==
  /\ place = "scim" => j.op \in Ops \ NumOps
  /\ place = "cache" => j.op \in Ops \ ListOps
  /\ place = "resolve_uid" => ConvertsUser(j) /\ j.off \in 0..UidSize
  /\ place = "resolve_gid" =>
       /\ \/ ConvertsUser(j) /\ j.uid \in UidSlots
          \/ ConvertsGroup(j)
       /\ j.off \in 0..GidSize
  /\ place = "store_user" =>
       ConvertsUser(j) /\ j.uid \in UidSlots /\ j.gid \in GidSlots
  /\ place = "resolve_gids" =>
       ConvertsUser(j) /\ j.k \in Nat \ {0} /\ j.off \in 0..GidSize
  /\ place \in {"store_group", "delete_members"} =>
       ConvertsGroup(j) /\ j.gid \in GidSlots
  /\ place = "insert_members" =>
       ConvertsGroup(j) /\ j.gid \in GidSlots /\ j.k \in Nat \ {0}

DirectoryOK ==
  /\ dir_users \subseteq UserRecs
  /\ dir_groups \subseteq GroupRecs
  /\ DOMAIN reported \subseteq UserIds
  /\ reported \in [DOMAIN reported -> UserRecs]
  /\ restarts \in 0..MaxRestarts

DatabaseOK ==
  /\ DOMAIN uid_cache \subseteq UserIds
  /\ uid_cache \in [DOMAIN uid_cache -> UserRows]
  /\ DOMAIN gid_cache \subseteq GroupIds
  /\ gid_cache \in [DOMAIN gid_cache -> GroupRows]
  /\ group_members \subseteq GroupIds \X Names

ClientsOK ==
  /\ pc \in [Clients -> Places]
  /\ job \in [Clients -> Job]
  /\ \A c \in Clients : JobFits(pc[c], job[c])

TypeOK == DirectoryOK /\ DatabaseOK /\ ClientsOK

-----------------------------------------------------------------------------
(* Properties of every deployment. *)

(* A cached membership always belongs to a cached group, also when another *)
(* client's REPLACE or purge removes the group between the statements of   *)
(* store_group (cache.rs, the foreign key of group_members).               *)
MembersHaveGroup == \A m \in group_members : m[1] \in DOMAIN gid_cache

(* Every call that reaches the directory ends, with whatever answer: the   *)
(* fallback, the probe loops and the member loop all come to an end        *)
(* (service.rs).                                                           *)
CallsReturn ==
  \A c \in Clients : pc[c] = "scim" ~> pc[c] \in {"idle", "down"}

(* check_user_active answered true for a login name. *)
Granted(n) == ret.op = "check_active" /\ ret.name = n /\ ret.tag = "active"

(* When a login name stops belonging to an active account for good, access *)
(* is granted to it only finitely often, however long the directory is     *)
(* unreachable: cached rows expire and nothing but a report of an active   *)
(* account renews them (service.rs, check_user_active).                    *)
DeactivationTakesEffect ==
  \A n \in Names :
    <>[](\A r \in dir_users : r.user_name = n => r.active = "false")
      => <>[]~Granted(n)

-----------------------------------------------------------------------------
(* Properties of a client that has the database to itself. *)

(* A uid handed out by resolve_uid is still nobody else's when it is       *)
(* stored: "Resolve a collision-free UID" (cache.rs, resolve_uid).         *)
ResolvedUidFree ==
  \A c \in Clients :
    pc[c] = "store_user" =>
      \A i \in DOMAIN uid_cache : uid_cache[i].uid = job[c].uid => i = job[c].item.id

(* "If external_id already has a cached ID, return it (stable mapping)"    *)
(* (mapping.rs, resolve_id): the uid about to be stored for a cached user  *)
(* is the cached one.                                                      *)
CachedIdReturned ==
  \A c \in Clients :
    pc[c] = "store_user" /\ job[c].item.id \in DOMAIN uid_cache
      => job[c].uid = uid_cache[job[c].item.id].uid

(* Every slot between a user's home slot and the slot the user holds is    *)
(* held by another user.  This is why probing from home finds the slot a   *)
(* user already has without looking the user up (mapping.rs, resolve_id).  *)
ProbeChain ==
  \A u \in DOMAIN uid_cache : \E off \in 0..(UidSize - 1) :
    /\ uid_cache[u].uid = UidCandidate(u, off)
    /\ \A p \in 0..(off - 1) : \E i \in DOMAIN uid_cache \ {u} :
         uid_cache[i].uid = UidCandidate(u, p)

(* As long as the process has not been restarted, so that nothing was      *)
(* purged, a cached user is always given its cached uid, because the chain *)
(* of taken slots from its home is intact (mapping.rs, resolve_id).        *)
StableUntilRestart == restarts = 0 => ProbeChain /\ CachedIdReturned

(* The same chain in the gid range.  Groups compete for its slots with each*)
(* other only: the gids resolved for users are probed but never reserved.  *)
GidProbeChain ==
  \A g \in DOMAIN gid_cache : \E off \in 0..(GidSize - 1) :
    /\ gid_cache[g].gid = GidCandidate(g, off)
    /\ \A p \in 0..(off - 1) : \E i \in DOMAIN gid_cache \ {g} :
         gid_cache[i].gid = GidCandidate(g, p)

CachedGidReturned ==
  \A c \in Clients :
    pc[c] = "store_group" /\ job[c].item.id \in DOMAIN gid_cache
      => job[c].gid = gid_cache[job[c].item.id].gid

(* As long as the process has not been restarted a cached group keeps its  *)
(* gid each time it is stored again, fresh or expired, whichever groups    *)
(* came or collided in between, because the slots on the way to it stay    *)
(* taken (mapping.rs, resolve_id; cache.rs, resolve_gid).                  *)
GroupsStableUntilRestart == restarts = 0 => GidProbeChain /\ CachedGidReturned

(* resolve_uid gives up only when other users hold every slot of the range *)
(* at that moment (mapping.rs, IdRangeExhausted).                          *)
ExhaustedOnlyWhenFull ==
  [][\A c \in Clients :
       pc[c] = "resolve_uid" /\ pc'[c] = "idle" /\ ret'.tag = "exhausted"
         => \A s \in UidSlots : \E i \in DOMAIN uid_cache \ {job[c].item.id} :
              uid_cache[i].uid = s]_vars

(* Resolving and storing through many statements amounts to the atomic     *)
(* assignment of UidAllocator: the table of uids evolves as the allocator's*)
(* does, with Forget for the start-up purge.                               *)
Allocator ==
  INSTANCE UidAllocator WITH
    Ids <- UserIds, Hash <- [i \in UserIds |-> Hash[i]],
    RangeMin <- UidMin, RangeSize <- UidSize,
    held <- [i \in DOMAIN uid_cache |-> uid_cache[i].uid]

RefinesAllocator == Allocator!Spec

(* Access is granted to a name, online or offline, only through an account *)
(* that bore this very name and was not inactive when it was last reported:*)
(* a renamed or deactivated account no longer opens its old name once the  *)
(* directory has said so, provided that the report could be stored, i.e.   *)
(* no statement fails and no range is exhausted (service.rs,               *)
(* check_user_active).                                                     *)
(*                                                                         *)
(* The property is about the account, not about the name.  A name that was *)
(* denied because the directory no longer knows it, or because it now      *)
(* belongs to an inactive account, can still be granted offline through    *)
(* its previous owner while that owner's row is fresh: login is not unique *)
(* and nothing was reported about the previous owner itself.  Only the TTL *)
(* bounds that, which is DeactivationTakesEffect.                          *)
GrantedAsReported ==
  \A n \in Names :
    Granted(n) => /\ ret.id \in DOMAIN reported
                  /\ reported[ret.id].user_name = n
                  /\ reported[ret.id].active # "false"

(* A group that was stored without an error is cached with exactly the     *)
(* displayed members it was reported with (cache.rs, store_group).         *)
Displayed(r) == {r.members[k] : k \in 1..Len(r.members)} \ {NoDisplay}

GroupStoredWhole ==
  [][\A c \in Clients :
       LET j == job[c]
       IN  /\ pc[c] = "insert_members"
           /\ job'[c].item # j.item
           /\ pc'[c] # "down" /\ ret'.tag # "error"
           => /\ j.item.id \in DOMAIN gid_cache
              /\ gid_cache[j.item.id].gid = j.gid
              /\ get_group_members(group_members, j.item.id) = Displayed(j.item)]_vars

(* "Resolve a collision-free GID" (cache.rs, resolve_gid): users with the  *)
(* same primary gid got it for the same external identifier.               *)
PrimaryGidsDistinct ==
  \A i, j \in DOMAIN uid_cache :
    uid_cache[i].gid = uid_cache[j].gid => uid_cache[i].gid_ext = uid_cache[j].gid_ext
=============================================================================
