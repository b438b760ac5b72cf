--------------------------- MODULE ServiceProofs ---------------------------
(***************************************************************************)
(* Proofs about Service for every directory, every set of clients, every   *)
(* hash and every range that fits the word.                                *)
(***************************************************************************)
EXTENDS Service, IdMappingProofs

(* The candidates of both probe loops are slots of their ranges. *)
LEMMA CandidatesInSlots ==
  ASSUME NEW id \in UserIds \cup GroupIds
  PROVE  /\ \A off \in 0..(UidSize - 1) : UidCandidate(id, off) \in UidSlots
         /\ \A off \in 0..(GidSize - 1) : GidCandidate(id, off) \in GidSlots
<1>1. Hash[id] \in Nat /\ FitsWord(UidMin, UidSize) /\ FitsWord(GidMin, GidSize)
  BY RangesFit, DirectoryAssumption DEF FitsWord
<1> QED BY <1>1, CandidateInRange DEF UidCandidate, GidCandidate, UidSlots, GidSlots

(* What a resource is made of. *)
LEMMA ResourceFields ==
  /\ \A r \in UserRecs : /\ r.id \in UserIds /\ r.user_name \in Names
                         /\ r.groups \in Seq(GroupIds)
                         /\ gid_external(r) \in UserIds \cup GroupIds
  /\ \A r \in GroupRecs : /\ r.id \in GroupIds /\ r.name \in Names
                          /\ r.members \in Seq(Names \cup {NoDisplay})
                          /\ gid_external(r) \in UserIds \cup GroupIds
<1>1. ASSUME NEW r \in UserRecs
      PROVE  /\ r.id \in UserIds /\ r.user_name \in Names
             /\ r.groups \in Seq(GroupIds)
  BY DirectoryAssumption DEF UserResource
<1>2. ASSUME NEW r \in GroupRecs
      PROVE  /\ r.id \in GroupIds /\ r.name \in Names
             /\ r.members \in Seq(Names \cup {NoDisplay})
  BY DirectoryAssumption DEF GroupResource
<1>3. ASSUME NEW r \in UserRecs
      PROVE  gid_external(r) \in UserIds \cup GroupIds
  <2>1. CASE r.groups = <<>>
    BY <1>1, <2>1 DEF gid_external
  <2>2. CASE r.groups # <<>>
    <3>1. r.groups[1] \in GroupIds
      BY <1>1, <2>2
    <3> QED BY <1>1, <2>2, <3>1 DEF gid_external
  <2> QED BY <2>1, <2>2
<1>4. ASSUME NEW r \in GroupRecs
      PROVE  gid_external(r) \in UserIds \cup GroupIds
  BY <1>2 DEF gid_external
<1> QED BY <1>1, <1>2, <1>3, <1>4

-----------------------------------------------------------------------------
(* How a client moves. *)

LEMMA NoJobType ==
  /\ NoJob \in Job
  /\ JobFits("idle", NoJob) /\ JobFits("down", NoJob)
  /\ JobFits("purge_members", NoJob) /\ JobFits("purge_groups", NoJob)
  /\ JobFits("purge_users", NoJob)
<1>1. NoItem \in Items
  BY DEF Items
<1> QED BY <1>1 DEF NoJob, Job, JobFits

LEMMA StepType ==
  ASSUME ClientsOK, NEW c \in Clients, NEW place \in Places, NEW j \in Job,
         JobFits(place, j), Step(c, place, j)
  PROVE  ClientsOK'
<1>1. pc' \in [Clients -> Places] /\ job' \in [Clients -> Job]
  BY DEF ClientsOK, Step
<1>2. ASSUME NEW d \in Clients PROVE JobFits(pc'[d], job'[d])
  BY DEF ClientsOK, Step
<1> QED BY <1>1, <1>2 DEF ClientsOK

LEMMA ReturnType ==
  ASSUME ClientsOK, NEW c \in Clients, NEW tag, NEW id, Return(c, tag, id)
  PROVE  ClientsOK'
<1>1. pc' \in [Clients -> Places] /\ job' \in [Clients -> Job]
  BY NoJobType DEF ClientsOK, Return, Places
<1>2. ASSUME NEW d \in Clients PROVE JobFits(pc'[d], job'[d])
  BY NoJobType DEF ClientsOK, Return
<1> QED BY <1>1, <1>2 DEF ClientsOK

LEMMA TakeItemType ==
  ASSUME ClientsOK, NEW c \in Clients, NEW r, NEW rest, TakeItem(c, r, rest),
         \/ job[c].op \in UserOps /\ r \in UserRecs /\ rest \subseteq UserRecs
         \/ job[c].op \in GroupOps /\ r \in GroupRecs /\ rest \subseteq GroupRecs
  PROVE  ClientsOK'
<1> DEFINE j == [job[c] EXCEPT !.item = r, !.todo = rest, !.off = 0]
           place == IF job[c].op \in UserOps THEN "resolve_uid" ELSE "resolve_gid"
<1>1. job[c] \in Job
  BY DEF ClientsOK
<1>2. j \in Job /\ j.op = job[c].op /\ j.item = r /\ j.todo = rest /\ j.off = 0
  BY <1>1 DEF Job, Items
<1>3. UserOps \cap GroupOps = {}
  BY DEF UserOps, GroupOps
<1>4. place \in Places
  BY DEF Places
<1>5. JobFits(place, j)
  BY <1>2, <1>3, RangesFit DEF JobFits, ConvertsUser, ConvertsGroup
<1>6. Step(c, place, j)
  BY DEF TakeItem
<1> HIDE DEF j, place
<1> QED BY <1>2, <1>4, <1>5, <1>6, StepType

LEMMA NextItemType ==
  ASSUME ClientsOK, NEW c \in Clients, NEW todo, NextItem(c, todo),
         \/ job[c].op \in UserOps /\ todo \subseteq UserRecs
         \/ job[c].op \in GroupOps /\ todo \subseteq GroupRecs
  PROVE  ClientsOK'
  BY ReturnType, TakeItemType DEF NextItem

-----------------------------------------------------------------------------
(* How the tables change. *)

LEMMA StoreUserType ==
  ASSUME NEW t, DOMAIN t \subseteq UserIds, t \in [DOMAIN t -> UserRows],
         NEW id \in UserIds, NEW row \in UserRows
  PROVE  /\ DOMAIN store_user(t, id, row) \subseteq UserIds
         /\ store_user(t, id, row) \in [DOMAIN store_user(t, id, row) -> UserRows]
  BY DEF store_user

LEMMA StoreGroupType ==
  ASSUME NEW t, DOMAIN t \subseteq GroupIds, t \in [DOMAIN t -> GroupRows],
         NEW id \in GroupIds, NEW row \in GroupRows
  PROVE  /\ DOMAIN store_group_row(t, id, row) \subseteq GroupIds
         /\ store_group_row(t, id, row) \in [DOMAIN store_group_row(t, id, row) -> GroupRows]
  BY DEF store_group_row

LEMMA OlderRow ==
  /\ \A row \in UserRows : Older(row) \in UserRows /\ Older(row).uid = row.uid
  /\ \A row \in GroupRows : Older(row) \in GroupRows /\ Older(row).gid = row.gid
  BY TtlAssumption DEF Older, UserRows, GroupRows, Ages

LEMMA AgedDomain == ASSUME NEW t PROVE DOMAIN Aged(t) = DOMAIN t
  BY DEF Aged

LEMMA AgedType ==
  ASSUME NEW t, NEW R, t \in [DOMAIN t -> R], \A row \in R : Older(row) \in R
  PROVE  Aged(t) \in [DOMAIN t -> R]
  BY DEF Aged

LEMMA PurgedType ==
  ASSUME NEW t, NEW R, t \in [DOMAIN t -> R]
  PROVE  /\ DOMAIN Purged(t) = DOMAIN t \ Expired(t)
         /\ Purged(t) \in [DOMAIN Purged(t) -> R]
         /\ \A i \in DOMAIN Purged(t) : Purged(t)[i] = t[i]
  BY DEF Purged

LEMMA CascadeType ==
  ASSUME NEW m, NEW R, m \subseteq R, NEW gone
  PROVE  cascade(m, gone) \subseteq R
  BY DEF cascade

LEMMA DeleteMembersType ==
  ASSUME NEW m, NEW R, m \subseteq R, NEW gone
  PROVE  delete_members(m, gone) \subseteq R
  BY DEF delete_members

LEMMA ReportType ==
  ASSUME DirectoryOK, NEW recs, recs \subseteq UserRecs, Report(recs)
  PROVE  DOMAIN reported' \subseteq UserIds /\ reported' \in [DOMAIN reported' -> UserRecs]
<1> DEFINE f == [i \in DOMAIN reported \cup {r.id : r \in recs} |->
                   IF \E r \in recs : r.id = i THEN CHOOSE r \in recs : r.id = i
                                               ELSE reported[i]]
<1>1. ASSUME NEW i \in DOMAIN reported \cup {r.id : r \in recs}
      PROVE  f[i] \in UserRecs
  <2>1. CASE \E r \in recs : r.id = i
    BY <2>1
  <2>2. CASE ~\E r \in recs : r.id = i
    BY <2>2 DEF DirectoryOK
  <2> QED BY <2>1, <2>2
<1>2. DOMAIN f \subseteq UserIds
  BY ResourceFields DEF DirectoryOK
<1>3. reported' = f
  BY DEF Report
<1> QED BY <1>1, <1>2, <1>3

-----------------------------------------------------------------------------
(* Type correctness. *)

LEMMA TypeInit == Init => TypeOK
<1> SUFFICES ASSUME Init PROVE TypeOK
  OBVIOUS
<1>1. DirectoryOK
  BY DirectoryAssumption DEF Init, DirectoryOK, EmptyTable
<1>2. DatabaseOK
  BY DEF Init, DatabaseOK, EmptyTable
<1>3. ClientsOK
  BY NoJobType DEF Init, ClientsOK, Places
<1> QED BY <1>1, <1>2, <1>3 DEF TypeOK

(* Rows built from a job that is ready to be stored. *)
LEMMA RowType ==
  ASSUME NEW j \in Job
  PROVE  /\ ConvertsUser(j) /\ j.uid \in UidSlots /\ j.gid \in GidSlots => UserRow(j) \in UserRows
         /\ ConvertsGroup(j) /\ j.gid \in GidSlots => GroupRow(j) \in GroupRows
  BY ResourceFields, TtlAssumption
     DEF UserRow, GroupRow, UserRows, GroupRows, ConvertsUser, ConvertsGroup, Ages

LEMMA DirectoryNext == ASSUME TypeOK, [Next]_vars PROVE DirectoryOK'
<1>1. CASE UNCHANGED envVars
  BY <1>1 DEF TypeOK, DirectoryOK, envVars
<1>2. CASE EditUsers
  BY <1>2 DEF EditUsers, Put, TypeOK, DirectoryOK
<1>3. CASE EditGroups
  BY <1>3 DEF EditGroups, Put, TypeOK, DirectoryOK
<1>4. ASSUME NEW c \in Clients, ScimUser(c) PROVE DirectoryOK'
  <2>1. {r \in dir_users : r.user_name = job[c].name} \subseteq UserRecs
    BY DEF TypeOK, DirectoryOK
  <2>2. Report({r \in dir_users : r.user_name = job[c].name})
    BY <1>4 DEF ScimUser
  <2>3. DOMAIN reported' \subseteq UserIds /\ reported' \in [DOMAIN reported' -> UserRecs]
    BY <2>1, <2>2, ReportType DEF TypeOK
  <2> QED BY <1>4, <2>3 DEF ScimUser, TypeOK, DirectoryOK
<1>5. ASSUME NEW c \in Clients, ScimUserList(c) PROVE DirectoryOK'
  <2>1. DOMAIN reported' \subseteq UserIds /\ reported' \in [DOMAIN reported' -> UserRecs]
    BY <1>5, ReportType DEF ScimUserList, TypeOK, DirectoryOK
  <2> QED BY <1>5, <2>1 DEF ScimUserList, TypeOK, DirectoryOK
<1>6. ASSUME NEW c \in Clients, Exit(c) PROVE DirectoryOK'
  BY <1>6, DirectoryAssumption DEF Exit, TypeOK, DirectoryOK
<1>7. Tick => UNCHANGED envVars
  BY DEF Tick
<1>8. ASSUME NEW c \in Clients, Start(c) \/ Ask(c) PROVE UNCHANGED envVars
  BY <1>8 DEF Start, Ask, CallByName, CallByNum, CallList, TooLong, Begin
<1>9. ASSUME NEW c \in Clients, Work(c), ~ScimUser(c), ~ScimUserList(c) PROVE UNCHANGED envVars
  BY <1>9 DEF Work, PurgeMembers, PurgeGroups, PurgeUsers, ScimGroup, ScimGroupList,
       ScimFailed, ReadUser, ReadGroup, ReadMembers, ReadGroupsForMember, ResolveUid,
       ResolveGid, ResolveGids, StoreUser, StoreGroup, DeleteMembers, InsertMember,
       MembersInserted, DbFail
<1>10. CASE UNCHANGED vars
  BY <1>1, <1>10 DEF vars, envVars
<1> QED BY <1>1, <1>2, <1>3, <1>4, <1>5, <1>6, <1>7, <1>8, <1>9, <1>10 DEF Next

(* The steps that leave the database alone. *)
LEMMA DatabaseUnchanged ==
  ASSUME [Next]_vars, ~Tick,
         \A c \in Clients : /\ ~PurgeMembers(c) /\ ~PurgeGroups(c) /\ ~PurgeUsers(c)
                            /\ ~StoreUser(c) /\ ~StoreGroup(c)
                            /\ ~DeleteMembers(c) /\ ~InsertMember(c)
  PROVE  UNCHANGED dbVars
<1>1. CASE EditUsers \/ EditGroups
  BY <1>1 DEF EditUsers, EditGroups
<1>2. ASSUME NEW c \in Clients, Start(c) \/ Ask(c) \/ Exit(c) PROVE UNCHANGED dbVars
  BY <1>2 DEF Start, Ask, Exit, CallByName, CallByNum, CallList, TooLong, Begin
<1>3. ASSUME NEW c \in Clients, Work(c) PROVE UNCHANGED dbVars
  BY <1>3 DEF Work, ScimUser, ScimUserList, ScimGroup, ScimGroupList,
       ScimFailed, ReadUser, ReadGroup, ReadMembers, ReadGroupsForMember, ResolveUid,
       ResolveGid, ResolveGids, MembersInserted, DbFail
<1>4. CASE UNCHANGED vars
  BY <1>4 DEF vars, dbVars
<1> QED BY <1>1, <1>2, <1>3, <1>4 DEF Next

LEMMA DatabaseNext == ASSUME TypeOK, [Next]_vars PROVE DatabaseOK'
<1> USE DEF TypeOK, DatabaseOK
<1>1. CASE UNCHANGED dbVars
  BY <1>1 DEF dbVars
<1>2. CASE Tick
  <2>1. /\ DOMAIN uid_cache' = DOMAIN uid_cache
        /\ DOMAIN gid_cache' = DOMAIN gid_cache
    BY <1>2, AgedDomain DEF Tick
  <2>2. /\ uid_cache' \in [DOMAIN uid_cache -> UserRows]
        /\ gid_cache' \in [DOMAIN gid_cache -> GroupRows]
    BY <1>2, AgedType, OlderRow DEF Tick
  <2> QED BY <1>2, <2>1, <2>2 DEF Tick
<1>3. ASSUME NEW c \in Clients, PurgeMembers(c) PROVE DatabaseOK'
  BY <1>3, DeleteMembersType DEF PurgeMembers
<1>4. ASSUME NEW c \in Clients, PurgeGroups(c) PROVE DatabaseOK'
  <2>1. DOMAIN gid_cache' \subseteq GroupIds /\ gid_cache' \in [DOMAIN gid_cache' -> GroupRows]
    BY <1>4, PurgedType DEF PurgeGroups
  <2> QED BY <1>4, <2>1, CascadeType DEF PurgeGroups
<1>5. ASSUME NEW c \in Clients, PurgeUsers(c) PROVE DatabaseOK'
  <2>1. DOMAIN uid_cache' \subseteq UserIds /\ uid_cache' \in [DOMAIN uid_cache' -> UserRows]
    BY <1>5, PurgedType DEF PurgeUsers
  <2> QED BY <1>5, <2>1 DEF PurgeUsers
<1>6. ASSUME NEW c \in Clients, StoreUser(c) PROVE DatabaseOK'
  <2>1. job[c] \in Job /\ ConvertsUser(job[c])
        /\ job[c].uid \in UidSlots /\ job[c].gid \in GidSlots
    BY <1>6 DEF StoreUser, ClientsOK, JobFits
  <2>2. UserRow(job[c]) \in UserRows /\ job[c].item.id \in UserIds
    BY <2>1, RowType, ResourceFields DEF ConvertsUser
  <2>3. DOMAIN uid_cache' \subseteq UserIds /\ uid_cache' \in [DOMAIN uid_cache' -> UserRows]
    BY <1>6, <2>2, StoreUserType DEF StoreUser
  <2> QED BY <1>6, <2>3 DEF StoreUser
<1>7. ASSUME NEW c \in Clients, StoreGroup(c) PROVE DatabaseOK'
  <2>1. job[c] \in Job /\ ConvertsGroup(job[c]) /\ job[c].gid \in GidSlots
    BY <1>7 DEF StoreGroup, ClientsOK, JobFits
  <2>2. GroupRow(job[c]) \in GroupRows /\ job[c].item.id \in GroupIds
    BY <2>1, RowType, ResourceFields DEF ConvertsGroup
  <2>3. DOMAIN gid_cache' \subseteq GroupIds /\ gid_cache' \in [DOMAIN gid_cache' -> GroupRows]
    BY <1>7, <2>2, StoreGroupType DEF StoreGroup
  <2> QED BY <1>7, <2>3, CascadeType DEF StoreGroup
<1>8. ASSUME NEW c \in Clients, DeleteMembers(c) PROVE DatabaseOK'
  BY <1>8, DeleteMembersType DEF DeleteMembers
<1>9. ASSUME NEW c \in Clients, InsertMember(c) PROVE DatabaseOK'
  <2>1. ConvertsGroup(job[c]) /\ job[c].k \in Nat \ {0}
    BY <1>9 DEF InsertMember, ClientsOK, JobFits
  <2>2. job[c].item.id \in GroupIds /\ job[c].item.members \in Seq(Names \cup {NoDisplay})
    BY <2>1, ResourceFields DEF ConvertsGroup
  <2>3. job[c].item.members[job[c].k] \in Names \cup {NoDisplay}
    BY <1>9, <2>1, <2>2 DEF InsertMember
  <2>4. group_members' \subseteq GroupIds \X Names
    BY <1>9, <2>2, <2>3 DEF InsertMember
  <2> QED BY <1>9, <2>4 DEF InsertMember
<1> QED BY <1>1, <1>2, <1>3, <1>4, <1>5, <1>6, <1>7, <1>8, <1>9, DatabaseUnchanged

-----------------------------------------------------------------------------
(* The clients, one lemma per group of actions. *)

LEMMA StartClients ==
  ASSUME TypeOK, NEW c \in Clients,
         Start(c) \/ PurgeMembers(c) \/ PurgeGroups(c) \/ PurgeUsers(c) \/ Exit(c)
  PROVE  ClientsOK'
<1>1. {"purge_members", "purge_groups", "purge_users", "idle", "down"} \subseteq Places
  BY DEF Places
<1>2. PICK place \in {"purge_members", "purge_groups", "purge_users", "idle", "down"} :
        Step(c, place, NoJob)
  BY DEF Start, PurgeMembers, PurgeGroups, PurgeUsers, Exit
<1> QED BY <1>1, <1>2, NoJobType, StepType DEF TypeOK

LEMMA AskClients == ASSUME TypeOK, NEW c \in Clients, Ask(c) PROVE ClientsOK'
<1> USE DEF TypeOK
<1>1. ASSUME NEW op \in Ops, NEW n \in Names \cup {"none"}, NEW x \in Int,
             NEW place \in {"scim", "cache"}, Begin(c, op, n, x, place),
             place = "scim" => op \notin NumOps, place = "cache" => op \notin ListOps
      PROVE  ClientsOK'
  <2> DEFINE j == [NoJob EXCEPT !.op = op, !.name = n, !.num = x]
  <2>1. j \in Job /\ j.op = op
    BY NoJobType DEF Job, NoJob
  <2>2. JobFits(place, j)
    BY <1>1, <2>1 DEF JobFits
  <2>3. Step(c, place, j) /\ place \in Places
    BY <1>1 DEF Begin, Places
  <2> HIDE DEF j
  <2> QED BY <2>1, <2>2, <2>3, StepType
<1>2. ASSUME NEW op, NEW n, TooLong(c, op, n) PROVE ClientsOK'
  BY <1>2 DEF TooLong, clientVars, ClientsOK
<1>3. UidSlots \subseteq Int /\ GidSlots \subseteq Int
  BY RangesFit DEF UidSlots, GidSlots
<1>4. /\ NameOps \cap NumOps = {} /\ ListOps \cap NumOps = {}
      /\ NameOps \subseteq Ops /\ ListOps \subseteq Ops /\ NumOps \subseteq Ops
      /\ "user_by_uid" \in NumOps /\ "group_by_gid" \in NumOps
  BY DEF NameOps, NumOps, ListOps, Ops
<1>5. ASSUME NEW op \in NameOps, NEW n \in Names, CallByName(c, op, n) PROVE ClientsOK'
  <2>1. CASE n \in LongNames
    BY <1>2, <1>5, <2>1 DEF CallByName
  <2>2. CASE n \notin LongNames
    <3>1. Begin(c, op, n, 0, "scim")
      BY <1>5, <2>2 DEF CallByName
    <3> QED BY <1>1, <1>4, <3>1
  <2> QED BY <2>1, <2>2
<1>6. ASSUME NEW op \in NumOps, NEW x \in Int, CallByNum(c, op, x) PROVE ClientsOK'
  <2>1. Begin(c, op, "none", x, "cache")
    BY <1>6 DEF CallByNum
  <2> QED BY <1>1, <1>4, <2>1
<1>7. ASSUME NEW op \in ListOps, CallList(c, op) PROVE ClientsOK'
  <2>1. Begin(c, op, "none", 0, "scim")
    BY <1>7 DEF CallList
  <2> QED BY <1>1, <1>4, <2>1
<1> QED BY <1>3, <1>4, <1>5, <1>6, <1>7 DEF Ask

LEMMA FallBackType ==
  ASSUME ClientsOK, NEW c \in Clients, FallBack(c), job[c].op \in Ops \ ListOps
  PROVE  ClientsOK'
<1>1. job[c] \in Job /\ JobFits("cache", job[c]) /\ "cache" \in Places
  BY DEF ClientsOK, JobFits, Places
<1> QED BY <1>1, StepType DEF FallBack

LEMMA ScimClients ==
  ASSUME TypeOK, NEW c \in Clients,
         ScimUser(c) \/ ScimGroup(c) \/ ScimUserList(c) \/ ScimGroupList(c) \/ ScimFailed(c)
  PROVE  ClientsOK'
<1> USE DEF TypeOK
<1>1. /\ UserOps \ ListOps \subseteq Ops \ ListOps
      /\ "group_by_name" \in Ops \ ListOps /\ "group_by_name" \in GroupOps
      /\ "list_users" \in UserOps /\ "list_groups" \in GroupOps
  BY DEF UserOps, GroupOps, NameOps, NumOps, ListOps, Ops
<1>2. CASE ScimUser(c)
  <2>1. ASSUME NEW r \in dir_users, TakeItem(c, r, {}) PROVE ClientsOK'
    BY <1>2, <2>1, TakeItemType DEF ScimUser, DirectoryOK
  <2>2. job[c].op \in {"user_by_name", "check_active", "groups_for_user"}
    BY <1>2 DEF ScimUser, UserOps, ListOps
  <2>3. \/ \E r \in dir_users : TakeItem(c, r, {})
        \/ FallBack(c)
        \/ \E tag \in {"inactive", "gids"} : Return(c, tag, "none")
    BY <1>2, <2>2 DEF ScimUser
  <2>4. job[c].op \in Ops \ ListOps
    BY <1>1, <1>2 DEF ScimUser
  <2> QED BY <2>1, <2>3, <2>4, FallBackType, ReturnType
<1>3. CASE ScimGroup(c)
  <2>1. ASSUME NEW r \in dir_groups, TakeItem(c, r, {}) PROVE ClientsOK'
    BY <1>1, <1>3, <2>1, TakeItemType DEF ScimGroup, DirectoryOK
  <2> QED BY <1>1, <1>3, <2>1, FallBackType DEF ScimGroup
<1>4. CASE ScimUserList(c)
  BY <1>1, <1>4, NextItemType DEF ScimUserList, DirectoryOK
<1>5. CASE ScimGroupList(c)
  BY <1>1, <1>5, NextItemType DEF ScimGroupList, DirectoryOK
<1>6. CASE ScimFailed(c)
  <2>1. job[c].op \in Ops
    BY <1>6 DEF ScimFailed, ClientsOK, JobFits
  <2> QED BY <1>6, <2>1, FallBackType, ReturnType DEF ScimFailed
<1> QED BY <1>2, <1>3, <1>4, <1>5, <1>6

LEMMA ReadClients ==
  ASSUME TypeOK, NEW c \in Clients,
         ReadUser(c) \/ ReadGroup(c) \/ ReadMembers(c) \/ ReadGroupsForMember(c)
  PROVE  ClientsOK'
<1> USE DEF TypeOK
<1>1. CASE ReadUser(c)
  BY <1>1, ReturnType DEF ReadUser
<1>2. CASE ReadGroup(c)
  <2>1. ASSUME NEW i \in DOMAIN gid_cache,
               Step(c, "read_members", [job[c] EXCEPT !.item = [id |-> i]])
        PROVE  ClientsOK'
    <3>1. [job[c] EXCEPT !.item = [id |-> i]] \in Job
      BY DEF ClientsOK, Job, Items, DatabaseOK
    <3>2. "read_members" \in Places /\ \A j : JobFits("read_members", j)
      BY DEF Places, JobFits
    <3> QED BY <2>1, <3>1, <3>2, StepType
  <2>2. \A x : get_group_by_gid(gid_cache, x) \subseteq DOMAIN gid_cache
               /\ get_group_by_name(gid_cache, x) \subseteq DOMAIN gid_cache
    BY DEF get_group_by_gid, get_group_by_name
  <2> QED BY <1>2, <2>1, <2>2, ReturnType DEF ReadGroup
<1>3. CASE ReadMembers(c) \/ ReadGroupsForMember(c)
  BY <1>3, ReturnType DEF ReadMembers, ReadGroupsForMember
<1> QED BY <1>1, <1>2, <1>3

LEMMA ResolveUidClients == ASSUME TypeOK, NEW c \in Clients, ResolveUid(c) PROVE ClientsOK'
<1> DEFINE j == job[c]
           cand == UidCandidate(j.item.id, j.off)
<1>1. j \in Job /\ ConvertsUser(j) /\ j.off \in 0..UidSize
  BY DEF ResolveUid, TypeOK, ClientsOK, JobFits
<1>2. j.item.id \in UserIds
  BY <1>1, ResourceFields DEF ConvertsUser
<1>3. UidSize \in Nat /\ GidSize \in Nat /\ UidSlots \subseteq Int
  BY RangesFit DEF UidSlots
<1>4. CASE j.off # UidSize /\ Step(c, "resolve_uid", [j EXCEPT !.off = @ + 1])
  <2> DEFINE k == [j EXCEPT !.off = @ + 1]
  <2>1. k \in Job /\ k.off = j.off + 1 /\ k.op = j.op /\ k.item = j.item /\ k.todo = j.todo
    BY <1>1 DEF Job
  <2>2. JobFits("resolve_uid", k) /\ "resolve_uid" \in Places
    BY <1>1, <1>3, <1>4, <2>1 DEF JobFits, ConvertsUser, Places
  <2> HIDE DEF k
  <2> QED BY <1>4, <2>1, <2>2, StepType DEF TypeOK, k
<1>5. CASE j.off # UidSize /\ Step(c, "resolve_gid", [j EXCEPT !.uid = cand, !.off = 0])
  <2> DEFINE k == [j EXCEPT !.uid = cand, !.off = 0]
  <2>1. cand \in UidSlots
    BY <1>1, <1>2, <1>3, <1>5, CandidatesInSlots
  <2>2. k \in Job /\ k.off = 0 /\ k.uid = cand /\ k.op = j.op /\ k.item = j.item /\ k.todo = j.todo
    BY <1>1, <1>3, <2>1 DEF Job
  <2>3. JobFits("resolve_gid", k) /\ "resolve_gid" \in Places
    BY <1>1, <1>3, <2>1, <2>2 DEF JobFits, ConvertsUser, Places
  <2> HIDE DEF k
  <2> QED BY <1>5, <2>2, <2>3, StepType DEF TypeOK, k
<1> QED BY <1>4, <1>5, ReturnType DEF ResolveUid, TypeOK

LEMMA ResolveGidClients == ASSUME TypeOK, NEW c \in Clients, ResolveGid(c) PROVE ClientsOK'
<1> DEFINE j == job[c]
           ext == gid_external(j.item)
           cand == GidCandidate(ext, j.off)
           place == IF j.op \in UserOps THEN "store_user" ELSE "store_group"
<1>1. /\ j \in Job /\ j.off \in 0..GidSize
      /\ (ConvertsUser(j) /\ j.uid \in UidSlots) \/ ConvertsGroup(j)
  BY DEF ResolveGid, TypeOK, ClientsOK, JobFits
<1>2. ext \in UserIds \cup GroupIds
  BY <1>1, ResourceFields DEF ConvertsUser, ConvertsGroup
<1>3. GidSize \in Nat /\ GidSlots \subseteq Int /\ UserOps \cap GroupOps = {}
  BY RangesFit DEF GidSlots, UserOps, GroupOps
<1>4. CASE j.off # GidSize /\ Step(c, "resolve_gid", [j EXCEPT !.off = @ + 1])
  <2> DEFINE k == [j EXCEPT !.off = @ + 1]
  <2>1. /\ k \in Job /\ k.off = j.off + 1 /\ k.uid = j.uid
        /\ k.op = j.op /\ k.item = j.item /\ k.todo = j.todo
    BY <1>1 DEF Job
  <2>2. JobFits("resolve_gid", k) /\ "resolve_gid" \in Places
    BY <1>1, <1>3, <1>4, <2>1 DEF JobFits, ConvertsUser, ConvertsGroup, Places
  <2> HIDE DEF k
  <2> QED BY <1>4, <2>1, <2>2, StepType DEF TypeOK, k
<1>5. CASE j.off # GidSize /\ Step(c, place, [j EXCEPT !.gid = cand, !.off = 0])
  <2> DEFINE k == [j EXCEPT !.gid = cand, !.off = 0]
  <2>1. cand \in GidSlots
    BY <1>1, <1>2, <1>3, <1>5, CandidatesInSlots
  <2>2. /\ k \in Job /\ k.gid = cand /\ k.uid = j.uid
        /\ k.op = j.op /\ k.item = j.item /\ k.todo = j.todo
    BY <1>1, <1>3, <2>1 DEF Job
  <2>3. JobFits(place, k) /\ place \in Places
    BY <1>1, <1>3, <2>1, <2>2 DEF JobFits, ConvertsUser, ConvertsGroup, Places
  <2> HIDE DEF k, place
  <2> QED BY <1>5, <2>2, <2>3, StepType DEF TypeOK, k
<1> QED BY <1>4, <1>5, ReturnType DEF ResolveGid, TypeOK

LEMMA ResolveGidsClients == ASSUME TypeOK, NEW c \in Clients, ResolveGids(c) PROVE ClientsOK'
<1> DEFINE j == job[c]
<1>1. j \in Job /\ ConvertsUser(j) /\ j.k \in Nat \ {0} /\ j.off \in 0..GidSize
  BY DEF ResolveGids, TypeOK, ClientsOK, JobFits
<1>2. GidSize \in Nat
  BY RangesFit
<1>3. CASE j.off # GidSize /\ Step(c, "resolve_gids", [j EXCEPT !.off = @ + 1])
  <2> DEFINE i == [j EXCEPT !.off = @ + 1]
  <2>1. /\ i \in Job /\ i.off = j.off + 1 /\ i.k = j.k
        /\ i.op = j.op /\ i.item = j.item /\ i.todo = j.todo
    BY <1>1 DEF Job
  <2>2. JobFits("resolve_gids", i) /\ "resolve_gids" \in Places
    BY <1>1, <1>2, <1>3, <2>1 DEF JobFits, ConvertsUser, Places
  <2> HIDE DEF i
  <2> QED BY <1>3, <2>1, <2>2, StepType DEF TypeOK, i
<1>4. CASE Step(c, "resolve_gids", [j EXCEPT !.k = @ + 1, !.off = 0])
  <2> DEFINE i == [j EXCEPT !.k = @ + 1, !.off = 0]
  <2> DEFINE m == [j EXCEPT !.k = @ + 1]
  <2>0. m \in Job /\ m.k = j.k + 1 /\ m.op = j.op /\ m.item = j.item /\ m.todo = j.todo
    BY <1>1 DEF Job
  <2>1. /\ i \in Job /\ i.off = 0 /\ i.k = j.k + 1
        /\ i.op = j.op /\ i.item = j.item /\ i.todo = j.todo
    <3>1. i = [m EXCEPT !.off = 0]
      OBVIOUS
    <3> HIDE DEF i, m
    <3> QED BY <2>0, <3>1 DEF Job
  <2>2. JobFits("resolve_gids", i) /\ "resolve_gids" \in Places
    BY <1>1, <1>2, <2>1 DEF JobFits, ConvertsUser, Places
  <2> HIDE DEF i
  <2> QED BY <1>4, <2>1, <2>2, StepType DEF TypeOK, i
<1> QED BY <1>3, <1>4, ReturnType DEF ResolveGids, TypeOK

LEMMA StoreClients ==
  ASSUME TypeOK, NEW c \in Clients,
         \/ StoreUser(c) \/ StoreGroup(c) \/ DeleteMembers(c) \/ InsertMember(c)
         \/ MembersInserted(c)
  PROVE  ClientsOK'
<1> DEFINE j == job[c]
<1>1. j \in Job
  BY DEF TypeOK, ClientsOK
<1>2. CASE StoreUser(c)
  <2>1. ConvertsUser(j)
    BY <1>2 DEF StoreUser, TypeOK, ClientsOK, JobFits
  <2>2. ASSUME Step(c, "resolve_gids", [j EXCEPT !.k = 1, !.off = 0]) PROVE ClientsOK'
    <3> DEFINE i == [j EXCEPT !.k = 1, !.off = 0]
    <3>1. i \in Job /\ i.off = 0 /\ i.k = 1 /\ i.op = j.op /\ i.item = j.item /\ i.todo = j.todo
      BY <1>1 DEF Job
    <3>2. JobFits("resolve_gids", i) /\ "resolve_gids" \in Places
      BY <2>1, <3>1, RangesFit DEF JobFits, ConvertsUser, Places
    <3> HIDE DEF i
    <3> QED BY <2>2, <3>1, <3>2, StepType DEF TypeOK, i
  <2>3. ASSUME NextItem(c, j.todo) PROVE ClientsOK'
    BY <2>1, <2>3, NextItemType DEF TypeOK, ConvertsUser
  <2>4. j.op \in UserOps
    BY <2>1 DEF ConvertsUser
  <2> QED BY <1>2, <2>2, <2>3, <2>4, ReturnType DEF StoreUser, TypeOK, UserOps
<1>3. CASE StoreGroup(c)
  <2>1. JobFits("delete_members", j) /\ "delete_members" \in Places
    BY <1>3 DEF StoreGroup, TypeOK, ClientsOK, JobFits, Places
  <2> QED BY <1>1, <1>3, <2>1, StepType DEF StoreGroup, TypeOK
<1>4. ASSUME NEW n \in Nat \ {0}, ConvertsGroup(j), j.gid \in GidSlots,
             Step(c, "insert_members", [j EXCEPT !.k = n])
      PROVE  ClientsOK'
  <2> DEFINE i == [j EXCEPT !.k = n]
  <2>1. /\ i \in Job /\ i.k = n /\ i.gid = j.gid
        /\ i.op = j.op /\ i.item = j.item /\ i.todo = j.todo
    BY <1>1 DEF Job
  <2>2. JobFits("insert_members", i) /\ "insert_members" \in Places
    BY <1>4, <2>1 DEF JobFits, ConvertsGroup, Places
  <2> HIDE DEF i
  <2> QED BY <1>4, <2>1, <2>2, StepType DEF TypeOK, i
<1>5. CASE DeleteMembers(c)
  <2>1. ConvertsGroup(j) /\ j.gid \in GidSlots
    BY <1>5 DEF DeleteMembers, TypeOK, ClientsOK, JobFits
  <2> QED BY <1>4, <1>5, <2>1 DEF DeleteMembers
<1>6. CASE InsertMember(c) \/ MembersInserted(c)
  <2>1. ConvertsGroup(j) /\ j.gid \in GidSlots /\ j.k \in Nat \ {0}
    BY <1>6 DEF InsertMember, MembersInserted, TypeOK, ClientsOK, JobFits
  <2>2. CASE InsertMember(c)
    <3>1. [j EXCEPT !.k = @ + 1] = [j EXCEPT !.k = j.k + 1]
      OBVIOUS
    <3>2. j.k + 1 \in Nat \ {0}
      BY <2>1
    <3>3. \/ Step(c, "insert_members", [j EXCEPT !.k = @ + 1])
          \/ Return(c, "error", "none")
      BY <2>2 DEF InsertMember
    <3> QED BY <1>4, <2>1, <3>1, <3>2, <3>3, ReturnType DEF TypeOK
  <2>3. CASE MembersInserted(c)
    <3>1. j.op \in GroupOps /\ j.todo \subseteq GroupRecs
      BY <2>1 DEF ConvertsGroup
    <3> QED BY <2>3, <3>1, ReturnType, NextItemType DEF MembersInserted, TypeOK
  <2> QED BY <1>6, <2>2, <2>3
<1> QED BY <1>2, <1>3, <1>5, <1>6

LEMMA ClientsNext == ASSUME TypeOK, [Next]_vars PROVE ClientsOK'
<1>1. CASE UNCHANGED clientVars
  BY <1>1 DEF TypeOK, ClientsOK, clientVars
<1>2. EditUsers \/ EditGroups \/ Tick \/ UNCHANGED vars => UNCHANGED clientVars
  BY DEF EditUsers, EditGroups, Tick, vars, clientVars
<1>3. ASSUME NEW c \in Clients, DbFail(c) PROVE ClientsOK'
  <2>1. "idle" \in Places
    BY DEF Places
  <2> QED BY <1>3, <2>1, NoJobType, StepType, ReturnType DEF DbFail, TypeOK
<1>4. ASSUME NEW c \in Clients, Work(c) PROVE ClientsOK'
  BY <1>3, <1>4, StartClients, ScimClients, ReadClients, ResolveUidClients,
     ResolveGidClients, ResolveGidsClients, StoreClients DEF Work
<1> QED BY <1>1, <1>2, <1>4, StartClients, AskClients DEF Next

(* Every reachable state is well typed: in particular every uid and gid    *)
(* that is resolved or stored lies in its configured range, and every      *)
(* client works on a resource of the kind its step expects.                *)
THEOREM ServiceTypeCorrect == Spec => []TypeOK
<1>1. TypeOK /\ [Next]_vars => TypeOK'
  BY DirectoryNext, DatabaseNext, ClientsNext DEF TypeOK
<1> QED BY <1>1, TypeInit, PTL DEF Spec

-----------------------------------------------------------------------------
(* The constraints of the tables, for any number of clients.  The UNIQUE   *)
(* columns are what the proofs about resolution rest on.                   *)

UniqueUids ==
  \A i, j \in DOMAIN uid_cache : uid_cache[i].uid = uid_cache[j].uid => i = j
UniqueGids ==
  \A i, j \in DOMAIN gid_cache : gid_cache[i].gid = gid_cache[j].gid => i = j

Constraints == UniqueUids /\ UniqueGids /\ MembersHaveGroup

LEMMA ConstraintsNext ==
  ASSUME TypeOK, Constraints, [Next]_vars PROVE Constraints'
<1> USE DEF Constraints, UniqueUids, UniqueGids, MembersHaveGroup
<1>1. CASE UNCHANGED dbVars
  BY <1>1 DEF dbVars
<1>2. CASE Tick
  <2>1. /\ DOMAIN uid_cache' = DOMAIN uid_cache
        /\ \A i \in DOMAIN uid_cache : uid_cache'[i].uid = uid_cache[i].uid
    BY <1>2, OlderRow DEF Tick, Aged, TypeOK, DatabaseOK
  <2>2. /\ DOMAIN gid_cache' = DOMAIN gid_cache
        /\ \A i \in DOMAIN gid_cache : gid_cache'[i].gid = gid_cache[i].gid
    BY <1>2, OlderRow DEF Tick, Aged, TypeOK, DatabaseOK
  <2> QED BY <1>2, <2>1, <2>2 DEF Tick
<1>3. ASSUME NEW c \in Clients, PurgeMembers(c) \/ DeleteMembers(c) PROVE Constraints'
  BY <1>3 DEF PurgeMembers, DeleteMembers, delete_members
<1>4. ASSUME NEW c \in Clients, PurgeGroups(c) PROVE Constraints'
  <2>1. /\ DOMAIN gid_cache' = DOMAIN gid_cache \ Expired(gid_cache)
        /\ \A i \in DOMAIN gid_cache' : gid_cache'[i] = gid_cache[i]
    BY <1>4, PurgedType DEF PurgeGroups, TypeOK, DatabaseOK
  <2> QED BY <1>4, <2>1 DEF PurgeGroups, cascade
<1>5. ASSUME NEW c \in Clients, PurgeUsers(c) PROVE Constraints'
  <2>1. /\ DOMAIN uid_cache' \subseteq DOMAIN uid_cache
        /\ \A i \in DOMAIN uid_cache' : uid_cache'[i] = uid_cache[i]
    BY <1>5, PurgedType DEF PurgeUsers, TypeOK, DatabaseOK
  <2> QED BY <1>5, <2>1 DEF PurgeUsers
<1>6. ASSUME NEW c \in Clients, StoreUser(c) PROVE Constraints'
  <2>1. uid_cache' = store_user(uid_cache, job[c].item.id, UserRow(job[c]))
    BY <1>6 DEF StoreUser
  <2>2. UniqueUids'
    BY <2>1 DEF store_user
  <2> QED BY <1>6, <2>2 DEF StoreUser
<1>7. ASSUME NEW c \in Clients, StoreGroup(c) PROVE Constraints'
  <2>1. gid_cache' = store_group_row(gid_cache, job[c].item.id, GroupRow(job[c]))
    BY <1>7 DEF StoreGroup
  <2>2. UniqueGids'
    BY <2>1 DEF store_group_row, GroupsReplaced
  <2>3. MembersHaveGroup'
    BY <1>7, <2>1 DEF StoreGroup, store_group_row, cascade
  <2> QED BY <1>7, <2>2, <2>3 DEF StoreGroup
<1>8. ASSUME NEW c \in Clients, InsertMember(c) PROVE Constraints'
  BY <1>8 DEF InsertMember
<1> QED BY <1>1, <1>2, <1>3, <1>4, <1>5, <1>6, <1>7, <1>8, DatabaseUnchanged

LEMMA ConstraintsAlways == Spec => []Constraints
<1>1. Init => Constraints
  BY DEF Init, EmptyTable, Constraints, UniqueUids, UniqueGids, MembersHaveGroup
<1>2. TypeOK /\ Constraints /\ [Next]_vars => Constraints'
  BY ConstraintsNext
<1> QED BY <1>1, <1>2, ServiceTypeCorrect, PTL DEF Spec

(* What INSERT OR REPLACE keeps, whatever is resolved. *)
LEMMA UniqueAlways == Spec => [](UniqueUids /\ UniqueGids)
<1>1. Constraints => UniqueUids /\ UniqueGids
  BY DEF Constraints
<1> QED BY <1>1, ConstraintsAlways, PTL

(* No process leaves memberships of a group that is not cached, whatever   *)
(* the others do between its statements.                                   *)
THEOREM ServiceMembersHaveGroup == Spec => []MembersHaveGroup
<1>1. Constraints => MembersHaveGroup
  BY DEF Constraints
<1> QED BY <1>1, ConstraintsAlways, PTL

-----------------------------------------------------------------------------
(* How a call gets to its end. *)

(* The order in which a call, or the start-up purge, gets to its places,   *)
(* counted from the end.                                                   *)
Rank(place) ==
  CASE place = "scim" -> 9 [] place = "resolve_uid" -> 8 [] place = "resolve_gid" -> 7
    [] place \in {"store_user", "store_group"} -> 6 [] place = "delete_members" -> 5
    [] place = "insert_members" -> 4 [] place \in {"resolve_gids", "purge_members"} -> 3
    [] place \in {"cache", "purge_groups"} -> 2
    [] place \in {"read_members", "purge_users"} -> 1
    [] place \in {"idle", "down"} -> 0

(* How far the loop at a place can count. *)
LastOff(place) == IF place = "resolve_uid" THEN UidSize ELSE GidSize
LastK(place, item) ==
  Len(IF place = "resolve_gids" THEN item.groups ELSE item.members) + 1

(* The loop a call is in turns: it takes the next element of a list, or    *)
(* probes the next slot for the same one, and neither without end.         *)
LoopTurns(place, j, next) ==
  /\ next.item = j.item
  /\ \/ j.k < next.k /\ next.k <= LastK(place, j.item)
     \/ next.k = j.k /\ j.off < next.off /\ next.off <= LastOff(place)

(* A step of the client ends its call, takes it from the directory's       *)
(* answer to the work on it, leaves fewer resources to store, gets to a    *)
(* later place with the same ones left, or turns the loop it is in.        *)
Closer(c) ==
  \/ pc'[c] = "idle"
  \/ pc[c] = "scim" /\ pc'[c] # "scim"
  \/ /\ pc[c] # "scim" /\ pc'[c] # "scim"
     /\ \/ job'[c].todo \subseteq job[c].todo /\ job'[c].todo # job[c].todo
        \/ job'[c].todo = job[c].todo /\ Rank(pc'[c]) < Rank(pc[c])
        \/ /\ job'[c].todo = job[c].todo /\ pc'[c] = pc[c]
           /\ LoopTurns(pc[c], job[c], job'[c])

LEMMA StepMoves ==
  ASSUME ClientsOK, NEW c \in Clients, NEW place, NEW j, Step(c, place, j)
  PROVE  /\ pc'[c] = place /\ job'[c] = j
         /\ \A d \in Clients \ {c} : pc'[d] = pc[d] /\ job'[d] = job[d]
  BY DEF ClientsOK, Step

LEMMA ReturnMoves ==
  ASSUME ClientsOK, NEW c \in Clients, NEW tag, NEW id, Return(c, tag, id)
  PROVE  /\ pc'[c] = "idle"
         /\ \A d \in Clients \ {c} : pc'[d] = pc[d] /\ job'[d] = job[d]
  BY DEF ClientsOK, Return

LEMMA ReturnCloser ==
  ASSUME ClientsOK, NEW c \in Clients, NEW tag, NEW id, Return(c, tag, id)
  PROVE  Closer(c)
  BY ReturnMoves DEF Closer

LEMMA TakeItemMoves ==
  ASSUME ClientsOK, NEW c \in Clients, NEW r, NEW rest, TakeItem(c, r, rest)
  PROVE  /\ pc'[c] \in {"resolve_uid", "resolve_gid"} /\ job'[c].todo = rest
         /\ \A d \in Clients \ {c} : pc'[d] = pc[d] /\ job'[d] = job[d]
<1> DEFINE j == [job[c] EXCEPT !.item = r, !.todo = rest, !.off = 0]
           place == IF job[c].op \in UserOps THEN "resolve_uid" ELSE "resolve_gid"
<1>1. j.todo = rest
  BY DEF ClientsOK, Job
<1>2. Step(c, place, j) /\ place \in {"resolve_uid", "resolve_gid"}
  BY DEF TakeItem
<1> HIDE DEF j, place
<1> QED BY <1>1, <1>2, StepMoves

LEMMA NextItemCloser ==
  ASSUME ClientsOK, NEW c \in Clients, NEW todo, NextItem(c, todo),
         pc[c] = "scim" \/ todo = job[c].todo
  PROVE  Closer(c)
<1>1. ASSUME NEW r \in todo, TakeItem(c, r, todo \ {r}) PROVE Closer(c)
  <2>1. pc'[c] \in {"resolve_uid", "resolve_gid"} /\ job'[c].todo = todo \ {r}
    BY <1>1, TakeItemMoves
  <2>2. todo \ {r} \subseteq todo /\ todo \ {r} # todo
    OBVIOUS
  <2> QED BY <2>1, <2>2 DEF Closer
<1> QED BY <1>1, ReturnCloser DEF NextItem

LEMMA PurgeCloser ==
  ASSUME TypeOK, NEW c \in Clients, PurgeMembers(c) \/ PurgeGroups(c) \/ PurgeUsers(c)
  PROVE  Closer(c)
<1>1. \/ pc'[c] = "idle"
      \/ pc[c] = "purge_members" /\ pc'[c] = "purge_groups" /\ job'[c] = NoJob
      \/ pc[c] = "purge_groups" /\ pc'[c] = "purge_users" /\ job'[c] = NoJob
  BY StepMoves DEF TypeOK, PurgeMembers, PurgeGroups, PurgeUsers
<1>2. NoJob.todo \subseteq job[c].todo
  BY DEF NoJob
<1> QED BY <1>1, <1>2 DEF Closer, Rank

LEMMA ScimCloser ==
  ASSUME TypeOK, NEW c \in Clients,
         ScimUser(c) \/ ScimGroup(c) \/ ScimUserList(c) \/ ScimGroupList(c) \/ ScimFailed(c)
  PROVE  Closer(c)
<1> USE DEF TypeOK
<1>0. pc[c] = "scim"
  BY DEF ScimUser, ScimGroup, ScimUserList, ScimGroupList, ScimFailed
<1>1. ASSUME FallBack(c) PROVE Closer(c)
  BY <1>0, <1>1, StepMoves DEF FallBack, Closer
<1>2. ASSUME NEW r, TakeItem(c, r, {}) PROVE Closer(c)
  BY <1>0, <1>2, TakeItemMoves DEF Closer
<1>3. CASE ScimUser(c)
  <2>1. job[c].op \in {"user_by_name", "check_active", "groups_for_user"}
    BY <1>3 DEF ScimUser, UserOps, ListOps
  <2>2. \/ \E r : TakeItem(c, r, {})
        \/ FallBack(c)
        \/ \E tag \in {"inactive", "gids"} : Return(c, tag, "none")
    BY <1>3, <2>1 DEF ScimUser
  <2> QED BY <1>1, <1>2, <2>2, ReturnCloser
<1>4. CASE ScimGroup(c)
  BY <1>1, <1>2, <1>4 DEF ScimGroup
<1>5. CASE ScimUserList(c) \/ ScimGroupList(c)
  BY <1>0, <1>5, NextItemCloser DEF ScimUserList, ScimGroupList
<1>6. CASE ScimFailed(c)
  BY <1>1, <1>6, ReturnCloser DEF ScimFailed
<1> QED BY <1>3, <1>4, <1>5, <1>6

LEMMA ReadCloser ==
  ASSUME TypeOK, NEW c \in Clients,
         ReadUser(c) \/ ReadGroup(c) \/ ReadMembers(c) \/ ReadGroupsForMember(c)
  PROVE  Closer(c)
<1> USE DEF TypeOK
<1>1. CASE ReadUser(c) \/ ReadMembers(c) \/ ReadGroupsForMember(c)
  BY <1>1, ReturnCloser DEF ReadUser, ReadMembers, ReadGroupsForMember
<1>2. CASE ReadGroup(c)
  <2>1. ASSUME NEW i, Step(c, "read_members", [job[c] EXCEPT !.item = [id |-> i]])
        PROVE  Closer(c)
    <3> DEFINE next == [job[c] EXCEPT !.item = [id |-> i]]
    <3>1. next.todo = job[c].todo /\ Step(c, "read_members", next)
      BY <2>1 DEF ClientsOK, Job
    <3> HIDE DEF next
    <3>2. pc[c] = "cache" /\ pc'[c] = "read_members" /\ job'[c].todo = job[c].todo
      BY <1>2, <3>1, StepMoves DEF ReadGroup
    <3> QED BY <3>2 DEF Closer, Rank
  <2> QED BY <1>2, <2>1, ReturnCloser DEF ReadGroup
<1> QED BY <1>1, <1>2

LEMMA ResolveCloser ==
  ASSUME TypeOK, NEW c \in Clients, ResolveUid(c) \/ ResolveGid(c) \/ ResolveGids(c)
  PROVE  Closer(c)
<1> USE DEF TypeOK
<1>1. job[c] \in Job /\ JobFits(pc[c], job[c]) /\ UidSize \in Nat /\ GidSize \in Nat
  BY RangesFit DEF ClientsOK
<1>2. ASSUME NEW place, NEW next, Step(c, place, next), next.todo = job[c].todo,
             pc[c] # "scim", place # "scim",
             \/ Rank(place) < Rank(pc[c])
             \/ place = pc[c] /\ LoopTurns(pc[c], job[c], next)
      PROVE  Closer(c)
  BY <1>2, StepMoves DEF Closer
<1>3. CASE ResolveUid(c)
  <2> DEFINE j == job[c]
             cand == UidCandidate(j.item.id, j.off)
             probe == [j EXCEPT !.off = @ + 1]
             found == [j EXCEPT !.uid = cand, !.off = 0]
  <2>1. pc[c] = "resolve_uid" /\ j.off \in 0..UidSize
    BY <1>1, <1>3 DEF ResolveUid, JobFits
  <2>2. /\ probe.todo = j.todo /\ probe.item = j.item /\ probe.k = j.k /\ probe.off = j.off + 1
        /\ found.todo = j.todo
    BY <1>1 DEF Job
  <2>3. j.off # UidSize => LoopTurns("resolve_uid", j, probe)
    BY <1>1, <2>1, <2>2 DEF LoopTurns, LastOff
  <2>4. \/ Return(c, "exhausted", j.item.id)
        \/ j.off # UidSize /\ Step(c, "resolve_uid", probe)
        \/ Step(c, "resolve_gid", found)
    BY <1>3 DEF ResolveUid
  <2> HIDE DEF probe, found
  <2> QED BY <1>2, <2>1, <2>2, <2>3, <2>4, ReturnCloser DEF Rank
<1>4. CASE ResolveGid(c)
  <2> DEFINE j == job[c]
             cand == GidCandidate(gid_external(j.item), j.off)
             place == IF j.op \in UserOps THEN "store_user" ELSE "store_group"
             probe == [j EXCEPT !.off = @ + 1]
             found == [j EXCEPT !.gid = cand, !.off = 0]
  <2>1. pc[c] = "resolve_gid" /\ j.off \in 0..GidSize
    BY <1>1, <1>4 DEF ResolveGid, JobFits
  <2>2. /\ probe.todo = j.todo /\ probe.item = j.item /\ probe.k = j.k /\ probe.off = j.off + 1
        /\ found.todo = j.todo
    BY <1>1 DEF Job
  <2>3. j.off # GidSize => LoopTurns("resolve_gid", j, probe)
    BY <1>1, <2>1, <2>2 DEF LoopTurns, LastOff
  <2>4. \/ Return(c, "exhausted", gid_external(j.item))
        \/ j.off # GidSize /\ Step(c, "resolve_gid", probe)
        \/ Step(c, place, found)
    BY <1>4 DEF ResolveGid
  <2>5. place \in {"store_user", "store_group"}
    OBVIOUS
  <2> HIDE DEF probe, found, place
  <2> QED BY <1>2, <2>1, <2>2, <2>3, <2>4, <2>5, ReturnCloser DEF Rank
<1>5. CASE ResolveGids(c)
  <2> DEFINE j == job[c]
             probe == [j EXCEPT !.off = @ + 1]
             found == [j EXCEPT !.k = @ + 1, !.off = 0]
  <2>1. pc[c] = "resolve_gids" /\ j.off \in 0..GidSize /\ j.item \in UserRecs
    BY <1>1, <1>5 DEF ResolveGids, JobFits, ConvertsUser
  <2>2. Len(j.item.groups) \in Nat /\ j.k \in Nat
    <3>1. j.item.groups \in Seq(GroupIds)
      BY <2>1, DirectoryAssumption DEF UserResource
    <3> QED BY <1>1, <3>1 DEF Job
  <2>3. /\ probe.todo = j.todo /\ probe.item = j.item /\ probe.k = j.k /\ probe.off = j.off + 1
        /\ found.todo = j.todo /\ found.item = j.item /\ found.k = j.k + 1
    BY <1>1 DEF Job
  <2>4. j.off # GidSize => LoopTurns("resolve_gids", j, probe)
    BY <1>1, <2>1, <2>3 DEF LoopTurns, LastOff
  <2>5. ~(j.k > Len(j.item.groups)) => LoopTurns("resolve_gids", j, found)
    BY <2>2, <2>3 DEF LoopTurns, LastK
  <2>6. \/ \E tag, id : Return(c, tag, id)
        \/ j.off # GidSize /\ Step(c, "resolve_gids", probe)
        \/ ~(j.k > Len(j.item.groups)) /\ Step(c, "resolve_gids", found)
    BY <1>5 DEF ResolveGids
  <2> HIDE DEF probe, found
  <2> QED BY <1>2, <2>1, <2>3, <2>4, <2>5, <2>6, ReturnCloser
<1> QED BY <1>3, <1>4, <1>5

LEMMA StoreCloser ==
  ASSUME TypeOK, NEW c \in Clients,
         StoreUser(c) \/ StoreGroup(c) \/ DeleteMembers(c) \/ InsertMember(c) \/ MembersInserted(c)
  PROVE  Closer(c)
<1> USE DEF TypeOK
<1>1. job[c] \in Job /\ JobFits(pc[c], job[c])
  BY DEF ClientsOK
<1>2. CASE StoreUser(c)
  <2> DEFINE next == [job[c] EXCEPT !.k = 1, !.off = 0]
  <2>1. next.todo = job[c].todo
    BY <1>1 DEF Job
  <2>2. pc[c] = "store_user" /\ job[c].op \in UserOps
    BY <1>1, <1>2 DEF StoreUser, JobFits, ConvertsUser
  <2>3. \/ \E tag, id : Return(c, tag, id)
        \/ Step(c, "resolve_gids", next)
        \/ NextItem(c, job[c].todo)
    BY <1>2, <2>2 DEF StoreUser, UserOps
  <2> HIDE DEF next
  <2>4. ASSUME Step(c, "resolve_gids", next) PROVE Closer(c)
    <3>1. pc'[c] = "resolve_gids" /\ job'[c].todo = job[c].todo
      BY <2>1, <2>4, StepMoves
    <3> QED BY <2>2, <3>1 DEF Closer, Rank
  <2> QED BY <2>3, <2>4, ReturnCloser, NextItemCloser
<1>3. CASE StoreGroup(c)
  <2>1. pc[c] = "store_group" /\ pc'[c] = "delete_members" /\ job'[c] = job[c]
    BY <1>3, StepMoves DEF StoreGroup
  <2> QED BY <2>1 DEF Closer, Rank
<1>4. CASE DeleteMembers(c)
  <2> DEFINE next == [job[c] EXCEPT !.k = 1]
  <2>1. next.todo = job[c].todo
    BY <1>1 DEF Job
  <2> HIDE DEF next
  <2>2. pc[c] = "delete_members" /\ pc'[c] = "insert_members" /\ job'[c].todo = job[c].todo
    BY <1>4, <2>1, StepMoves DEF DeleteMembers, next
  <2> QED BY <2>2 DEF Closer, Rank
<1>5. CASE InsertMember(c)
  <2> DEFINE next == [job[c] EXCEPT !.k = @ + 1]
  <2>1. next.todo = job[c].todo /\ next.item = job[c].item /\ next.k = job[c].k + 1
    BY <1>1 DEF Job
  <2>2. /\ pc[c] = "insert_members" /\ job[c].item \in GroupRecs
        /\ job[c].k <= Len(job[c].item.members)
    BY <1>1, <1>5 DEF InsertMember, JobFits, ConvertsGroup
  <2>3. Len(job[c].item.members) \in Nat /\ job[c].k \in Nat
    <3>1. job[c].item.members \in Seq(Names \cup {NoDisplay})
      BY <2>2, DirectoryAssumption DEF GroupResource
    <3> QED BY <1>1, <3>1 DEF Job
  <2>4. LoopTurns("insert_members", job[c], next)
    BY <2>1, <2>2, <2>3 DEF LoopTurns, LastK
  <2>5. Return(c, "error", "none") \/ Step(c, "insert_members", next)
    BY <1>5 DEF InsertMember
  <2> HIDE DEF next
  <2>6. ASSUME Step(c, "insert_members", next) PROVE Closer(c)
    <3>1. pc'[c] = "insert_members" /\ job'[c] = next
      BY <2>6, StepMoves
    <3> QED BY <2>1, <2>2, <2>4, <3>1 DEF Closer
  <2> QED BY <2>5, <2>6, ReturnCloser
<1>6. CASE MembersInserted(c)
  BY <1>6, ReturnCloser, NextItemCloser DEF MembersInserted
<1> QED BY <1>2, <1>3, <1>4, <1>5, <1>6

LEMMA WorkCloser == ASSUME TypeOK, NEW c \in Clients, Work(c) PROVE Closer(c)
<1>1. ASSUME DbFail(c) PROVE Closer(c)
  BY <1>1, StepMoves, ReturnCloser DEF DbFail, Closer, TypeOK
<1> QED BY <1>1, PurgeCloser, ScimCloser, ReadCloser, ResolveCloser, StoreCloser DEF Work

(* A client moves nobody but itself. *)
LEMMA OthersStay ==
  ASSUME TypeOK, NEW c \in Clients, Start(c) \/ Ask(c) \/ Work(c) \/ Exit(c),
         NEW d \in Clients \ {c}
  PROVE  pc'[d] = pc[d] /\ job'[d] = job[d]
<1> DEFINE Stays == pc'[d] = pc[d] /\ job'[d] = job[d]
<1> USE DEF TypeOK
<1>1. ASSUME NEW place, NEW j, Step(c, place, j) PROVE Stays
  BY <1>1, StepMoves
<1>2. ASSUME NEW tag, NEW id, Return(c, tag, id) PROVE Stays
  BY <1>2, ReturnMoves
<1>3. ASSUME NEW r, NEW rest, TakeItem(c, r, rest) PROVE Stays
  BY <1>3, TakeItemMoves
<1>4. ASSUME NEW todo, NextItem(c, todo) PROVE Stays
  BY <1>2, <1>3, <1>4 DEF NextItem
<1>5. CASE Start(c) \/ Exit(c) \/ DbFail(c)
  BY <1>1, <1>2, <1>5 DEF Start, Exit, DbFail
<1>6. CASE Ask(c)
  BY <1>1, <1>6 DEF Ask, CallByName, CallByNum, CallList, Begin, TooLong, clientVars
<1>7. CASE PurgeMembers(c) \/ PurgeGroups(c) \/ PurgeUsers(c)
  BY <1>1, <1>7 DEF PurgeMembers, PurgeGroups, PurgeUsers
<1>8. CASE ScimUser(c)
  <2>1. job[c].op \in {"user_by_name", "check_active", "groups_for_user"}
    BY <1>8 DEF ScimUser, UserOps, ListOps
  <2>2. \/ \E r : TakeItem(c, r, {})
        \/ FallBack(c)
        \/ \E tag, id : Return(c, tag, id)
    BY <1>8, <2>1 DEF ScimUser
  <2> QED BY <1>1, <1>2, <1>3, <2>2 DEF FallBack
<1>9. CASE ScimGroup(c) \/ ScimUserList(c) \/ ScimGroupList(c) \/ ScimFailed(c)
  BY <1>1, <1>2, <1>3, <1>4, <1>9
     DEF ScimGroup, ScimUserList, ScimGroupList, ScimFailed, FallBack
<1>10. CASE ReadUser(c) \/ ReadGroup(c) \/ ReadMembers(c) \/ ReadGroupsForMember(c)
  BY <1>1, <1>2, <1>10 DEF ReadUser, ReadGroup, ReadMembers, ReadGroupsForMember
<1>11. CASE ResolveUid(c) \/ ResolveGid(c) \/ ResolveGids(c)
  BY <1>1, <1>2, <1>11 DEF ResolveUid, ResolveGid, ResolveGids
<1>12. CASE StoreUser(c)
  <2>1. job[c].op \in UserOps
    BY <1>12 DEF StoreUser, ClientsOK, JobFits, ConvertsUser
  <2>2. \/ \E tag, id : Return(c, tag, id)
        \/ \E j : Step(c, "resolve_gids", j)
        \/ NextItem(c, job[c].todo)
    BY <1>12, <2>1 DEF StoreUser, UserOps
  <2> QED BY <1>1, <1>2, <1>4, <2>2
<1>13. CASE StoreGroup(c) \/ DeleteMembers(c) \/ InsertMember(c) \/ MembersInserted(c)
  BY <1>1, <1>2, <1>4, <1>13 DEF StoreGroup, DeleteMembers, InsertMember, MembersInserted
<1> QED BY <1>5, <1>6, <1>7, <1>8, <1>9, <1>10, <1>11, <1>12, <1>13 DEF Work

(* Every step that a client takes on its call or its start-up brings it    *)
(* closer to the end, and no step of anybody else, of the directory or of  *)
(* the clock sets it back, whatever they do to the tables it reads: unless *)
(* the process exits, the call has only finitely many steps to take.  This *)
(* is the variant behind CallsReturn (service.rs, all calls; mapping.rs,   *)
(* the probe loop of resolve_id; cache.rs, the member loop of store_group).*)
THEOREM ServiceStepsRunOut ==
  Spec => [][\A c \in Clients :
               /\ Work(c) => Closer(c)
               /\ pc[c] \notin {"idle", "down"} =>
                    \/ Closer(c)
                    \/ pc'[c] = pc[c] /\ job'[c] = job[c]
                    \/ pc'[c] = "down"]_vars
<1> DEFINE Good(c) == /\ Work(c) => Closer(c)
                      /\ pc[c] \notin {"idle", "down"} =>
                           \/ Closer(c)
                           \/ pc'[c] = pc[c] /\ job'[c] = job[c]
                           \/ pc'[c] = "down"
<1>1. ASSUME TypeOK, Next, NEW c \in Clients PROVE Good(c)
  <2>1. Work(c) => Closer(c)
    BY <1>1, WorkCloser
  <2>2. CASE EditUsers \/ EditGroups \/ Tick
    BY <2>1, <2>2 DEF EditUsers, EditGroups, Tick, clientVars
  <2>3. ASSUME NEW d \in Clients, Start(d) \/ Ask(d) \/ Work(d) \/ Exit(d) PROVE Good(c)
    <3>1. CASE d # c
      BY <1>1, <2>1, <2>3, <3>1, OthersStay
    <3>2. CASE d = c /\ Work(c)
      BY <2>1, <3>2
    <3>3. CASE d = c /\ Exit(c)
      BY <1>1, <2>1, <3>3, StepMoves DEF Exit, TypeOK
    <3>4. CASE d = c /\ (Start(c) \/ Ask(c))
      <4>1. pc[c] \in {"idle", "down"}
        BY <3>4 DEF Start, Ask, CallByName, CallByNum, CallList, Begin, TooLong
      <4> QED BY <2>1, <4>1
    <3> QED BY <2>3, <3>1, <3>2, <3>3, <3>4
  <2> QED BY <1>1, <2>2, <2>3 DEF Next
<1>2. TypeOK /\ [Next]_vars => [\A c \in Clients : Good(c)]_vars
  BY <1>1
<1> QED BY <1>2, ServiceTypeCorrect, PTL DEF Spec
=============================================================================
