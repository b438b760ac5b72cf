-------------------------- MODULE SoleClientProofs --------------------------
(***************************************************************************)
(* What holds when one process has the database to itself: the probe loop, *)
(* many statements long, reads a table that nobody else changes, so its    *)
(* outcome is still right when it is stored.                               *)
(***************************************************************************)
EXTENDS ServiceProofs, FiniteSetTheorems

(* At most one client. *)
Sole == \A c, d \in Clients : c = d

Taken(t, u, s) == uid_owner_is_other(t, u, s)

(* The first n slots on the probe path of u are held by others in table t. *)
Probed(t, u, n) == \A p \in 0..(n - 1) : Taken(t, u, UidCandidate(u, p))

(* s is the slot at which the probe of u in table t ends. *)
Found(t, u, s) ==
  \E off \in 0..(UidSize - 1) :
    s = UidCandidate(u, off) /\ Probed(t, u, off) /\ ~Taken(t, u, s)

(* The loop invariant of resolve_uid, kept up to the store. *)
LoopInv(c) ==
  /\ pc[c] = "resolve_uid" => Probed(uid_cache, job[c].item.id, job[c].off)
  /\ pc[c] = "resolve_gid" /\ job[c].op \in UserOps
       => Found(uid_cache, job[c].item.id, job[c].uid)
  /\ pc[c] = "store_user" => Found(uid_cache, job[c].item.id, job[c].uid)

ProbeInv == \A c \in Clients : LoopInv(c)

(* A step that neither stores nor purges users leaves every uid in place. *)
LEMMA UidsUnchanged ==
  ASSUME TypeOK, [Next]_vars, \A c \in Clients : ~StoreUser(c) /\ ~PurgeUsers(c)
  PROVE  /\ DOMAIN uid_cache' = DOMAIN uid_cache
         /\ \A i \in DOMAIN uid_cache : uid_cache'[i].uid = uid_cache[i].uid
<1>1. CASE Tick
  BY <1>1, OlderRow DEF Tick, Aged, TypeOK, DatabaseOK
<1>2. CASE UNCHANGED uid_cache
  BY <1>2
<1>3. ASSUME NEW c \in Clients,
             PurgeMembers(c) \/ PurgeGroups(c) \/ StoreGroup(c) \/ DeleteMembers(c)
               \/ InsertMember(c)
      PROVE  UNCHANGED uid_cache
  BY <1>3 DEF PurgeMembers, PurgeGroups, StoreGroup, DeleteMembers, InsertMember
<1>4. UNCHANGED dbVars => UNCHANGED uid_cache
  BY DEF dbVars
<1> QED BY <1>1, <1>2, <1>3, <1>4, DatabaseUnchanged

(* The places a client may be in without the loop invariant saying         *)
(* anything.                                                               *)
Elsewhere == Places \ {"resolve_uid", "resolve_gid", "store_user"}

LEMMA TakeItemLoop ==
  ASSUME TypeOK, NEW c \in Clients, NEW r, NEW rest, TakeItem(c, r, rest)
  PROVE  LoopInv(c)'
<1> DEFINE j == [job[c] EXCEPT !.item = r, !.todo = rest, !.off = 0]
<1>1. job[c] \in Job /\ pc \in [Clients -> Places] /\ job \in [Clients -> Job]
  BY DEF TypeOK, ClientsOK
<1>2. j.off = 0 /\ j.op = job[c].op
  BY <1>1 DEF Job
<1>3. job'[c] = j /\ pc'[c] = IF job[c].op \in UserOps THEN "resolve_uid" ELSE "resolve_gid"
  BY <1>1 DEF TakeItem, Step
<1> HIDE DEF j
<1>4. pc'[c] = "resolve_uid" => Probed(uid_cache', job'[c].item.id, job'[c].off)
  BY <1>2, <1>3 DEF Probed
<1> QED BY <1>2, <1>3, <1>4 DEF LoopInv

LEMMA ElsewhereLoop ==
  ASSUME NEW c \in Clients, pc'[c] \in Elsewhere PROVE LoopInv(c)'
  BY DEF LoopInv, Elsewhere

LEMMA ReturnLoop ==
  ASSUME TypeOK, NEW c \in Clients, NEW tag, NEW id, Return(c, tag, id)
  PROVE  LoopInv(c)'
  BY DEF Return, LoopInv, TypeOK, ClientsOK

LEMMA StepElsewhereLoop ==
  ASSUME TypeOK, NEW c \in Clients, NEW place \in Elsewhere, NEW j, Step(c, place, j)
  PROVE  LoopInv(c)'
  BY DEF Step, LoopInv, Elsewhere, TypeOK, ClientsOK

LEMMA NextItemLoop ==
  ASSUME TypeOK, NEW c \in Clients, NEW todo, NextItem(c, todo)
  PROVE  LoopInv(c)'
  BY ReturnLoop, TakeItemLoop DEF NextItem

(* The steps of the probe loop itself. *)
LEMMA ResolveUidLoop ==
  ASSUME TypeOK, ProbeInv, NEW c \in Clients, ResolveUid(c), [Next]_vars
  PROVE  LoopInv(c)'
<1> DEFINE j == job[c]
           u == j.item.id
           cand == UidCandidate(u, j.off)
<1>1. j \in Job /\ pc[c] = "resolve_uid" /\ j.off \in 0..UidSize /\ UidSize \in Nat
      /\ pc \in [Clients -> Places] /\ job \in [Clients -> Job]
  BY RangesFit DEF ResolveUid, TypeOK, ClientsOK, JobFits
<1>2. Probed(uid_cache, u, j.off)
  BY <1>1 DEF ProbeInv, LoopInv
<1>3. uid_cache' = uid_cache
  BY DEF ResolveUid, dbVars
<1>4. CASE j.off # UidSize /\ Taken(uid_cache, u, cand)
  <2> DEFINE k == [j EXCEPT !.off = @ + 1]
  <2>1. Step(c, "resolve_uid", k)
    BY <1>4 DEF ResolveUid, Taken
  <2>2. k.off = j.off + 1 /\ k.item = j.item
    BY <1>1 DEF Job
  <2>3. pc'[c] = "resolve_uid" /\ job'[c].off = j.off + 1 /\ job'[c].item = j.item
    BY <1>1, <2>1, <2>2 DEF Step
  <2>4. \A p \in 0..j.off : Taken(uid_cache, u, UidCandidate(u, p))
    BY <1>1, <1>2, <1>4 DEF Probed
  <2>5. Probed(uid_cache', u, j.off + 1)
    BY <1>1, <1>3, <2>4 DEF Probed
  <2> QED BY <2>3, <2>5 DEF LoopInv
<1>5. CASE j.off # UidSize /\ ~Taken(uid_cache, u, cand)
  <2> DEFINE k == [j EXCEPT !.uid = cand, !.off = 0]
  <2>1. Step(c, "resolve_gid", k)
    BY <1>5 DEF ResolveUid, Taken
  <2>2. k.uid = cand /\ k.item = j.item
    BY <1>1 DEF Job
  <2>3. pc'[c] = "resolve_gid" /\ job'[c].uid = cand /\ job'[c].item = j.item
    BY <1>1, <2>1, <2>2 DEF Step
  <2>4. j.off \in 0..(UidSize - 1)
    BY <1>1, <1>5
  <2>5. Found(uid_cache', u, cand)
    BY <1>2, <1>3, <1>5, <2>4 DEF Found, Probed
  <2> QED BY <2>3, <2>5 DEF LoopInv
<1>6. CASE j.off = UidSize
  BY <1>6, ReturnLoop DEF ResolveUid
<1> QED BY <1>4, <1>5, <1>6

LEMMA ResolveGidLoop ==
  ASSUME TypeOK, ProbeInv, NEW c \in Clients, ResolveGid(c)
  PROVE  LoopInv(c)'
<1> DEFINE j == job[c]
           u == j.item.id
           cand == GidCandidate(gid_external(j.item), j.off)
<1>1. j \in Job /\ pc[c] = "resolve_gid"
      /\ pc \in [Clients -> Places] /\ job \in [Clients -> Job]
  BY DEF ResolveGid, TypeOK, ClientsOK
<1>2. j.op \in UserOps => Found(uid_cache, u, j.uid)
  BY <1>1 DEF ProbeInv, LoopInv
<1>3. uid_cache' = uid_cache
  BY DEF ResolveGid, dbVars
<1>4. CASE Step(c, "resolve_gid", [j EXCEPT !.off = @ + 1])
  <2> DEFINE k == [j EXCEPT !.off = @ + 1]
  <2>1. k.uid = j.uid /\ k.item = j.item /\ k.op = j.op
    BY <1>1 DEF Job
  <2>2. pc'[c] = "resolve_gid" /\ job'[c] = k
    BY <1>1, <1>4 DEF Step
  <2> HIDE DEF k
  <2> QED BY <1>2, <1>3, <2>1, <2>2 DEF LoopInv
<1>5. CASE Step(c, IF j.op \in UserOps THEN "store_user" ELSE "store_group",
                [j EXCEPT !.gid = cand, !.off = 0])
  <2> DEFINE k == [j EXCEPT !.gid = cand, !.off = 0]
  <2>1. k.uid = j.uid /\ k.item = j.item /\ k.op = j.op
    BY <1>1 DEF Job
  <2>2. /\ pc'[c] = IF j.op \in UserOps THEN "store_user" ELSE "store_group"
        /\ job'[c] = k
    BY <1>1, <1>5 DEF Step
  <2> HIDE DEF k
  <2> QED BY <1>2, <1>3, <2>1, <2>2 DEF LoopInv
<1> QED BY <1>4, <1>5, ReturnLoop DEF ResolveGid

(* Every other step of a client leaves the loop or starts it afresh. *)
LEMMA OtherStepsLoop ==
  ASSUME TypeOK, NEW c \in Clients,
         Start(c) \/ Ask(c) \/ Exit(c) \/ Work(c), ~ResolveUid(c), ~ResolveGid(c)
  PROVE  LoopInv(c)'
<1>1. {"purge_members", "purge_groups", "purge_users", "idle", "down", "scim", "cache",
       "read_members", "resolve_gids", "delete_members", "insert_members"} \subseteq Elsewhere
  BY DEF Elsewhere, Places
<1>2. CASE Start(c) \/ PurgeMembers(c) \/ PurgeGroups(c) \/ PurgeUsers(c) \/ Exit(c)
  <2>1. PICK place \in {"purge_members", "purge_groups", "purge_users", "idle", "down"} :
          Step(c, place, NoJob)
    BY <1>2 DEF Start, PurgeMembers, PurgeGroups, PurgeUsers, Exit
  <2> QED BY <1>1, <2>1, StepElsewhereLoop
<1>3. CASE Ask(c)
  <2>1. ASSUME NEW op, NEW n, TooLong(c, op, n) PROVE LoopInv(c)'
    BY <2>1, <1>1, ElsewhereLoop DEF TooLong, clientVars
  <2>2. ASSUME NEW op, NEW n, NEW x, Begin(c, op, n, x, "scim") \/ Begin(c, op, n, x, "cache")
        PROVE  LoopInv(c)'
    BY <2>2, <1>1, StepElsewhereLoop DEF Begin
  <2> QED BY <1>3, <2>1, <2>2 DEF Ask, CallByName, CallByNum, CallList
<1>4. CASE ScimUser(c)
  <2>1. job[c].op \in {"user_by_name", "check_active", "groups_for_user"}
    BY <1>4 DEF ScimUser, UserOps, ListOps
  <2>2. \/ \E r \in dir_users : TakeItem(c, r, {})
        \/ Step(c, "cache", job[c])
        \/ \E tag \in {"inactive", "gids"} : Return(c, tag, "none")
    BY <1>4, <2>1 DEF ScimUser, FallBack
  <2> QED BY <1>1, <2>2, TakeItemLoop, ReturnLoop, StepElsewhereLoop
<1>5. CASE ScimGroup(c)
  BY <1>1, <1>5, TakeItemLoop, StepElsewhereLoop DEF ScimGroup, FallBack
<1>6. CASE ScimUserList(c) \/ ScimGroupList(c)
  BY <1>6, NextItemLoop DEF ScimUserList, ScimGroupList
<1>7. CASE ScimFailed(c)
  BY <1>1, <1>7, ReturnLoop, StepElsewhereLoop DEF ScimFailed, FallBack
<1>8. CASE ReadUser(c) \/ ReadMembers(c) \/ ReadGroupsForMember(c)
  BY <1>8, ReturnLoop DEF ReadUser, ReadMembers, ReadGroupsForMember
<1>9. CASE ReadGroup(c)
  BY <1>1, <1>9, ReturnLoop, StepElsewhereLoop DEF ReadGroup
<1>10. CASE ResolveGids(c)
  BY <1>1, <1>10, ReturnLoop, StepElsewhereLoop DEF ResolveGids
<1>11. CASE StoreUser(c)
  <2>1. job[c].op \in UserOps
    BY <1>11 DEF StoreUser, TypeOK, ClientsOK, JobFits, ConvertsUser
  <2>2. \/ \E tag \in {"found", "active", "inactive"} : Return(c, tag, job[c].item.id)
        \/ \E j : Step(c, "resolve_gids", j)
        \/ NextItem(c, job[c].todo)
    BY <1>11, <2>1 DEF StoreUser, UserOps
  <2> QED BY <1>1, <2>2, ReturnLoop, StepElsewhereLoop, NextItemLoop
<1>12. CASE StoreGroup(c) \/ DeleteMembers(c)
  BY <1>1, <1>12, StepElsewhereLoop DEF StoreGroup, DeleteMembers
<1>13. CASE InsertMember(c)
  BY <1>1, <1>13, ReturnLoop, StepElsewhereLoop DEF InsertMember
<1>14. CASE MembersInserted(c)
  BY <1>14, ReturnLoop, NextItemLoop DEF MembersInserted
<1>15. CASE DbFail(c)
  BY <1>1, <1>15, ReturnLoop, StepElsewhereLoop DEF DbFail
<1> QED BY <1>2, <1>3, <1>4, <1>5, <1>6, <1>7, <1>8, <1>9, <1>10, <1>11, <1>12,
           <1>13, <1>14, <1>15 DEF Work

LEMMA ProbeNext ==
  ASSUME Sole, TypeOK, ProbeInv, [Next]_vars PROVE ProbeInv'
<1>1. CASE EditUsers \/ EditGroups \/ Tick \/ UNCHANGED vars
  <2>1. UNCHANGED clientVars
    BY <1>1 DEF EditUsers, EditGroups, Tick, vars, clientVars
  <2>2. \A u, s : Taken(uid_cache', u, s) <=> Taken(uid_cache, u, s)
    <3>1. CASE Tick
      <4>1. /\ DOMAIN uid_cache' = DOMAIN uid_cache
            /\ \A i \in DOMAIN uid_cache : uid_cache'[i].uid = uid_cache[i].uid
        BY <3>1, OlderRow DEF Tick, Aged, TypeOK, DatabaseOK
      <4> QED BY <4>1 DEF Taken, uid_owner_is_other
    <3>2. CASE UNCHANGED uid_cache
      BY <3>2
    <3> QED BY <1>1, <3>1, <3>2 DEF EditUsers, EditGroups, vars, dbVars
  <2>3. \A u, n : Probed(uid_cache, u, n) => Probed(uid_cache', u, n)
    BY <2>2 DEF Probed
  <2>4. \A u, s : Found(uid_cache, u, s) => Found(uid_cache', u, s)
    BY <2>2, <2>3 DEF Found
  <2> QED BY <2>1, <2>3, <2>4 DEF ProbeInv, LoopInv, clientVars
<1>2. ASSUME NEW c \in Clients, Start(c) \/ Ask(c) \/ Work(c) \/ Exit(c) PROVE ProbeInv'
  <2>1. LoopInv(c)'
    BY <1>2, OtherStepsLoop, ResolveUidLoop, ResolveGidLoop
  <2> QED BY <2>1 DEF Sole, ProbeInv
<1> QED BY <1>1, <1>2 DEF Next

LEMMA ProbeAlways == ASSUME Sole PROVE Spec => []ProbeInv
<1>1. Init => ProbeInv
  BY DEF Init, ProbeInv, LoopInv
<1>2. TypeOK /\ ProbeInv /\ [Next]_vars => ProbeInv'
  BY ProbeNext
<1> QED BY <1>1, <1>2, ServiceTypeCorrect, PTL DEF Spec

(* A process that has the database to itself, restarted as often as you    *)
(* like, never stores a uid that another user holds.                       *)
THEOREM SoleResolvedUidFree == ASSUME Sole PROVE Spec => []ResolvedUidFree
<1>1. ProbeInv => ResolvedUidFree
  BY DEF ProbeInv, LoopInv, Found, Taken, uid_owner_is_other, ResolvedUidFree
<1> QED BY <1>1, ProbeAlways, PTL

(* Where a client is after a step. *)
LEMMA StepPlace ==
  ASSUME TypeOK, NEW c \in Clients
  PROVE  /\ \A place, j : Step(c, place, j) => pc'[c] = place
         /\ \A tag, id : Return(c, tag, id) => pc'[c] = "idle"
         /\ \A r, rest : TakeItem(c, r, rest) => pc'[c] \in {"resolve_uid", "resolve_gid"}
         /\ \A todo : NextItem(c, todo) => pc'[c] \in {"idle", "resolve_uid", "resolve_gid"}
  BY DEF Step, Return, TakeItem, NextItem, TypeOK, ClientsOK

(* The statements of store_user and store_group are reached one after the  *)
(* other, and the first of them only from resolve_gid.                     *)
StorePlaces == {"store_user", "store_group", "delete_members", "insert_members"}

LEMMA WayToStore ==
  ASSUME TypeOK, NEW c \in Clients, Start(c) \/ Ask(c) \/ Exit(c) \/ Work(c),
         ~ResolveGid(c), ~StoreGroup(c), ~DeleteMembers(c), ~InsertMember(c)
  PROVE  pc'[c] \notin StorePlaces
<1> USE DEF StorePlaces
<1>1. CASE Start(c) \/ PurgeMembers(c) \/ PurgeGroups(c) \/ PurgeUsers(c) \/ Exit(c)
  BY <1>1, StepPlace DEF Start, PurgeMembers, PurgeGroups, PurgeUsers, Exit
<1>2. CASE Ask(c)
  <2>1. ASSUME NEW op, NEW n, TooLong(c, op, n) PROVE pc'[c] \notin StorePlaces
    BY <2>1 DEF TooLong, clientVars
  <2>2. ASSUME NEW op, NEW n, NEW x, Begin(c, op, n, x, "scim") \/ Begin(c, op, n, x, "cache")
        PROVE  pc'[c] \notin StorePlaces
    BY <2>2, StepPlace DEF Begin
  <2> QED BY <1>2, <2>1, <2>2 DEF Ask, CallByName, CallByNum, CallList
<1>3. CASE ScimUser(c)
  <2>1. \/ \E r \in dir_users : TakeItem(c, r, {})
        \/ Step(c, "cache", job[c])
        \/ \E tag \in {"inactive", "gids"} : Return(c, tag, "none")
    BY <1>3 DEF ScimUser, FallBack, UserOps, ListOps
  <2> QED BY <2>1, StepPlace
<1>4. CASE ScimGroup(c) \/ ScimUserList(c) \/ ScimGroupList(c)
  BY <1>4, StepPlace DEF ScimGroup, ScimUserList, ScimGroupList, FallBack
<1>5. CASE ScimFailed(c)
  BY <1>5, StepPlace DEF ScimFailed, FallBack
<1>6. CASE ReadUser(c) \/ ReadMembers(c) \/ ReadGroupsForMember(c) \/ ReadGroup(c)
  BY <1>6, StepPlace DEF ReadUser, ReadMembers, ReadGroupsForMember, ReadGroup
<1>7. CASE ResolveUid(c) \/ ResolveGids(c)
  BY <1>7, StepPlace DEF ResolveUid, ResolveGids
<1>8. CASE StoreUser(c)
  <2>1. job[c].op \in UserOps
    BY <1>8 DEF StoreUser, TypeOK, ClientsOK, JobFits, ConvertsUser
  <2>2. \/ \E tag \in {"found", "active", "inactive"} : Return(c, tag, job[c].item.id)
        \/ \E j : Step(c, "resolve_gids", j)
        \/ NextItem(c, job[c].todo)
    BY <1>8, <2>1 DEF StoreUser, UserOps
  <2> QED BY <2>2, StepPlace
<1>9. CASE MembersInserted(c)
  BY <1>9, StepPlace DEF MembersInserted
<1>10. CASE DbFail(c)
  BY <1>10, StepPlace DEF DbFail
<1> QED BY <1>1, <1>2, <1>3, <1>4, <1>5, <1>6, <1>7, <1>8, <1>9, <1>10 DEF Work

(* A client leaves the probe loop for good by ending it or by a failure. *)
LEMMA LeavesLoop ==
  ASSUME Sole, TypeOK, [Next]_vars, NEW c \in Clients,
         pc[c] = "resolve_uid", pc'[c] = "idle"
  PROVE  ResolveUid(c) \/ DbFail(c)
<1>1. CASE EditUsers \/ EditGroups \/ Tick \/ UNCHANGED vars
  BY <1>1 DEF EditUsers, EditGroups, Tick, vars, clientVars
<1>2. ~Start(c) /\ ~Ask(c)
  BY DEF Start, Ask, CallByName, CallByNum, CallList, TooLong, Begin
<1>3. ~Exit(c)
  BY DEF Exit, Step, TypeOK, ClientsOK
<1>4. ~PurgeMembers(c) /\ ~PurgeGroups(c) /\ ~PurgeUsers(c)
  BY DEF PurgeMembers, PurgeGroups, PurgeUsers
<1>5. ~ScimUser(c) /\ ~ScimGroup(c) /\ ~ScimUserList(c) /\ ~ScimGroupList(c) /\ ~ScimFailed(c)
  BY DEF ScimUser, ScimGroup, ScimUserList, ScimGroupList, ScimFailed
<1>6. ~ReadUser(c) /\ ~ReadGroup(c) /\ ~ReadMembers(c) /\ ~ReadGroupsForMember(c)
  BY DEF ReadUser, ReadGroup, ReadMembers, ReadGroupsForMember
<1>7. ~ResolveGid(c) /\ ~ResolveGids(c) /\ ~StoreUser(c)
  BY DEF ResolveGid, ResolveGids, StoreUser
<1>8. ~StoreGroup(c) /\ ~DeleteMembers(c) /\ ~InsertMember(c) /\ ~MembersInserted(c)
  BY DEF StoreGroup, DeleteMembers, InsertMember, MembersInserted
<1> QED BY <1>1, <1>2, <1>3, <1>4, <1>5, <1>6, <1>7, <1>8 DEF Next, Work, Sole

(* A process that has the database to itself gives up on a uid only when   *)
(* other users hold the whole range: every slot it passed is still taken.  *)
THEOREM SoleExhaustedOnlyWhenFull == ASSUME Sole PROVE Spec => ExhaustedOnlyWhenFull
<1> DEFINE Full(c) == \A s \in UidSlots : \E i \in DOMAIN uid_cache \ {job[c].item.id} :
                         uid_cache[i].uid = s
           Honest == \A c \in Clients :
             pc[c] = "resolve_uid" /\ pc'[c] = "idle" /\ ret'.tag = "exhausted" => Full(c)
<1>1. ASSUME TypeOK, ProbeInv, [Next]_vars PROVE Honest
  <2> SUFFICES ASSUME NEW c \in Clients, pc[c] = "resolve_uid", pc'[c] = "idle",
                      ret'.tag = "exhausted"
               PROVE  Full(c)
    OBVIOUS
  <2> DEFINE u == job[c].item.id
  <2>1. ~DbFail(c)
    BY DEF DbFail, Step, Return, NoAnswer
  <2>2. ResolveUid(c)
    BY <1>1, <2>1, LeavesLoop
  <2>3. job[c].off = UidSize
    BY <2>2, <1>1 DEF ResolveUid, Step, TypeOK, ClientsOK
  <2>4. Probed(uid_cache, u, UidSize)
    BY <1>1, <2>3 DEF ProbeInv, LoopInv
  <2>5. u \in UserIds
    BY <1>1, ResourceFields DEF TypeOK, ClientsOK, JobFits, ConvertsUser
  <2> HIDE DEF u
  <2>6. ASSUME NEW s \in UidSlots PROVE Taken(uid_cache, u, s)
    <3>1. FitsWord(UidMin, UidSize) /\ Hash[u] \in Nat
      BY <2>5, RangesFit, DirectoryAssumption DEF FitsWord
    <3>2. PICK off \in 0..(UidSize - 1) : UidCandidate(u, off) = s
      BY <3>1, ProbeVisitsEverySlot DEF UidSlots, UidCandidate
    <3> QED BY <2>4, <3>2 DEF Probed
  <2> QED BY <2>6 DEF Taken, uid_owner_is_other, u
<1>2. TypeOK /\ ProbeInv /\ [Next]_vars => [Honest]_vars
  BY <1>1
<1> QED BY <1>2, ServiceTypeCorrect, ProbeAlways, PTL DEF Spec, ExhaustedOnlyWhenFull

-----------------------------------------------------------------------------
(* The probe chain. *)

(* Without restarts the start-up purge meets empty tables. *)
Starting == {"down", "purge_members", "purge_groups", "purge_users"}
TablesEmpty == DOMAIN uid_cache = {} /\ DOMAIN gid_cache = {}
PurgeInv == \A c \in Clients : pc[c] \in Starting => TablesEmpty

Chain(t) == \A u \in DOMAIN t : \E off \in 0..(UidSize - 1) :
              t[u].uid = UidCandidate(u, off) /\ Probed(t, u, off)

LEMMA ChainIsProbeChain == ProbeChain <=> Chain(uid_cache)
  BY DEF ProbeChain, Chain, Probed, Taken, uid_owner_is_other

(* With the chain intact, the probe of a cached user ends at its own slot. *)
LEMMA FoundIsCached ==
  ASSUME TypeOK, UniqueUids, ProbeChain, NEW u \in DOMAIN uid_cache, NEW s,
         Found(uid_cache, u, s)
  PROVE  s = uid_cache[u].uid
<1>1. PICK new \in 0..(UidSize - 1) :
        s = UidCandidate(u, new) /\ Probed(uid_cache, u, new) /\ ~Taken(uid_cache, u, s)
  BY DEF Found
<1>2. PICK old \in 0..(UidSize - 1) :
        uid_cache[u].uid = UidCandidate(u, old) /\ Probed(uid_cache, u, old)
  BY ChainIsProbeChain DEF Chain
<1>3. ~Taken(uid_cache, u, uid_cache[u].uid)
  BY DEF UniqueUids, Taken, uid_owner_is_other
<1>4. UidSize \in Nat
  BY RangesFit
<1>5. ~(old < new)
  BY <1>1, <1>2, <1>3, <1>4 DEF Probed
<1>6. ~(new < old)
  BY <1>1, <1>2, <1>4 DEF Probed
<1> QED BY <1>1, <1>2, <1>4, <1>5, <1>6

LEMMA NoRestartBefore ==
  ASSUME TypeOK, [Next]_vars PROVE restarts' = 0 => restarts = 0
<1>1. ASSUME NEW c \in Clients, Exit(c) PROVE restarts' # 0
  BY <1>1 DEF Exit, TypeOK, DirectoryOK
<1>2. CASE EditUsers \/ EditGroups \/ Tick \/ UNCHANGED vars
  BY <1>2 DEF EditUsers, EditGroups, Tick, vars, envVars
<1>3. ASSUME NEW c \in Clients, Start(c) \/ Ask(c) PROVE UNCHANGED restarts
  BY <1>3 DEF Start, Ask, CallByName, CallByNum, CallList, TooLong, Begin, envVars
<1>4. ASSUME NEW c \in Clients, Work(c) PROVE UNCHANGED restarts
  BY <1>4 DEF Work, PurgeMembers, PurgeGroups, PurgeUsers, ScimUser, ScimGroup,
    ScimUserList, ScimGroupList, ScimFailed, ReadUser, ReadGroup, ReadMembers,
    ReadGroupsForMember, ResolveUid, ResolveGid, ResolveGids, StoreUser, StoreGroup,
    DeleteMembers, InsertMember, MembersInserted, DbFail, envVars
<1> QED BY <1>1, <1>2, <1>3, <1>4 DEF Next

LEMMA PurgeNext ==
  ASSUME Sole, TypeOK, restarts' = 0, PurgeInv, [Next]_vars PROVE PurgeInv'
<1> USE DEF Starting
<1>1. SUFFICES ASSUME NEW c \in Clients, pc'[c] \in Starting
      PROVE  TablesEmpty'
  BY DEF PurgeInv
<1>2. \A d \in Clients : ~Exit(d)
  BY DEF Exit, TypeOK, DirectoryOK
<1>3. pc \in [Clients -> Places]
  BY DEF TypeOK, ClientsOK
<1>4. CASE EditUsers \/ EditGroups \/ Tick \/ UNCHANGED vars
  <2>1. /\ pc' = pc /\ DOMAIN uid_cache' = DOMAIN uid_cache
        /\ DOMAIN gid_cache' = DOMAIN gid_cache
    BY <1>4, AgedDomain DEF EditUsers, EditGroups, Tick, vars, clientVars, dbVars
  <2> QED BY <1>1, <2>1 DEF PurgeInv, TablesEmpty
<1>5. ASSUME Start(c) \/ PurgeMembers(c) PROVE TablesEmpty'
  BY <1>5 DEF Start, PurgeMembers, dbVars, PurgeInv, TablesEmpty
<1>5a. ASSUME PurgeGroups(c) PROVE TablesEmpty'
  <2>1. TablesEmpty /\ uid_cache' = uid_cache /\ gid_cache' = Purged(gid_cache)
    BY <1>5a DEF PurgeGroups, PurgeInv
  <2>2. DOMAIN gid_cache' \subseteq DOMAIN gid_cache
    BY <2>1 DEF Purged
  <2> QED BY <2>1, <2>2 DEF TablesEmpty
<1>6. ASSUME PurgeUsers(c) PROVE TablesEmpty'
  BY <1>1, <1>3, <1>6 DEF PurgeUsers, Step
<1>7. ASSUME NEW j, NEW place, Step(c, place, j), place \notin Starting PROVE FALSE
  BY <1>1, <1>3, <1>7 DEF Step
<1>8. ASSUME NEW tag, NEW id, Return(c, tag, id) PROVE FALSE
  BY <1>1, <1>3, <1>8 DEF Return
<1>9. ASSUME NEW r, NEW rest, TakeItem(c, r, rest) PROVE FALSE
  BY <1>7, <1>9 DEF TakeItem
<1>10. ASSUME NEW todo, NextItem(c, todo) PROVE FALSE
  BY <1>8, <1>9, <1>10 DEF NextItem
<1>11. ASSUME Ask(c) PROVE FALSE
  <2>1. ASSUME NEW op, NEW n, TooLong(c, op, n) PROVE FALSE
    BY <1>1, <2>1 DEF TooLong, clientVars
  <2>2. ASSUME NEW op, NEW n, NEW x, Begin(c, op, n, x, "scim") \/ Begin(c, op, n, x, "cache")
        PROVE  FALSE
    BY <1>7, <2>2 DEF Begin
  <2> QED BY <1>11, <2>1, <2>2 DEF Ask, CallByName, CallByNum, CallList
<1>12. ASSUME ScimUser(c) \/ ScimGroup(c) \/ ScimUserList(c) \/ ScimGroupList(c) \/ ScimFailed(c)
       PROVE  FALSE
  <2>1. CASE ScimUser(c)
    <3>1. job[c].op \in {"user_by_name", "check_active", "groups_for_user"}
      BY <2>1 DEF ScimUser, UserOps, ListOps
    <3> QED BY <1>7, <1>8, <1>9, <2>1, <3>1 DEF ScimUser, FallBack
  <2>2. CASE ScimGroup(c)
    BY <1>7, <1>9, <2>2 DEF ScimGroup, FallBack
  <2>3. CASE ScimUserList(c) \/ ScimGroupList(c)
    BY <1>10, <2>3 DEF ScimUserList, ScimGroupList
  <2>4. CASE ScimFailed(c)
    BY <1>7, <1>8, <2>4 DEF ScimFailed, FallBack
  <2> QED BY <1>12, <2>1, <2>2, <2>3, <2>4
<1>13. ASSUME ReadUser(c) \/ ReadGroup(c) \/ ReadMembers(c) \/ ReadGroupsForMember(c)
       PROVE  FALSE
  <2>1. CASE ReadUser(c)
    BY <1>8, <2>1 DEF ReadUser
  <2>2. CASE ReadGroup(c)
    <3>1. (\E j : Step(c, "read_members", j)) \/ Return(c, "missing", "none")
      BY <2>2 DEF ReadGroup
    <3> QED BY <1>7, <1>8, <3>1
  <2>3. CASE ReadMembers(c) \/ ReadGroupsForMember(c)
    BY <1>8, <2>3 DEF ReadMembers, ReadGroupsForMember
  <2> QED BY <1>13, <2>1, <2>2, <2>3
<1>14. ASSUME ResolveUid(c) \/ ResolveGid(c) \/ ResolveGids(c) PROVE FALSE
  BY <1>7, <1>8, <1>14 DEF ResolveUid, ResolveGid, ResolveGids
<1>15. ASSUME StoreUser(c) PROVE FALSE
  <2>1. job[c].op \in UserOps
    BY <1>15 DEF StoreUser, TypeOK, ClientsOK, JobFits, ConvertsUser
  <2>2. \/ \E tag \in {"found", "active", "inactive"} : Return(c, tag, job[c].item.id)
        \/ \E j : Step(c, "resolve_gids", j)
        \/ NextItem(c, job[c].todo)
    BY <1>15, <2>1 DEF StoreUser, UserOps
  <2> QED BY <1>7, <1>8, <1>10, <2>2
<1>16. ASSUME StoreGroup(c) \/ DeleteMembers(c) \/ InsertMember(c) \/ MembersInserted(c)
       PROVE  FALSE
  BY <1>7, <1>8, <1>10, <1>16 DEF StoreGroup, DeleteMembers, InsertMember, MembersInserted
<1>17. ASSUME DbFail(c) PROVE FALSE
  BY <1>7, <1>8, <1>17 DEF DbFail
<1>18. EditUsers \/ EditGroups \/ Tick \/ Start(c) \/ Ask(c) \/ Work(c) \/ UNCHANGED vars
  BY <1>2 DEF Next, Sole
<1> QED BY <1>4, <1>5, <1>6, <1>11, <1>12, <1>13, <1>14, <1>15, <1>16, <1>17, <1>18, <1>5a DEF Work

(* Rows that keep their uids keep the chain. *)
LEMMA ChainGrows ==
  ASSUME NEW t, NEW n, Chain(t), DOMAIN t \subseteq DOMAIN n,
         \A i \in DOMAIN t : n[i].uid = t[i].uid,
         \A i \in DOMAIN n \ DOMAIN t : Found(t, i, n[i].uid)
  PROVE  Chain(n)
<1>1. \A u, s : Taken(t, u, s) => Taken(n, u, s)
  BY DEF Taken, uid_owner_is_other
<1>2. \A u, m : Probed(t, u, m) => Probed(n, u, m)
  BY <1>1 DEF Probed
<1>3. ASSUME NEW u \in DOMAIN n
      PROVE  \E off \in 0..(UidSize - 1) : n[u].uid = UidCandidate(u, off) /\ Probed(n, u, off)
  <2>1. CASE u \in DOMAIN t
    BY <1>2, <2>1 DEF Chain
  <2>2. CASE u \notin DOMAIN t
    BY <1>2, <2>2 DEF Found
  <2> QED BY <2>1, <2>2
<1> QED BY <1>3 DEF Chain

LEMMA ChainNext ==
  ASSUME Sole, TypeOK, UniqueUids, ProbeInv, PurgeInv, ProbeChain, [Next]_vars
  PROVE  ProbeChain'
<1>0. Chain(uid_cache)
  BY ChainIsProbeChain
<1> SUFFICES Chain(uid_cache')
  BY DEF ProbeChain, Chain, Probed, Taken, uid_owner_is_other
<1>1. ASSUME NEW c \in Clients, StoreUser(c) PROVE Chain(uid_cache')
  <2> DEFINE u == job[c].item.id
             s == job[c].uid
             row == UserRow(job[c])
  <2>1. row.uid = s /\ uid_cache' = store_user(uid_cache, u, row)
    BY <1>1 DEF StoreUser, UserRow
  <2>2. Found(uid_cache, u, s)
    BY <1>1 DEF StoreUser, ProbeInv, LoopInv
  <2>3. ~Taken(uid_cache, u, row.uid)
    BY <2>1, <2>2 DEF Found
  <2> HIDE DEF u, s, row
  <2>4. /\ DOMAIN uid_cache' = DOMAIN uid_cache \cup {u}
        /\ uid_cache'[u] = row
        /\ \A i \in DOMAIN uid_cache : i # u => uid_cache'[i] = uid_cache[i]
    <3>1. {i \in DOMAIN uid_cache : uid_cache[i].uid # row.uid} \cup {u} = DOMAIN uid_cache \cup {u}
      BY <2>3 DEF Taken, uid_owner_is_other
    <3> QED BY <2>1, <3>1 DEF store_user
  <2>5. u \in DOMAIN uid_cache => s = uid_cache[u].uid
    BY <2>2, FoundIsCached
  <2>6. \A i \in DOMAIN uid_cache : uid_cache'[i].uid = uid_cache[i].uid
    BY <2>1, <2>4, <2>5
  <2>7. \A i \in DOMAIN uid_cache' \ DOMAIN uid_cache : Found(uid_cache, i, uid_cache'[i].uid)
    BY <2>1, <2>2, <2>4
  <2> QED BY <1>0, <2>4, <2>6, <2>7, ChainGrows
<1>2. ASSUME NEW c \in Clients, PurgeUsers(c) PROVE Chain(uid_cache')
  <2>1. DOMAIN uid_cache' = {}
    BY <1>2, PurgedType DEF PurgeUsers, PurgeInv, Starting, TablesEmpty, TypeOK, DatabaseOK
  <2> QED BY <2>1 DEF Chain
<1>3. CASE \A c \in Clients : ~StoreUser(c) /\ ~PurgeUsers(c)
  <2>1. /\ DOMAIN uid_cache' = DOMAIN uid_cache
        /\ \A i \in DOMAIN uid_cache : uid_cache'[i].uid = uid_cache[i].uid
    BY <1>3, UidsUnchanged
  <2> QED BY <1>0, <2>1, ChainGrows
<1> QED BY <1>1, <1>2, <1>3

(* What holds before the first restart. *)
FirstLife == restarts = 0 => ProbeChain /\ PurgeInv

LEMMA FirstLifeAlways ==
  ASSUME Sole PROVE Spec => []FirstLife
<1>1. Init => FirstLife
  BY DEF Init, EmptyTable, ProbeChain, PurgeInv, TablesEmpty, FirstLife
<1>2. TypeOK /\ UniqueUids /\ ProbeInv /\ FirstLife /\ [Next]_vars => FirstLife'
  BY ChainNext, PurgeNext, NoRestartBefore DEF FirstLife
<1> QED BY <1>1, <1>2, ServiceTypeCorrect, UniqueAlways, ProbeAlways, PTL DEF Spec

(* In one life of a process that has the database to itself the slots      *)
(* between a user and its home are always taken, and so a cached user is   *)
(* always given its cached uid again, although resolve_id never looks the  *)
(* user up.                                                                *)
THEOREM SoleStableUntilRestart ==
  ASSUME Sole PROVE Spec => []StableUntilRestart
<1>1. TypeOK /\ UniqueUids /\ ProbeInv /\ ProbeChain => CachedIdReturned
  BY FoundIsCached DEF ProbeInv, LoopInv, CachedIdReturned
<1>2. TypeOK /\ UniqueUids /\ ProbeInv /\ FirstLife => StableUntilRestart
  BY <1>1 DEF FirstLife, StableUntilRestart
<1> QED BY <1>2, FirstLifeAlways, ServiceTypeCorrect, UniqueAlways, ProbeAlways, PTL

-----------------------------------------------------------------------------
(* Refinement of UidAllocator. *)

Uids(t) == [i \in DOMAIN t |-> t[i].uid]

(* Both modules probe the same slots. *)
LEMMA SameCandidates ==
  ASSUME NEW u \in UserIds, NEW off
  PROVE  Allocator!Candidate([i \in UserIds |-> Hash[i]][u], UidMin, UidSize, off)
           = UidCandidate(u, off)
  BY DEF UidCandidate, Candidate, id_to_uid, Allocator!Candidate, Allocator!id_to_uid

LEMMA SameOthers ==
  ASSUME NEW u, NEW s
  PROVE  s \in Allocator!HeldByOthers(u) <=> Taken(uid_cache, u, s)
  BY DEF Allocator!HeldByOthers, Taken, uid_owner_is_other

(* The slot the probe loop ended at is the one the allocator would choose. *)
LEMMA FoundIsResolved ==
  ASSUME TypeOK, NEW u \in UserIds, NEW s, Found(uid_cache, u, s)
  PROVE  Allocator!Resolved(u) = s
<1> DEFINE h == [i \in UserIds |-> Hash[i]][u]
           other == Allocator!HeldByOthers(u)
           stops == Allocator!Stops(h, UidMin, UidSize, other)
<1>1. PICK n \in 0..(UidSize - 1) :
        s = UidCandidate(u, n) /\ Probed(uid_cache, u, n) /\ ~Taken(uid_cache, u, s)
  BY DEF Found
<1>2. stops = {off \in 0..(UidSize - 1) : ~Taken(uid_cache, u, UidCandidate(u, off))}
  BY SameCandidates, SameOthers DEF Allocator!Stops
<1>3. n \in stops /\ UidSize \in Nat
  BY <1>1, <1>2, RangesFit
<1>4. \A p \in stops : n <= p
  BY <1>1, <1>2, <1>3 DEF Probed
<1>5. \A o \in stops : (\A p \in stops : o <= p) => o = n
  BY <1>2, <1>3, <1>4
<1> HIDE DEF stops
<1>6. (CHOOSE o \in stops : \A p \in stops : o <= p) = n
  BY <1>3, <1>4, <1>5
<1>7. Allocator!Resolved(u)
        = Allocator!Candidate(h, UidMin, UidSize, CHOOSE o \in stops : \A p \in stops : o <= p)
  BY <1>3 DEF stops, Allocator!Resolved, Allocator!resolve_id
<1> QED BY <1>1, <1>6, <1>7, SameCandidates

LEMMA StoreIsAssign ==
  ASSUME TypeOK, ProbeInv, NEW c \in Clients, StoreUser(c)
  PROVE  Allocator!Next
<1> DEFINE row == UserRow(job[c])
           t == uid_cache
           n == uid_cache'
<1>1. job[c].item.id \in UserIds /\ job[c].uid \in UidSlots
  BY ResourceFields DEF StoreUser, TypeOK, ClientsOK, JobFits, ConvertsUser
<1>2. PICK u \in UserIds : u = job[c].item.id
  BY <1>1
<1>3. n = store_user(t, u, row) /\ row.uid = job[c].uid
  BY <1>2 DEF StoreUser, UserRow
<1>4. Found(t, u, row.uid)
  BY <1>2, <1>3 DEF StoreUser, ProbeInv, LoopInv
<1>5. Allocator!Resolved(u) = row.uid
  BY <1>4, FoundIsResolved
<1>6. row.uid # Allocator!Exhausted
  BY <1>3, <1>1, RangesFit DEF UidSlots, Allocator!Exhausted
<1>7. ~Taken(t, u, row.uid)
  BY <1>4 DEF Found
<1> HIDE DEF row
<1>8. {i \in DOMAIN t : t[i].uid # row.uid} \cup {u} = DOMAIN t \cup {u}
  BY <1>7 DEF Taken, uid_owner_is_other
<1>9. n = [i \in DOMAIN t \cup {u} |-> IF i = u THEN row ELSE t[i]]
  BY <1>3, <1>8 DEF store_user
<1>10. Uids(n) = [i \in DOMAIN Uids(t) \cup {u} |-> IF i = u THEN row.uid ELSE Uids(t)[i]]
  BY <1>9 DEF Uids
<1>11. Allocator!Assign(u)
  BY <1>5, <1>6, <1>10 DEF Uids, Allocator!Assign
<1> QED BY <1>11 DEF Allocator!Next

LEMMA PurgeIsForget ==
  ASSUME TypeOK, NEW c \in Clients, PurgeUsers(c)
  PROVE  Allocator!Next \/ Uids(uid_cache') = Uids(uid_cache)
<1> DEFINE t == uid_cache
           n == uid_cache'
<1>0. PICK S : S = Expired(t)
  OBVIOUS
<1>1. /\ DOMAIN n = DOMAIN t \ S
      /\ \A i \in DOMAIN n : n[i] = t[i]
  BY <1>0, PurgedType DEF PurgeUsers, TypeOK, DatabaseOK
<1>2. Uids(n) = [i \in DOMAIN Uids(t) \ S |-> Uids(t)[i]] /\ S \subseteq DOMAIN Uids(t)
  BY <1>0, <1>1 DEF Uids, Expired
<1>3. CASE S = {}
  BY <1>2, <1>3 DEF Uids
<1>4. CASE S # {}
  <2>1. Allocator!Forget(S)
    BY <1>2, <1>4 DEF Uids, Allocator!Forget
  <2> QED BY <1>2, <2>1 DEF Uids, Allocator!Next
<1> QED BY <1>3, <1>4

(* A process that has the database to itself, restarted as often as you    *)
(* like, implements the atomic allocator: every property of UidAllocator   *)
(* holds of its uids.                                                      *)
THEOREM SoleRefinesAllocator == ASSUME Sole PROVE Spec => RefinesAllocator
<1>1. Init => Allocator!Init
  BY DEF Init, EmptyTable, Allocator!Init
<1>2. TypeOK /\ ProbeInv /\ [Next]_vars
        => [Allocator!Next]_([i \in DOMAIN uid_cache |-> uid_cache[i].uid])
  <2> SUFFICES ASSUME TypeOK, ProbeInv, [Next]_vars
               PROVE  Allocator!Next \/ Uids(uid_cache') = Uids(uid_cache)
    BY DEF Uids
  <2>1. CASE \E c \in Clients : StoreUser(c)
    BY <2>1, StoreIsAssign
  <2>2. CASE \E c \in Clients : PurgeUsers(c)
    BY <2>2, PurgeIsForget
  <2>3. CASE \A c \in Clients : ~StoreUser(c) /\ ~PurgeUsers(c)
    BY <2>3, UidsUnchanged DEF Uids
  <2> QED BY <2>1, <2>2, <2>3
<1> QED BY <1>1, <1>2, ServiceTypeCorrect, ProbeAlways, PTL
        DEF Spec, RefinesAllocator, Allocator!Spec
-----------------------------------------------------------------------------
(* Storing a group, one statement per member. *)

(* The displayed members of a group before the k-th. *)
DisplayedUpTo(r, k) == {r.members[i] : i \in 1..(k - 1)} \ {NoDisplay}

(* The group row of the job is in place. *)
RowKept(c) ==
  LET j == job[c]
  IN  j.item.id \in DOMAIN gid_cache /\ gid_cache[j.item.id].gid = j.gid

(* What store_group has achieved before each of its statements. *)
StoreInv(c) ==
  /\ pc[c] \in {"delete_members", "insert_members"} => RowKept(c)
  /\ pc[c] = "insert_members" =>
       /\ job[c].k <= Len(job[c].item.members) + 1
       /\ get_group_members(group_members, job[c].item.id)
            = DisplayedUpTo(job[c].item, job[c].k)

GroupInv == \A c \in Clients : StoreInv(c)

(* The members of a group after an insert and after the delete. *)
LEMMA MembersAfterInsert ==
  ASSUME NEW gm, NEW id, NEW n, NEW m, m[1] = id, m[2] = n, NEW new, new = gm \cup {m}
  PROVE  get_group_members(new, id) = get_group_members(gm, id) \cup {n}
<1>1. ASSUME NEW x PROVE x \in get_group_members(new, id) <=> \E p \in new : p[1] = id /\ x = p[2]
  BY DEF get_group_members
<1>2. ASSUME NEW x PROVE x \in get_group_members(gm, id) <=> \E p \in gm : p[1] = id /\ x = p[2]
  BY DEF get_group_members
<1>3. ASSUME NEW x PROVE x \in get_group_members(new, id)
                           <=> x \in get_group_members(gm, id) \/ x = n
  <2>1. (\E p \in new : p[1] = id /\ x = p[2]) <=> (\E p \in gm : p[1] = id /\ x = p[2]) \/ x = n
    OBVIOUS
  <2> QED BY <1>1, <1>2, <2>1
<1> QED BY <1>3

LEMMA MembersAfterDelete ==
  ASSUME NEW gm, NEW id PROVE get_group_members(delete_members(gm, {id}), id) = {}
  BY DEF get_group_members, delete_members

(* The loop over the members collects the displayed ones. *)
LEMMA DisplayedLoop ==
  ASSUME NEW r \in GroupRecs
  PROVE  /\ DisplayedUpTo(r, 1) = {}
         /\ \A k \in 1..Len(r.members) :
              DisplayedUpTo(r, k + 1) = DisplayedUpTo(r, k) \cup ({r.members[k]} \ {NoDisplay})
         /\ DisplayedUpTo(r, Len(r.members) + 1) = Displayed(r)
<1>1. r.members \in Seq(Names \cup {NoDisplay}) /\ Len(r.members) \in Nat
  BY ResourceFields
<1>2. ASSUME NEW k \in 1..Len(r.members)
      PROVE  DisplayedUpTo(r, k + 1) = DisplayedUpTo(r, k) \cup ({r.members[k]} \ {NoDisplay})
  <2>1. 1..((k + 1) - 1) = (1..(k - 1)) \cup {k}
    BY <1>1
  <2> QED BY <2>1 DEF DisplayedUpTo
<1>3. DisplayedUpTo(r, 1) = {}
  BY DEF DisplayedUpTo
<1>4. DisplayedUpTo(r, Len(r.members) + 1) = Displayed(r)
  BY <1>1 DEF DisplayedUpTo, Displayed
<1> QED BY <1>2, <1>3, <1>4

LEMMA InsertMemberInv ==
  ASSUME TypeOK, NEW c \in Clients, StoreInv(c), InsertMember(c)
  PROVE  StoreInv(c)'
<1>1. PICK j \in Job : j = job[c]
  BY DEF TypeOK, ClientsOK
<1>2. /\ pc[c] = "insert_members" /\ j.item \in GroupRecs
      /\ j.k \in Nat \ {0} /\ j.k <= Len(j.item.members)
  BY <1>1 DEF InsertMember, TypeOK, ClientsOK, JobFits, ConvertsGroup
<1>3. j.k \in 1..Len(j.item.members) /\ Len(j.item.members) \in Nat
  BY <1>2, ResourceFields
<1>4. PICK m : m = j.item.members[j.k]
  OBVIOUS
<1>5. DisplayedUpTo(j.item, j.k + 1) = DisplayedUpTo(j.item, j.k) \cup ({m} \ {NoDisplay})
  BY <1>2, <1>3, <1>4, DisplayedLoop
<1>6. get_group_members(group_members, j.item.id) = DisplayedUpTo(j.item, j.k) /\ RowKept(c)
  BY <1>1, <1>2 DEF StoreInv
<1>7. gid_cache' = gid_cache
  BY DEF InsertMember
<1>8. CASE Return(c, "error", "none")
  BY <1>8, StepPlace DEF StoreInv
<1>9. CASE Step(c, "insert_members", [j EXCEPT !.k = @ + 1])
  <2> DEFINE i == [j EXCEPT !.k = @ + 1]
  <2>1. i.k = j.k + 1 /\ i.item = j.item /\ i.gid = j.gid
    BY DEF Job
  <2>2. pc'[c] = "insert_members" /\ job'[c] = i
    BY <1>9 DEF Step, TypeOK, ClientsOK
  <2> HIDE DEF i
  <2>3. get_group_members(group_members', j.item.id) = DisplayedUpTo(j.item, j.k + 1)
    <3>1. CASE m = NoDisplay
      <4>1. group_members' = group_members
        BY <1>1, <1>4, <3>1 DEF InsertMember
      <4> QED BY <1>5, <1>6, <3>1, <4>1
    <3>2. CASE m # NoDisplay
      <4>0. PICK pair : pair = <<j.item.id, m>>
        OBVIOUS
      <4>1. group_members' = group_members \cup {pair} /\ pair[1] = j.item.id /\ pair[2] = m
        <5>1. ~Return(c, "error", "none")
          BY <2>2, StepPlace
        <5> QED BY <1>1, <1>4, <3>2, <4>0, <5>1 DEF InsertMember
      <4>2. get_group_members(group_members', j.item.id)
              = get_group_members(group_members, j.item.id) \cup {m}
        <5>1. PICK new, id : new = group_members' /\ id = j.item.id
          OBVIOUS
        <5>2. PICK gm : gm = group_members
          OBVIOUS
        <5>3. new = gm \cup {pair} /\ pair[1] = id /\ pair[2] = m
          BY <4>1, <5>1, <5>2
        <5>4. get_group_members(new, id) = get_group_members(gm, id) \cup {m}
          BY <5>3, MembersAfterInsert
        <5> QED BY <5>1, <5>2, <5>4
      <4> QED BY <1>5, <1>6, <3>2, <4>2
    <3> QED BY <3>1, <3>2
  <2>4. RowKept(c)'
    BY <1>1, <1>6, <1>7, <2>1, <2>2 DEF RowKept
  <2> QED BY <1>3, <2>1, <2>2, <2>3, <2>4 DEF StoreInv
<1> QED BY <1>1, <1>8, <1>9 DEF InsertMember

LEMMA GroupNext == ASSUME Sole, TypeOK, GroupInv, [Next]_vars PROVE GroupInv'
<1>1. CASE EditUsers \/ EditGroups \/ Tick \/ UNCHANGED vars
  <2>1. UNCHANGED <<clientVars, group_members>>
    BY <1>1 DEF EditUsers, EditGroups, Tick, vars, clientVars, dbVars
  <2>2. /\ DOMAIN gid_cache' = DOMAIN gid_cache
        /\ \A i \in DOMAIN gid_cache : gid_cache'[i].gid = gid_cache[i].gid
    <3>1. CASE Tick
      BY <3>1, OlderRow DEF Tick, Aged, TypeOK, DatabaseOK
    <3>2. CASE UNCHANGED gid_cache
      BY <3>2
    <3> QED BY <1>1, <3>1, <3>2 DEF EditUsers, EditGroups, vars, dbVars
  <2> QED BY <2>1, <2>2 DEF GroupInv, StoreInv, RowKept, clientVars
<1>2. ASSUME NEW c \in Clients, Start(c) \/ Ask(c) \/ Work(c) \/ Exit(c) PROVE StoreInv(c)'
  <2>1. CASE StoreGroup(c)
    <3>1. pc'[c] = "delete_members" /\ job'[c] = job[c]
      BY <2>1 DEF StoreGroup, Step, TypeOK, ClientsOK
    <3>2. gid_cache' = store_group_row(gid_cache, job[c].item.id, GroupRow(job[c]))
      BY <2>1 DEF StoreGroup
    <3>3. RowKept(c)'
      BY <3>1, <3>2 DEF RowKept, store_group_row, GroupRow
    <3> QED BY <3>1, <3>3 DEF StoreInv
  <2>2. CASE DeleteMembers(c)
    <3>1. PICK j \in Job : j = job[c]
      BY DEF TypeOK, ClientsOK
    <3> DEFINE i == [j EXCEPT !.k = 1]
    <3>2. i.k = 1 /\ i.item = j.item /\ i.gid = j.gid
      BY DEF Job
    <3>3. pc'[c] = "insert_members" /\ job'[c] = i /\ gid_cache' = gid_cache
      BY <2>2, <3>1 DEF DeleteMembers, Step, TypeOK, ClientsOK
    <3> HIDE DEF i
    <3>4. j.item \in GroupRecs /\ RowKept(c)
      BY <2>2, <3>1 DEF DeleteMembers, TypeOK, ClientsOK, JobFits, ConvertsGroup, GroupInv, StoreInv
    <3>5. RowKept(c)'
      BY <3>1, <3>2, <3>3, <3>4 DEF RowKept
    <3>6. get_group_members(group_members', j.item.id) = {}
      BY <2>2, <3>1, MembersAfterDelete DEF DeleteMembers
    <3>7. Len(j.item.members) \in Nat
      BY <3>4, ResourceFields
    <3>8. get_group_members(group_members', job'[c].item.id) = DisplayedUpTo(job'[c].item, job'[c].k)
      BY <3>2, <3>3, <3>4, <3>6, DisplayedLoop
    <3>9. job'[c].k <= Len(job'[c].item.members) + 1
      BY <3>2, <3>3, <3>7
    <3> QED BY <3>3, <3>5, <3>8, <3>9 DEF StoreInv
  <2>3. CASE InsertMember(c)
    BY <2>3, InsertMemberInv DEF GroupInv
  <2>4. CASE ResolveGid(c)
    <3>1. pc'[c] \in {"resolve_gid", "store_user", "store_group", "idle"}
      BY <2>4, StepPlace DEF ResolveGid
    <3> QED BY <3>1 DEF StoreInv
  <2>5. CASE ~ResolveGid(c) /\ ~StoreGroup(c) /\ ~DeleteMembers(c) /\ ~InsertMember(c)
    BY <1>2, <2>5, WayToStore DEF StoreInv, StorePlaces
  <2> QED BY <2>1, <2>2, <2>3, <2>4, <2>5
<1> QED BY <1>1, <1>2 DEF Next, Sole, GroupInv

LEMMA GroupAlways == ASSUME Sole PROVE Spec => []GroupInv
<1>1. Init => GroupInv
  BY DEF Init, GroupInv, StoreInv
<1>2. TypeOK /\ GroupInv /\ [Next]_vars => GroupInv'
  BY GroupNext
<1> QED BY <1>1, <1>2, ServiceTypeCorrect, PTL DEF Spec

(* A client is done with a group only at the end of the member loop. *)
LEMMA DoneWithGroup ==
  ASSUME Sole, TypeOK, [Next]_vars, NEW c \in Clients, pc[c] = "insert_members",
         job'[c].item # job[c].item, pc'[c] # "down", ret'.tag # "error"
  PROVE  MembersInserted(c)
<1>1. CASE EditUsers \/ EditGroups \/ Tick \/ UNCHANGED vars
  BY <1>1 DEF EditUsers, EditGroups, Tick, vars, clientVars
<1>2. ~Start(c) /\ ~Ask(c)
  BY DEF Start, Ask, CallByName, CallByNum, CallList, TooLong, Begin
<1>3. ~Exit(c)
  BY StepPlace DEF Exit
<1>4. ~PurgeMembers(c) /\ ~PurgeGroups(c) /\ ~PurgeUsers(c)
  BY DEF PurgeMembers, PurgeGroups, PurgeUsers
<1>5. ~ScimUser(c) /\ ~ScimGroup(c) /\ ~ScimUserList(c) /\ ~ScimGroupList(c) /\ ~ScimFailed(c)
  BY DEF ScimUser, ScimGroup, ScimUserList, ScimGroupList, ScimFailed
<1>6. ~ReadUser(c) /\ ~ReadGroup(c) /\ ~ReadMembers(c) /\ ~ReadGroupsForMember(c)
  BY DEF ReadUser, ReadGroup, ReadMembers, ReadGroupsForMember
<1>7. ~ResolveUid(c) /\ ~ResolveGid(c) /\ ~ResolveGids(c) /\ ~StoreUser(c)
  BY DEF ResolveUid, ResolveGid, ResolveGids, StoreUser
<1>8. ~StoreGroup(c) /\ ~DeleteMembers(c)
  BY DEF StoreGroup, DeleteMembers
<1>9. ASSUME NEW tag, NEW id, Return(c, tag, id) PROVE tag # "error"
  BY <1>9 DEF Return
<1>10. ~DbFail(c)
  BY <1>9 DEF DbFail
<1>11. ~InsertMember(c)
  <2>1. PICK j \in Job : j = job[c]
    BY DEF TypeOK, ClientsOK
  <2> DEFINE i == [j EXCEPT !.k = @ + 1]
  <2>2. i.item = j.item
    BY DEF Job
  <2>3. ~Step(c, "insert_members", i)
    <3> HIDE DEF i
    <3> QED BY <2>1, <2>2 DEF Step, TypeOK, ClientsOK
  <2> QED BY <1>9, <2>1, <2>3 DEF InsertMember
<1> QED BY <1>1, <1>2, <1>3, <1>4, <1>5, <1>6, <1>7, <1>8, <1>10, <1>11 DEF Next, Work, Sole

(* A process that has the database to itself, with failing statements and  *)
(* restarts, finishes a group without an error only when the row and       *)
(* exactly the displayed members it was reported with are cached, although *)
(* store_group takes one transaction per member.                           *)
THEOREM SoleGroupStoredWhole == ASSUME Sole PROVE Spec => GroupStoredWhole
<1> DEFINE Whole == \A c \in Clients :
             LET j == job[c]
             IN  /\ pc[c] = "insert_members"
                 /\ job'[c].item # j.item
                 /\ pc'[c] # "down" /\ ret'.tag # "error"
                 => /\ j.item.id \in DOMAIN gid_cache
                    /\ gid_cache[j.item.id].gid = j.gid
                    /\ get_group_members(group_members, j.item.id) = Displayed(j.item)
<1>1. ASSUME TypeOK, GroupInv, [Next]_vars, NEW c \in Clients, pc[c] = "insert_members",
             job'[c].item # job[c].item, pc'[c] # "down", ret'.tag # "error"
      PROVE  /\ job[c].item.id \in DOMAIN gid_cache
             /\ gid_cache[job[c].item.id].gid = job[c].gid
             /\ get_group_members(group_members, job[c].item.id) = Displayed(job[c].item)
  <2>1. MembersInserted(c)
    BY <1>1, DoneWithGroup
  <2>2. /\ job[c].item \in GroupRecs /\ job[c].k \in Nat
        /\ job[c].k > Len(job[c].item.members)
    BY <1>1, <2>1 DEF MembersInserted, TypeOK, ClientsOK, JobFits, ConvertsGroup
  <2>3. /\ RowKept(c) /\ job[c].k <= Len(job[c].item.members) + 1
        /\ get_group_members(group_members, job[c].item.id)
             = DisplayedUpTo(job[c].item, job[c].k)
    BY <1>1 DEF GroupInv, StoreInv
  <2>4. job[c].k = Len(job[c].item.members) + 1
    BY <2>2, <2>3, ResourceFields
  <2> QED BY <2>2, <2>3, <2>4, DisplayedLoop DEF RowKept
<1>2. TypeOK /\ GroupInv /\ [Next]_vars => [Whole]_vars
  BY <1>1
<1> QED BY <1>2, ServiceTypeCorrect, GroupAlways, PTL DEF Spec, GroupStoredWhole
-----------------------------------------------------------------------------
(* The last report about a user and the row cached for it. *)

(* Client c is converting users it was told about. *)
ConvertPlaces == {"resolve_uid", "resolve_gid", "store_user"}
Converting(c) == pc[c] \in ConvertPlaces /\ job[c].op \in UserOps

(* The users client c was told about and has still to store. *)
Rest(op, todo) == IF op = "list_users" THEN todo ELSE {}
Unstored(c) ==
  IF Converting(c) THEN {job[c].item} \cup Rest(job[c].op, job[c].todo) ELSE {}

(* The records in recs are the last reports about their users. *)
LastReports(recs, rep) == \A r \in recs : r.id \in DOMAIN rep /\ rep[r.id] = r

(* A row says what a report says: its name, and active only if it does. *)
Says(row, r) == row.login = r.user_name /\ (row.active => r.active # "false")

(* Every row says what the last report says, or a newer row is on its way. *)
RowsFollow(t, rep, recs) ==
  \A i \in DOMAIN t :
    i \in DOMAIN rep /\ (Says(t[i], rep[i]) \/ \E r \in recs : r.id = i)

(* The user a lookup by name converts has the name that was asked for. *)
AskedFor(c) ==
  Converting(c) /\ job[c].op # "list_users" => job[c].item.user_name = job[c].name

Follows(c) ==
  /\ LastReports(Unstored(c), reported)
  /\ RowsFollow(uid_cache, reported, Unstored(c))
  /\ AskedFor(c)

ReportInv ==
  /\ DirectoryConsistent(dir_users, UserName)
  /\ \A c \in Clients : Follows(c)
  /\ GrantedAsReported

(* No client drops what it was told about a user before it is stored: no   *)
(* statement fails, no range is exhausted and no process exits in between. *)
ReportsKept ==
  \A c \in Clients :
    Converting(c) => pc'[c] # "down" /\ ret'.tag \notin {"error", "exhausted"}

(* A step that has nothing to do with users and grants nothing. *)
Quiet(c) == ~Converting(c)' /\ ret'.tag # "active"

LEMMA QuietMoves ==
  ASSUME TypeOK, NEW c \in Clients
  PROVE  /\ \A place, j : Step(c, place, j) /\ place \notin ConvertPlaces => Quiet(c)
         /\ \A tag, id : Return(c, tag, id) /\ tag # "active" => Quiet(c)
         /\ \A todo : NextItem(c, todo) /\ job[c].op \in GroupOps => Quiet(c)
<1>1. pc \in [Clients -> Places] /\ job \in [Clients -> Job]
  BY DEF TypeOK, ClientsOK
<1>2. ASSUME NEW place, NEW j, Step(c, place, j), place \notin ConvertPlaces PROVE Quiet(c)
  BY <1>1, <1>2 DEF Step, Quiet, Converting, NoAnswer
<1>3. ASSUME NEW tag, NEW id, Return(c, tag, id), tag # "active" PROVE Quiet(c)
  BY <1>1, <1>3 DEF Return, Quiet, Converting, ConvertPlaces
<1>4. ASSUME NEW r, NEW rest, TakeItem(c, r, rest), job[c].op \in GroupOps PROVE Quiet(c)
  <2> DEFINE j == [job[c] EXCEPT !.item = r, !.todo = rest, !.off = 0]
  <2>1. j.op = job[c].op
    BY <1>1 DEF Job
  <2>2. job'[c] = j /\ ret' = NoAnswer
    BY <1>1, <1>4 DEF TakeItem, Step
  <2> HIDE DEF j
  <2> QED BY <1>4, <2>1, <2>2 DEF Quiet, Converting, NoAnswer, GroupOps, UserOps
<1> QED BY <1>2, <1>3, <1>4 DEF NextItem

(* The steps that neither receive, convert, store nor read users. *)
LEMMA QuietSteps ==
  ASSUME TypeOK, NEW c \in Clients, Start(c) \/ Ask(c) \/ Exit(c) \/ Work(c),
         ~ScimUser(c), ~ScimUserList(c), ~ResolveUid(c), ~ResolveGid(c),
         ~StoreUser(c), ~ReadUser(c)
  PROVE  Quiet(c)
<1> USE DEF ConvertPlaces
<1>1. CASE Start(c) \/ PurgeMembers(c) \/ PurgeGroups(c) \/ PurgeUsers(c) \/ Exit(c)
  BY <1>1, QuietMoves DEF Start, PurgeMembers, PurgeGroups, PurgeUsers, Exit
<1>2. CASE Ask(c)
  <2>1. ASSUME NEW op, NEW n, TooLong(c, op, n) PROVE Quiet(c)
    BY <2>1 DEF TooLong, clientVars, Quiet, Converting
  <2>2. ASSUME NEW op, NEW n, NEW x, Begin(c, op, n, x, "scim") \/ Begin(c, op, n, x, "cache")
        PROVE  Quiet(c)
    BY <2>2, QuietMoves DEF Begin
  <2> QED BY <1>2, <2>1, <2>2 DEF Ask, CallByName, CallByNum, CallList
<1>3. CASE ScimGroup(c)
  <2>1. ASSUME NEW r, TakeItem(c, r, {}) PROVE NextItem(c, {r})
    <3>1. {r} \ {r} = {}
      OBVIOUS
    <3> QED BY <2>1, <3>1 DEF NextItem
  <2>2. job[c].op \in GroupOps
    BY <1>3 DEF ScimGroup, GroupOps
  <2> QED BY <1>3, <2>1, <2>2, QuietMoves DEF ScimGroup, FallBack
<1>4. CASE ScimGroupList(c)
  <2>1. job[c].op \in GroupOps
    BY <1>4 DEF ScimGroupList, GroupOps
  <2> QED BY <1>4, <2>1, QuietMoves DEF ScimGroupList
<1>5. CASE ScimFailed(c)
  BY <1>5, QuietMoves DEF ScimFailed, FallBack
<1>6. CASE ReadMembers(c) \/ ReadGroupsForMember(c) \/ ReadGroup(c)
  <2>1. CASE ReadMembers(c) \/ ReadGroupsForMember(c)
    BY <2>1, QuietMoves DEF ReadMembers, ReadGroupsForMember
  <2>2. CASE ReadGroup(c)
    <3>1. (\E j : Step(c, "read_members", j)) \/ Return(c, "missing", "none")
      BY <2>2 DEF ReadGroup
    <3> QED BY <3>1, QuietMoves
  <2> QED BY <1>6, <2>1, <2>2
<1>7. CASE ResolveGids(c)
  BY <1>7, QuietMoves DEF ResolveGids
<1>8. CASE StoreGroup(c) \/ DeleteMembers(c) \/ InsertMember(c)
  BY <1>8, QuietMoves DEF StoreGroup, DeleteMembers, InsertMember
<1>9. CASE MembersInserted(c)
  <2>1. job[c].op \in GroupOps
    BY <1>9 DEF MembersInserted, TypeOK, ClientsOK, JobFits, ConvertsGroup
  <2> QED BY <1>9, <2>1, QuietMoves DEF MembersInserted
<1>10. CASE DbFail(c)
  BY <1>10, QuietMoves DEF DbFail
<1> QED BY <1>1, <1>2, <1>3, <1>4, <1>5, <1>6, <1>7, <1>8, <1>9, <1>10 DEF Work

(* A client that is converting users goes on with it or fails. *)
LEMMA ConvertsOrFails ==
  ASSUME NEW c \in Clients, Start(c) \/ Ask(c) \/ Exit(c) \/ Work(c), Converting(c)
  PROVE  ResolveUid(c) \/ ResolveGid(c) \/ StoreUser(c) \/ DbFail(c) \/ Exit(c)
<1> USE DEF Converting, ConvertPlaces
<1>1. ~Start(c) /\ ~Ask(c)
  BY DEF Start, Ask, CallByName, CallByNum, CallList, TooLong, Begin
<1>2. ~PurgeMembers(c) /\ ~PurgeGroups(c) /\ ~PurgeUsers(c)
  BY DEF PurgeMembers, PurgeGroups, PurgeUsers
<1>3. ~ScimUser(c) /\ ~ScimGroup(c) /\ ~ScimUserList(c) /\ ~ScimGroupList(c) /\ ~ScimFailed(c)
  BY DEF ScimUser, ScimGroup, ScimUserList, ScimGroupList, ScimFailed
<1>4. ~ReadUser(c) /\ ~ReadGroup(c) /\ ~ReadMembers(c) /\ ~ReadGroupsForMember(c)
  BY DEF ReadUser, ReadGroup, ReadMembers, ReadGroupsForMember
<1>5. ~ResolveGids(c) /\ ~StoreGroup(c) /\ ~DeleteMembers(c) /\ ~InsertMember(c)
      /\ ~MembersInserted(c)
  BY DEF ResolveGids, StoreGroup, DeleteMembers, InsertMember, MembersInserted
<1> QED BY <1>1, <1>2, <1>3, <1>4, <1>5 DEF Work

LEMMA ConvertingSteps ==
  ASSUME TypeOK, NEW c \in Clients, Start(c) \/ Ask(c) \/ Exit(c) \/ Work(c),
         Converting(c), pc'[c] # "down", ret'.tag # "error"
  PROVE  ResolveUid(c) \/ ResolveGid(c) \/ StoreUser(c)
<1>1. ~Exit(c)
  BY StepPlace DEF Exit
<1>2. ~DbFail(c)
  BY DEF DbFail, Return, Converting, ConvertPlaces
<1> QED BY <1>1, <1>2, ConvertsOrFails
-----------------------------------------------------------------------------
(* A row keeps its name and its active column when it ages. *)
LEMMA OlderSays ==
  ASSUME NEW row \in UserRows, NEW r PROVE Says(Older(row), r) <=> Says(row, r)
  BY DEF Older, UserRows, Says

(* What the history records when each user is in the answer once. *)
LEMMA ReportOf ==
  ASSUME NEW recs, \A r, s \in recs : r.id = s.id => r = s, Report(recs)
  PROVE  /\ LastReports(recs, reported')
         /\ \A i \in DOMAIN reported :
              /\ i \in DOMAIN reported'
              /\ reported'[i] = reported[i] \/ \E r \in recs : r.id = i
<1> DEFINE f == [i \in DOMAIN reported \cup {r.id : r \in recs} |->
                   IF \E r \in recs : r.id = i THEN CHOOSE r \in recs : r.id = i
                                               ELSE reported[i]]
<1>1. reported' = f
  BY DEF Report
<1>2. ASSUME NEW r \in recs PROVE f[r.id] = r
  <2>1. (CHOOSE s \in recs : s.id = r.id) = r
    OBVIOUS
  <2> QED BY <2>1
<1>3. \A r \in recs : r.id \in DOMAIN f
  OBVIOUS
<1>4. \A i \in DOMAIN reported : i \in DOMAIN f /\ (f[i] = reported[i] \/ \E r \in recs : r.id = i)
  OBVIOUS
<1> HIDE DEF f
<1> QED BY <1>1, <1>2, <1>3, <1>4 DEF LastReports

(* After a report every row follows it or is about to. *)
LEMMA FollowReport ==
  ASSUME NEW recs, \A r, s \in recs : r.id = s.id => r = s, Report(recs),
         RowsFollow(uid_cache, reported, {}), uid_cache' = uid_cache
  PROVE  LastReports(recs, reported') /\ RowsFollow(uid_cache', reported', recs)
  BY ReportOf DEF RowsFollow

(* A client starts on a list of users, or goes on with it. *)
LEMMA TakeItemUnstored ==
  ASSUME TypeOK, NEW c \in Clients, NEW r, NEW rest, TakeItem(c, r, rest),
         job[c].op \in UserOps
  PROVE  /\ Unstored(c)' = {r} \cup Rest(job[c].op, rest) /\ ret' = NoAnswer
         /\ job[c].op = "list_users" \/ r.user_name = job[c].name => AskedFor(c)'
<1> DEFINE j == [job[c] EXCEPT !.item = r, !.todo = rest, !.off = 0]
<1>1. j.op = job[c].op /\ j.item = r /\ j.todo = rest /\ j.name = job[c].name
  BY DEF TypeOK, ClientsOK, Job
<1>2. job'[c] = j /\ pc'[c] = "resolve_uid" /\ ret' = NoAnswer
  BY DEF TakeItem, Step, TypeOK, ClientsOK
<1> HIDE DEF j
<1> QED BY <1>1, <1>2 DEF Unstored, Converting, ConvertPlaces, AskedFor

LEMMA NextItemUnstored ==
  ASSUME TypeOK, NEW c \in Clients, NEW todo, NextItem(c, todo), job[c].op = "list_users"
  PROVE  Unstored(c)' = todo /\ AskedFor(c)' /\ ret'.tag # "active"
<1>1. CASE todo = {} /\ Return(c, "listed", "none")
  BY <1>1, QuietMoves DEF Quiet, Unstored, AskedFor
<1>2. ASSUME NEW r \in todo, TakeItem(c, r, todo \ {r})
      PROVE  Unstored(c)' = todo /\ AskedFor(c)' /\ ret'.tag # "active"
  <2>1. Unstored(c)' = {r} \cup (todo \ {r}) /\ AskedFor(c)' /\ ret' = NoAnswer
    BY <1>2, TakeItemUnstored DEF UserOps, Rest
  <2> QED BY <2>1 DEF NoAnswer
<1> QED BY <1>1, <1>2 DEF NextItem

(* Nobody is granted anything by a step that answers something else. *)
LEMMA NothingGranted == ASSUME ret'.tag # "active" PROVE GrantedAsReported'
  BY DEF GrantedAsReported, Granted

LEMMA ScimUserFollows ==
  ASSUME TypeOK, ReportInv, NEW c \in Clients, ScimUser(c)
  PROVE  Follows(c)' /\ GrantedAsReported'
<1> DEFINE matches == {r \in dir_users : r.user_name = job[c].name}
<1>1. /\ Unstored(c) = {} /\ job[c].op \in UserOps
      /\ job[c].op \in {"user_by_name", "check_active", "groups_for_user"}
  BY DEF ScimUser, Unstored, Converting, ConvertPlaces, UserOps, ListOps
<1>2. \A r, s \in matches : r = s
  BY DEF ReportInv, DirectoryConsistent, UserName
<1>3. Report(matches) /\ uid_cache' = uid_cache
  BY DEF ScimUser, dbVars
<1>4. RowsFollow(uid_cache, reported, {})
  BY <1>1 DEF ReportInv, Follows
<1>4a. \A r \in matches : r.user_name = job[c].name
  OBVIOUS
<1> HIDE DEF matches
<1>5. LastReports(matches, reported') /\ RowsFollow(uid_cache', reported', matches)
  BY <1>2, <1>3, <1>4, FollowReport
<1>6. CASE \E r \in matches : TakeItem(c, r, {})
  <2>1. PICK r \in matches : TakeItem(c, r, {})
    BY <1>6
  <2>2. matches = {r} \cup Rest(job[c].op, {})
    BY <1>2 DEF Rest
  <2>3. Unstored(c)' = matches /\ AskedFor(c)' /\ ret' = NoAnswer
    BY <1>1, <1>4a, <2>1, <2>2, TakeItemUnstored
  <2> QED BY <1>5, <2>3, NothingGranted DEF Follows, NoAnswer
<1>7. CASE matches = {} /\ Quiet(c)
  <2>1. Unstored(c)' = matches /\ AskedFor(c)'
    BY <1>7 DEF Quiet, Unstored, AskedFor
  <2> QED BY <1>5, <1>7, <2>1, NothingGranted DEF Follows, Quiet
<1>8. \/ \E r \in matches : TakeItem(c, r, {})
      \/ /\ matches = {}
         /\ FallBack(c) \/ \E tag \in {"inactive", "gids"} : Return(c, tag, "none")
  BY <1>1 DEF ScimUser, matches
<1>9. FallBack(c) => Quiet(c)
  BY QuietMoves DEF FallBack, ConvertPlaces
<1> QED BY <1>6, <1>7, <1>8, <1>9, QuietMoves

LEMMA ScimUserListFollows ==
  ASSUME TypeOK, ReportInv, NEW c \in Clients, ScimUserList(c)
  PROVE  Follows(c)' /\ GrantedAsReported'
<1>1. Unstored(c) = {} /\ job[c].op = "list_users"
  BY DEF ScimUserList, Unstored, Converting, ConvertPlaces
<1>2. \A r, s \in dir_users : r.id = s.id => r = s
  BY DEF ReportInv, DirectoryConsistent
<1>3. Report(dir_users) /\ uid_cache' = uid_cache /\ NextItem(c, dir_users)
  BY DEF ScimUserList, dbVars
<1>4. RowsFollow(uid_cache, reported, {})
  BY <1>1 DEF ReportInv, Follows
<1>5. LastReports(dir_users, reported') /\ RowsFollow(uid_cache', reported', dir_users)
  BY <1>2, <1>3, <1>4, FollowReport
<1>6. Unstored(c)' = dir_users /\ AskedFor(c)' /\ ret'.tag # "active"
  BY <1>1, <1>3, NextItemUnstored
<1> QED BY <1>5, <1>6, NothingGranted DEF Follows

LEMMA ResolveFollows ==
  ASSUME TypeOK, ReportInv, NEW c \in Clients, ResolveUid(c) \/ ResolveGid(c),
         Converting(c) => ret'.tag # "exhausted"
  PROVE  Follows(c)' /\ GrantedAsReported'
<1>1. PICK j \in Job : j = job[c]
  BY DEF TypeOK, ClientsOK
<1>2. uid_cache' = uid_cache /\ reported' = reported
  BY DEF ResolveUid, ResolveGid, dbVars, envVars
<1>3. pc[c] \in ConvertPlaces /\ (j.op \in UserOps \/ pc[c] = "resolve_gid")
  BY <1>1 DEF ResolveUid, ResolveGid, ConvertPlaces, TypeOK, ClientsOK, JobFits, ConvertsUser
<1>3a. AskedFor(c)
  BY DEF ReportInv, Follows
<1>4. ASSUME NEW place, NEW i, Step(c, place, i), i.op = j.op, i.item = j.item, i.todo = j.todo,
             i.name = j.name,
             place \in ConvertPlaces \/ (place = "store_group" /\ j.op \notin UserOps)
      PROVE  Unstored(c)' = Unstored(c) /\ AskedFor(c)' /\ ret'.tag # "active"
  <2>1. pc'[c] = place /\ job'[c] = i /\ ret' = NoAnswer
    BY <1>4 DEF Step, TypeOK, ClientsOK
  <2>2. Converting(c)' <=> Converting(c)
    BY <1>1, <1>3, <1>4, <2>1 DEF Converting
  <2> QED BY <1>1, <1>4, <1>3a, <2>1, <2>2 DEF Unstored, AskedFor, NoAnswer
<1>5. ASSUME NEW n PROVE \A i \in {[j EXCEPT !.off = n], [j EXCEPT !.uid = n, !.off = 0],
                                   [j EXCEPT !.gid = n, !.off = 0]} :
                           i.op = j.op /\ i.item = j.item /\ i.todo = j.todo /\ i.name = j.name
  BY DEF Job
<1>6. CASE \E id : Return(c, "exhausted", id)
  <2>1. ~Converting(c)
    BY <1>6 DEF Return
  <2>2. Unstored(c)' = Unstored(c) /\ AskedFor(c)' /\ ret'.tag # "active"
    BY <1>6, <2>1, QuietMoves DEF Quiet, Unstored, AskedFor
  <2> QED BY <1>2, <2>2, NothingGranted DEF Follows, ReportInv
<1>7. CASE \E place, n, i :
             /\ Step(c, place, i)
             /\ i \in {[j EXCEPT !.off = n], [j EXCEPT !.uid = n, !.off = 0],
                       [j EXCEPT !.gid = n, !.off = 0]}
             /\ place \in ConvertPlaces \/ (place = "store_group" /\ j.op \notin UserOps)
  <2>1. PICK place, n, i :
          /\ Step(c, place, i)
          /\ i \in {[j EXCEPT !.off = n], [j EXCEPT !.uid = n, !.off = 0],
                    [j EXCEPT !.gid = n, !.off = 0]}
          /\ place \in ConvertPlaces \/ (place = "store_group" /\ j.op \notin UserOps)
    BY <1>7
  <2>2. i.op = j.op /\ i.item = j.item /\ i.todo = j.todo /\ i.name = j.name
    BY <1>5, <2>1
  <2>3. Unstored(c)' = Unstored(c) /\ AskedFor(c)' /\ ret'.tag # "active"
    BY <1>4, <2>1, <2>2
  <2> QED BY <1>2, <2>3, NothingGranted DEF Follows, ReportInv
<1>8. [j EXCEPT !.off = @ + 1] = [j EXCEPT !.off = j.off + 1]
  OBVIOUS
<1>9. CASE ResolveUid(c)
  <2>1. \/ \E id : Return(c, "exhausted", id)
        \/ Step(c, "resolve_uid", [j EXCEPT !.off = @ + 1])
        \/ \E n : Step(c, "resolve_gid", [j EXCEPT !.uid = n, !.off = 0])
    BY <1>1, <1>9 DEF ResolveUid
  <2> QED BY <1>6, <1>7, <1>8, <2>1 DEF ConvertPlaces
<1>10. CASE ResolveGid(c)
  <2>1. \/ \E id : Return(c, "exhausted", id)
        \/ Step(c, "resolve_gid", [j EXCEPT !.off = @ + 1])
        \/ \E n : Step(c, IF j.op \in UserOps THEN "store_user" ELSE "store_group",
                       [j EXCEPT !.gid = n, !.off = 0])
    BY <1>1, <1>10 DEF ResolveGid
  <2> QED BY <1>6, <1>7, <1>8, <2>1 DEF ConvertPlaces
<1> QED BY <1>9, <1>10
LEMMA StoreUserFollows ==
  ASSUME TypeOK, ReportInv, NEW c \in Clients, StoreUser(c)
  PROVE  Follows(c)' /\ GrantedAsReported'
<1>1. PICK j : j = job[c]
  OBVIOUS
<1>2. PICK row, id : row = UserRow(j) /\ id = j.item.id
  OBVIOUS
<1>3. /\ uid_cache' = store_user(uid_cache, id, row) /\ reported' = reported
      /\ Says(row, j.item) /\ (row.active => j.item.active # "false")
  BY <1>1, <1>2 DEF StoreUser, UserRow, envVars, Says
<1>4. j.op \in UserOps /\ Unstored(c) = {j.item} \cup Rest(j.op, j.todo)
  BY <1>1 DEF StoreUser, TypeOK, ClientsOK, JobFits, ConvertsUser, Unstored, Converting,
              ConvertPlaces
<1>5. /\ LastReports(Unstored(c), reported)
      /\ RowsFollow(uid_cache, reported, Unstored(c))
      /\ AskedFor(c)
  BY DEF ReportInv, Follows
<1>6. id \in DOMAIN reported /\ reported[id] = j.item
  BY <1>2, <1>4, <1>5 DEF LastReports
<1>7. RowsFollow(uid_cache', reported', Rest(j.op, j.todo))
  <2>1. ASSUME NEW i \in DOMAIN uid_cache', i # id
        PROVE  i \in DOMAIN uid_cache /\ uid_cache'[i] = uid_cache[i]
    BY <1>3, <2>1 DEF store_user
  <2>2. uid_cache'[id] = row
    BY <1>3 DEF store_user
  <2>3. ASSUME NEW i \in DOMAIN uid_cache', i # id
        PROVE  /\ i \in DOMAIN reported
               /\ \/ Says(uid_cache'[i], reported[i])
                  \/ \E r \in Rest(j.op, j.todo) : r.id = i
    BY <1>2, <1>4, <1>5, <2>1, <2>3 DEF RowsFollow
  <2> QED BY <1>3, <1>6, <2>2, <2>3 DEF RowsFollow
<1>8. LastReports(Rest(j.op, j.todo), reported')
  BY <1>3, <1>4, <1>5 DEF LastReports
<1>9. CASE j.op = "list_users"
  <2>1. NextItem(c, j.todo)
    BY <1>1, <1>9 DEF StoreUser
  <2>2. Unstored(c)' = Rest(j.op, j.todo) /\ AskedFor(c)' /\ ret'.tag # "active"
    BY <1>1, <1>9, <2>1, NextItemUnstored DEF Rest
  <2> QED BY <1>7, <1>8, <2>2, NothingGranted DEF Follows
<1>10. CASE j.op # "list_users"
  <2>1. \/ Return(c, "found", id)
        \/ Return(c, IF row.active THEN "active" ELSE "inactive", id)
        \/ \E i : Step(c, "resolve_gids", i)
    BY <1>1, <1>2, <1>4, <1>10 DEF StoreUser, UserOps
  <2>2. pc'[c] \notin ConvertPlaces
    BY <2>1, StepPlace DEF ConvertPlaces
  <2>3. Unstored(c)' = Rest(j.op, j.todo) /\ AskedFor(c)'
    BY <1>10, <2>2 DEF Unstored, Converting, Rest, AskedFor
  <2>4. ret'.tag = "active" => row.active /\ ret'.id = id /\ ret'.name = j.name
    BY <1>1, <2>1 DEF Return, Step, NoAnswer
  <2>4a. j.item.user_name = j.name
    BY <1>1, <1>4, <1>5, <1>10 DEF AskedFor, Converting, ConvertPlaces, StoreUser
  <2>5. GrantedAsReported'
    BY <1>3, <1>6, <2>4, <2>4a DEF GrantedAsReported, Granted
  <2> QED BY <1>7, <1>8, <2>3, <2>5 DEF Follows
<1> QED BY <1>9, <1>10

LEMMA ReadUserFollows ==
  ASSUME TypeOK, ReportInv, NEW c \in Clients, ReadUser(c)
  PROVE  Follows(c)' /\ GrantedAsReported'
<1>1. Unstored(c) = {} /\ uid_cache' = uid_cache /\ reported' = reported
  BY DEF ReadUser, Unstored, Converting, ConvertPlaces, envVars, dbVars
<1>2. \/ \E i \in DOMAIN uid_cache :
           \E tag \in {"found", "inactive"} \cup {t \in {"active"} : uid_cache[i].active} :
             Return(c, tag, i)
      \/ \E tag \in {"missing", "inactive"} : Return(c, tag, "none")
  BY DEF ReadUser, get_user_by_uid, get_user_by_name
<1>3. Unstored(c)' = {} /\ AskedFor(c)'
  BY <1>2, StepPlace DEF Unstored, Converting, ConvertPlaces, AskedFor
<1>4. RowsFollow(uid_cache, reported, {}) /\ LastReports({}, reported)
  BY <1>1 DEF ReportInv, Follows
<1>5. ret'.tag = "active" => /\ ret'.id \in DOMAIN uid_cache /\ uid_cache[ret'.id].active
                             /\ uid_cache[ret'.id].login = ret'.name
  BY DEF ReadUser, get_user_by_name, Return
<1>6. ret'.tag = "active" => /\ ret'.id \in DOMAIN reported
                             /\ reported[ret'.id].user_name = ret'.name
                             /\ reported[ret'.id].active # "false"
  BY <1>4, <1>5 DEF RowsFollow, Says
<1> QED BY <1>1, <1>3, <1>4, <1>6 DEF Follows, GrantedAsReported, Granted

(* A quiet step of a client that is not converting users. *)
LEMMA QuietFollows ==
  ASSUME TypeOK, ReportInv, NEW c \in Clients, Start(c) \/ Ask(c) \/ Exit(c) \/ Work(c),
         ~ScimUser(c), ~ScimUserList(c), ~ResolveUid(c), ~ResolveGid(c),
         ~StoreUser(c), ~ReadUser(c), Converting(c) => pc'[c] # "down" /\ ret'.tag # "error"
  PROVE  Follows(c)' /\ GrantedAsReported'
<1>1. Quiet(c)
  BY QuietSteps
<1>2. ~Converting(c)
  BY ConvertingSteps
<1>3. reported' = reported
  <2>1. CASE Exit(c)
    BY <2>1 DEF Exit
  <2>2. CASE Start(c) \/ Ask(c)
    BY <2>2 DEF Start, Ask, CallByName, CallByNum, CallList, TooLong, Begin, envVars
  <2>3. CASE Work(c)
    BY <2>3 DEF Work, PurgeMembers, PurgeGroups, PurgeUsers, ScimGroup, ScimGroupList,
      ScimFailed, ReadGroup, ReadMembers, ReadGroupsForMember, ResolveGids, StoreGroup,
      DeleteMembers, InsertMember, MembersInserted, DbFail, envVars
  <2> QED BY <2>1, <2>2, <2>3
<1>4. /\ DOMAIN uid_cache' \subseteq DOMAIN uid_cache
      /\ \A i \in DOMAIN uid_cache' : uid_cache'[i] = uid_cache[i]
  <2>1. CASE PurgeUsers(c)
    BY <2>1, PurgedType DEF PurgeUsers, TypeOK, DatabaseOK
  <2>2. CASE Start(c) \/ Ask(c) \/ Exit(c)
    BY <2>2 DEF Start, Ask, CallByName, CallByNum, CallList, TooLong, Begin, Exit, dbVars
  <2>3. CASE Work(c) /\ ~PurgeUsers(c)
    BY <2>3 DEF Work, PurgeMembers, PurgeGroups, ScimGroup, ScimGroupList,
      ScimFailed, ReadGroup, ReadMembers, ReadGroupsForMember, ResolveGids, StoreGroup,
      DeleteMembers, InsertMember, MembersInserted, DbFail, dbVars
  <2> QED BY <2>1, <2>2, <2>3
<1>5. RowsFollow(uid_cache, reported, {})
  BY <1>2 DEF ReportInv, Follows, Unstored
<1>6. RowsFollow(uid_cache', reported', {})
  BY <1>3, <1>4, <1>5 DEF RowsFollow
<1>7. Unstored(c)' = {} /\ AskedFor(c)'
  BY <1>1 DEF Quiet, Unstored, AskedFor
<1> QED BY <1>1, <1>6, <1>7, NothingGranted DEF Follows, Quiet, LastReports

(* The directory and the clock. *)
LEMMA OutsideFollows ==
  ASSUME TypeOK, ReportInv, EditUsers \/ EditGroups \/ Tick \/ UNCHANGED vars
  PROVE  ReportInv'
<1>1. UNCHANGED <<clientVars, reported>>
  BY DEF EditUsers, EditGroups, Tick, vars, clientVars, envVars
<1>2. \A c \in Clients : Unstored(c)' = Unstored(c) /\ (AskedFor(c) => AskedFor(c)')
  BY <1>1 DEF clientVars, Unstored, Converting, AskedFor
<1>3. /\ DOMAIN uid_cache' = DOMAIN uid_cache
      /\ \A i \in DOMAIN uid_cache : \A r : Says(uid_cache[i], r) => Says(uid_cache'[i], r)
  <2>1. CASE Tick
    BY <2>1, OlderSays DEF Tick, Aged, TypeOK, DatabaseOK
  <2>2. CASE UNCHANGED uid_cache
    BY <2>2
  <2> QED BY <2>1, <2>2 DEF EditUsers, EditGroups, vars, dbVars
<1>4. \A recs : RowsFollow(uid_cache, reported, recs) => RowsFollow(uid_cache', reported', recs)
  BY <1>1, <1>3 DEF RowsFollow
<1>5. DirectoryConsistent(dir_users', UserName)
  BY DEF EditUsers, EditGroups, Tick, vars, envVars, ReportInv
<1>6. GrantedAsReported'
  <2>1. CASE UNCHANGED vars
    BY <2>1 DEF vars, ReportInv, GrantedAsReported, Granted
  <2>2. CASE ret' = NoAnswer
    BY <2>2, NothingGranted DEF NoAnswer
  <2> QED BY <2>1, <2>2 DEF EditUsers, EditGroups, Tick
<1> QED BY <1>1, <1>2, <1>4, <1>5, <1>6 DEF ReportInv, Follows

LEMMA ReportNext ==
  ASSUME Sole, TypeOK, ReportInv, [Next]_vars, [ReportsKept]_vars PROVE ReportInv'
<1>1. CASE EditUsers \/ EditGroups \/ Tick \/ UNCHANGED vars
  BY <1>1, OutsideFollows
<1>2. ASSUME NEW c \in Clients, Start(c) \/ Ask(c) \/ Work(c) \/ Exit(c), ReportsKept
      PROVE  ReportInv'
  <2>1. Converting(c) => pc'[c] # "down" /\ ret'.tag # "error" /\ ret'.tag # "exhausted"
    BY <1>2 DEF ReportsKept
  <2>2. Follows(c)' /\ GrantedAsReported'
    BY <1>2, <2>1, QuietFollows, ScimUserFollows, ScimUserListFollows, ResolveFollows,
       StoreUserFollows, ReadUserFollows
  <2>3. dir_users' = dir_users
    <3>1. CASE Exit(c)
      BY <3>1 DEF Exit
    <3>2. CASE Start(c) \/ Ask(c)
      BY <3>2 DEF Start, Ask, CallByName, CallByNum, CallList, TooLong, Begin, envVars
    <3>3. CASE Work(c)
      BY <3>3 DEF Work, PurgeMembers, PurgeGroups, PurgeUsers, ScimUser, ScimGroup,
        ScimUserList, ScimGroupList, ScimFailed, ReadUser, ReadGroup, ReadMembers,
        ReadGroupsForMember, ResolveUid, ResolveGid, ResolveGids, StoreUser, StoreGroup,
        DeleteMembers, InsertMember, MembersInserted, DbFail, envVars
    <3> QED BY <1>2, <3>1, <3>2, <3>3
  <2>4. DirectoryConsistent(dir_users', UserName)
    BY <2>3 DEF ReportInv
  <2> QED BY <2>2, <2>4 DEF Sole, ReportInv
<1> QED BY <1>1, <1>2 DEF Next

(* For a process that has the database to itself, and with failing         *)
(* requests, statements and restarts: as long as no report about an account*)
(* is dropped between its arrival and its store, access is granted to a    *)
(* name only through an account that bore this name and was not inactive   *)
(* when it was last reported, whatever becomes of the directory meanwhile. *)
THEOREM SoleGrantedAsReported ==
  ASSUME Sole PROVE Spec /\ [][ReportsKept]_vars => []GrantedAsReported
<1>1. Init => ReportInv
  BY DEF Init, EmptyTable, ReportInv, Follows, Unstored, Converting, ConvertPlaces,
         LastReports, RowsFollow, AskedFor, GrantedAsReported, Granted, NoAnswer
<1>2. TypeOK /\ ReportInv /\ [Next]_vars /\ [ReportsKept]_vars => ReportInv'
  BY ReportNext
<1>3. ReportInv => GrantedAsReported
  BY DEF ReportInv
<1> QED BY <1>1, <1>2, <1>3, ServiceTypeCorrect, PTL DEF Spec
-----------------------------------------------------------------------------
(* The gid range: the same loop, for groups and for the groups of users. *)

GidTaken(t, e, s) == gid_owner_is_other(t, e, s)

(* The first n slots on the probe path of e are held by other groups. *)
GidProbed(t, e, n) == \A p \in 0..(n - 1) : GidTaken(t, e, GidCandidate(e, p))

(* s is the slot at which the probe of e in table t ends. *)
GidFound(t, e, s) ==
  \E off \in 0..(GidSize - 1) :
    s = GidCandidate(e, off) /\ GidProbed(t, e, off) /\ ~GidTaken(t, e, s)

(* The loop invariant of resolve_gid, in both places it is called from,    *)
(* kept up to the store of a group.                                        *)
GidLoopInv(c) ==
  /\ pc[c] = "resolve_gid" => GidProbed(gid_cache, gid_external(job[c].item), job[c].off)
  /\ pc[c] = "store_group" => GidFound(gid_cache, job[c].item.id, job[c].gid)
  /\ pc[c] = "resolve_gids" => GidProbed(gid_cache, job[c].item.groups[job[c].k], job[c].off)

GidProbeInv == \A c \in Clients : GidLoopInv(c)

(* A step that leaves or restarts the loop without giving up. *)
GidAfresh(c) == GidLoopInv(c)' /\ ret'.tag # "exhausted"

LEMMA GidMoves ==
  ASSUME TypeOK, NEW c \in Clients
  PROVE  /\ \A place, j :
              Step(c, place, j) /\ place # "store_group"
                /\ (place \notin {"resolve_gid", "resolve_gids"} \/ j.off = 0)
                => GidAfresh(c)
         /\ \A tag, id : Return(c, tag, id) => GidLoopInv(c)'
         /\ \A tag, id : Return(c, tag, id) /\ tag # "exhausted" => GidAfresh(c)
         /\ \A r, rest : TakeItem(c, r, rest) => GidAfresh(c)
         /\ \A todo : NextItem(c, todo) => GidAfresh(c)
<1>1. pc \in [Clients -> Places] /\ job \in [Clients -> Job]
  BY DEF TypeOK, ClientsOK
<1>2. ASSUME NEW place, NEW j, Step(c, place, j), place # "store_group",
             place \notin {"resolve_gid", "resolve_gids"} \/ j.off = 0
      PROVE  GidAfresh(c)
  <2>1. pc'[c] = place /\ job'[c] = j /\ ret' = NoAnswer
    BY <1>1, <1>2 DEF Step
  <2>2. \A t, e : GidProbed(t, e, 0)
    BY DEF GidProbed
  <2> QED BY <1>2, <2>1, <2>2 DEF GidAfresh, GidLoopInv, NoAnswer
<1>3. ASSUME NEW tag, NEW id, Return(c, tag, id)
      PROVE  GidLoopInv(c)' /\ ret'.tag = tag
  BY <1>1, <1>3 DEF Return, GidLoopInv
<1>4. ASSUME NEW r, NEW rest, TakeItem(c, r, rest) PROVE GidAfresh(c)
  <2> DEFINE j == [job[c] EXCEPT !.item = r, !.todo = rest, !.off = 0]
  <2>1. j.off = 0
    BY <1>1 DEF Job
  <2>2. \E place \in {"resolve_uid", "resolve_gid"} : Step(c, place, j)
    BY <1>4 DEF TakeItem
  <2> HIDE DEF j
  <2> QED BY <1>2, <2>1, <2>2
<1>5. ASSUME NEW todo, NextItem(c, todo) PROVE GidAfresh(c)
  <2>1. Return(c, "listed", "none") => GidAfresh(c)
    BY <1>3 DEF GidAfresh
  <2> QED BY <1>4, <1>5, <2>1 DEF NextItem
<1> QED BY <1>2, <1>3, <1>4, <1>5 DEF GidAfresh

LEMMA GidOtherSteps ==
  ASSUME TypeOK, NEW c \in Clients, Start(c) \/ Ask(c) \/ Exit(c) \/ Work(c),
         ~ResolveUid(c), ~ResolveGid(c), ~ResolveGids(c)
  PROVE  GidAfresh(c)
<1>1. CASE Start(c) \/ PurgeMembers(c) \/ PurgeGroups(c) \/ PurgeUsers(c) \/ Exit(c)
  BY <1>1, GidMoves DEF Start, PurgeMembers, PurgeGroups, PurgeUsers, Exit
<1>2. CASE Ask(c)
  <2>1. ASSUME NEW op, NEW n, TooLong(c, op, n) PROVE GidAfresh(c)
    BY <2>1 DEF TooLong, clientVars, GidAfresh, GidLoopInv
  <2>2. ASSUME NEW op, NEW n, NEW x, Begin(c, op, n, x, "scim") \/ Begin(c, op, n, x, "cache")
        PROVE  GidAfresh(c)
    BY <2>2, GidMoves DEF Begin
  <2> QED BY <1>2, <2>1, <2>2 DEF Ask, CallByName, CallByNum, CallList
<1>3. CASE ScimUser(c)
  <2>1. \/ \E r \in dir_users : TakeItem(c, r, {})
        \/ Step(c, "cache", job[c])
        \/ \E tag \in {"inactive", "gids"} : Return(c, tag, "none")
    BY <1>3 DEF ScimUser, FallBack, UserOps, ListOps
  <2> QED BY <2>1, GidMoves
<1>4. CASE ScimGroup(c) \/ ScimUserList(c) \/ ScimGroupList(c)
  BY <1>4, GidMoves DEF ScimGroup, ScimUserList, ScimGroupList, FallBack
<1>5. CASE ScimFailed(c)
  BY <1>5, GidMoves DEF ScimFailed, FallBack
<1>6. CASE ReadUser(c)
  <2>1. \E tag \in {"found", "active", "inactive", "missing"} : \E id : Return(c, tag, id)
    BY <1>6 DEF ReadUser
  <2> QED BY <2>1, GidMoves
<1>7. CASE ReadMembers(c) \/ ReadGroupsForMember(c)
  BY <1>7, GidMoves DEF ReadMembers, ReadGroupsForMember
<1>8. CASE ReadGroup(c)
  <2>1. (\E j : Step(c, "read_members", j)) \/ Return(c, "missing", "none")
    BY <1>8 DEF ReadGroup
  <2> QED BY <2>1, GidMoves
<1>9. CASE StoreUser(c)
  <2>1. PICK j \in Job : j = job[c]
    BY DEF TypeOK, ClientsOK
  <2>2. j.op \in UserOps
    BY <1>9, <2>1 DEF StoreUser, TypeOK, ClientsOK, JobFits, ConvertsUser
  <2> DEFINE i == [j EXCEPT !.k = 1, !.off = 0]
  <2>3. i.off = 0
    BY DEF Job
  <2>4. \/ \E tag \in {"found", "active", "inactive"} : \E id : Return(c, tag, id)
        \/ Step(c, "resolve_gids", i)
        \/ NextItem(c, j.todo)
    BY <1>9, <2>1, <2>2 DEF StoreUser, UserOps
  <2> HIDE DEF i
  <2> QED BY <2>3, <2>4, GidMoves
<1>10. CASE StoreGroup(c) \/ DeleteMembers(c) \/ InsertMember(c)
  BY <1>10, GidMoves DEF StoreGroup, DeleteMembers, InsertMember
<1>11. CASE MembersInserted(c)
  BY <1>11, GidMoves DEF MembersInserted
<1>12. CASE DbFail(c)
  BY <1>12, GidMoves DEF DbFail
<1> QED BY <1>1, <1>2, <1>3, <1>4, <1>5, <1>6, <1>7, <1>8, <1>9, <1>10, <1>11, <1>12 DEF Work

(* One more slot of the probe path is taken. *)
LEMMA GidProbedOn ==
  ASSUME NEW t, NEW e, NEW n \in Nat, GidProbed(t, e, n), GidTaken(t, e, GidCandidate(e, n))
  PROVE  GidProbed(t, e, n + 1)
  BY DEF GidProbed

LEMMA GidResolveSteps ==
  ASSUME TypeOK, TypeOK', GidProbeInv, NEW c \in Clients,
         ResolveUid(c) \/ ResolveGid(c) \/ ResolveGids(c)
  PROVE  GidLoopInv(c)'
<1>1. PICK j \in Job : j = job[c]
  BY DEF TypeOK, ClientsOK
<1>2. gid_cache' = gid_cache /\ j.off \in Nat
  BY DEF ResolveUid, ResolveGid, ResolveGids, dbVars, Job
<1>3. CASE ResolveUid(c)
  <2>1. ASSUME NEW n PROVE [j EXCEPT !.uid = n, !.off = 0].off = 0
    BY DEF Job
  <2>2. \/ \E id : Return(c, "exhausted", id)
        \/ \E i : Step(c, "resolve_uid", i)
        \/ \E n : Step(c, "resolve_gid", [j EXCEPT !.uid = n, !.off = 0])
    BY <1>1, <1>3 DEF ResolveUid
  <2> QED BY <2>1, <2>2, GidMoves DEF GidAfresh
<1>4. CASE ResolveGid(c)
  <2> DEFINE e == gid_external(j.item)
             i == [j EXCEPT !.off = @ + 1]
  <2>1. \/ \E id : Return(c, "exhausted", id)
        \/ GidTaken(gid_cache, e, GidCandidate(e, j.off)) /\ Step(c, "resolve_gid", i)
        \/ \E k : Step(c, "store_user", k)
        \/ /\ j.off # GidSize /\ ~GidTaken(gid_cache, e, GidCandidate(e, j.off))
           /\ Step(c, "store_group", [j EXCEPT !.gid = GidCandidate(e, j.off), !.off = 0])
    BY <1>1, <1>4 DEF ResolveGid, GidTaken
  <2>2. i.off = j.off + 1 /\ i.item = j.item
    BY DEF Job
  <2>3. GidProbed(gid_cache, e, j.off)
    BY <1>1, <1>4 DEF ResolveGid, GidProbeInv, GidLoopInv
  <2> HIDE DEF i
  <2>4. ASSUME GidTaken(gid_cache, e, GidCandidate(e, j.off)), Step(c, "resolve_gid", i)
        PROVE  GidLoopInv(c)'
    <3>1. GidProbed(gid_cache, e, j.off + 1)
      BY <1>2, <2>3, <2>4, GidProbedOn
    <3>2. pc'[c] = "resolve_gid" /\ job'[c] = i
      BY <2>4 DEF Step, TypeOK, ClientsOK
    <3> QED BY <1>2, <2>2, <3>1, <3>2 DEF GidLoopInv
  <2>5. ASSUME j.off # GidSize, ~GidTaken(gid_cache, e, GidCandidate(e, j.off)),
               Step(c, "store_group", [j EXCEPT !.gid = GidCandidate(e, j.off), !.off = 0])
        PROVE  GidLoopInv(c)'
    <3> DEFINE next == [j EXCEPT !.gid = GidCandidate(e, j.off), !.off = 0]
    <3>1. next.gid = GidCandidate(e, j.off) /\ next.item = j.item
      BY DEF Job
    <3>2. pc'[c] = "store_group" /\ job'[c] = next
      BY <2>5 DEF Step, TypeOK, ClientsOK
    <3> HIDE DEF next
    <3>3. j.item \in GroupRecs
      BY <3>1, <3>2 DEF TypeOK, ClientsOK, JobFits, ConvertsGroup
    <3>4. e = j.item.id
      BY <3>3, ResourceFields DEF gid_external
    <3>5. j.off \in 0..(GidSize - 1)
      BY <1>1, <1>4, <2>5, RangesFit DEF ResolveGid, TypeOK, ClientsOK, JobFits
    <3> HIDE DEF e
    <3>6. GidFound(gid_cache, e, GidCandidate(e, j.off))
      BY <2>3, <2>5, <3>5 DEF GidFound
    <3> QED BY <1>2, <3>1, <3>2, <3>4, <3>6 DEF GidLoopInv
  <2> QED BY <2>1, <2>4, <2>5, GidMoves DEF GidAfresh
<1>5. CASE ResolveGids(c)
  <2> DEFINE e == j.item.groups[j.k]
             i == [j EXCEPT !.off = @ + 1]
             i2 == [j EXCEPT !.k = @ + 1, !.off = 0]
  <2>1. \/ \E tag, id : Return(c, tag, id)
        \/ GidTaken(gid_cache, e, GidCandidate(e, j.off)) /\ Step(c, "resolve_gids", i)
        \/ Step(c, "resolve_gids", i2)
    BY <1>1, <1>5 DEF ResolveGids, GidTaken
  <2>2. i.off = j.off + 1 /\ i.item = j.item /\ i.k = j.k /\ i2.off = 0
    BY DEF Job
  <2>3. GidProbed(gid_cache, e, j.off)
    BY <1>1, <1>5 DEF ResolveGids, GidProbeInv, GidLoopInv
  <2> HIDE DEF i, i2
  <2>4. ASSUME GidTaken(gid_cache, e, GidCandidate(e, j.off)), Step(c, "resolve_gids", i)
        PROVE  GidLoopInv(c)'
    <3>1. GidProbed(gid_cache, e, j.off + 1)
      BY <1>2, <2>3, <2>4, GidProbedOn
    <3>2. pc'[c] = "resolve_gids" /\ job'[c] = i
      BY <2>4 DEF Step, TypeOK, ClientsOK
    <3> QED BY <1>2, <2>2, <3>1, <3>2 DEF GidLoopInv
  <2> QED BY <2>1, <2>2, <2>4, GidMoves DEF GidAfresh
<1> QED BY <1>3, <1>4, <1>5

LEMMA GidProbeNext ==
  ASSUME Sole, TypeOK, TypeOK', GidProbeInv, [Next]_vars PROVE GidProbeInv'
<1>1. CASE EditUsers \/ EditGroups \/ Tick \/ UNCHANGED vars
  <2>1. UNCHANGED clientVars
    BY <1>1 DEF EditUsers, EditGroups, Tick, vars, clientVars
  <2>2. /\ DOMAIN gid_cache' = DOMAIN gid_cache
        /\ \A i \in DOMAIN gid_cache : gid_cache'[i].gid = gid_cache[i].gid
    <3>1. CASE Tick
      BY <3>1, OlderRow DEF Tick, Aged, TypeOK, DatabaseOK
    <3>2. CASE UNCHANGED gid_cache
      BY <3>2
    <3> QED BY <1>1, <3>1, <3>2 DEF EditUsers, EditGroups, vars, dbVars
  <2>3. \A e, s : GidTaken(gid_cache', e, s) <=> GidTaken(gid_cache, e, s)
    BY <2>2 DEF GidTaken, gid_owner_is_other
  <2>4. \A e, n : GidProbed(gid_cache, e, n) => GidProbed(gid_cache', e, n)
    BY <2>3 DEF GidProbed
  <2>5. \A e, s : GidFound(gid_cache, e, s) => GidFound(gid_cache', e, s)
    BY <2>3, <2>4 DEF GidFound
  <2> QED BY <2>1, <2>4, <2>5 DEF GidProbeInv, GidLoopInv, clientVars
<1>2. ASSUME NEW c \in Clients, Start(c) \/ Ask(c) \/ Work(c) \/ Exit(c) PROVE GidLoopInv(c)'
  BY <1>2, GidOtherSteps, GidResolveSteps DEF GidAfresh
<1> QED BY <1>1, <1>2 DEF Next, Sole, GidProbeInv

LEMMA GidProbeAlways == ASSUME Sole PROVE Spec => []GidProbeInv
<1>1. Init => GidProbeInv
  BY DEF Init, GidProbeInv, GidLoopInv
<1>2. TypeOK /\ TypeOK' /\ GidProbeInv /\ [Next]_vars => GidProbeInv'
  BY GidProbeNext
<1> QED BY <1>1, <1>2, ServiceTypeCorrect, PTL DEF Spec

-----------------------------------------------------------------------------
(* The probe chain of the groups. *)

GidChain(t) == \A g \in DOMAIN t : \E off \in 0..(GidSize - 1) :
                 t[g].gid = GidCandidate(g, off) /\ GidProbed(t, g, off)

LEMMA GidChainIsProbeChain == GidProbeChain <=> GidChain(gid_cache)
  BY DEF GidProbeChain, GidChain, GidProbed, GidTaken, gid_owner_is_other

(* With the chain intact, the probe of a cached group ends at its own slot.*)
LEMMA GidFoundIsCached ==
  ASSUME TypeOK, UniqueGids, GidProbeChain, NEW g \in DOMAIN gid_cache, NEW s,
         GidFound(gid_cache, g, s)
  PROVE  s = gid_cache[g].gid
<1>1. PICK new \in 0..(GidSize - 1) :
        s = GidCandidate(g, new) /\ GidProbed(gid_cache, g, new) /\ ~GidTaken(gid_cache, g, s)
  BY DEF GidFound
<1>2. PICK old \in 0..(GidSize - 1) :
        gid_cache[g].gid = GidCandidate(g, old) /\ GidProbed(gid_cache, g, old)
  BY GidChainIsProbeChain DEF GidChain
<1>3. ~GidTaken(gid_cache, g, gid_cache[g].gid)
  BY DEF UniqueGids, GidTaken, gid_owner_is_other
<1>4. GidSize \in Nat
  BY RangesFit
<1>5. ~(old < new)
  BY <1>1, <1>2, <1>3, <1>4 DEF GidProbed
<1>6. ~(new < old)
  BY <1>1, <1>2, <1>4 DEF GidProbed
<1> QED BY <1>1, <1>2, <1>4, <1>5, <1>6

(* A step that neither stores nor purges groups leaves every gid in place. *)
LEMMA GidsUnchanged ==
  ASSUME TypeOK, [Next]_vars, \A c \in Clients : ~StoreGroup(c) /\ ~PurgeGroups(c)
  PROVE  /\ DOMAIN gid_cache' = DOMAIN gid_cache
         /\ \A i \in DOMAIN gid_cache : gid_cache'[i].gid = gid_cache[i].gid
<1>1. CASE Tick
  BY <1>1, OlderRow DEF Tick, Aged, TypeOK, DatabaseOK
<1>2. CASE UNCHANGED gid_cache
  BY <1>2
<1>3. ASSUME NEW c \in Clients,
             PurgeMembers(c) \/ PurgeUsers(c) \/ StoreUser(c) \/ DeleteMembers(c)
               \/ InsertMember(c)
      PROVE  UNCHANGED gid_cache
  BY <1>3 DEF PurgeMembers, PurgeUsers, StoreUser, DeleteMembers, InsertMember
<1>4. UNCHANGED dbVars => UNCHANGED gid_cache
  BY DEF dbVars
<1> QED BY <1>1, <1>2, <1>3, <1>4, DatabaseUnchanged

(* Rows that keep their gids keep the chain. *)
LEMMA GidChainGrows ==
  ASSUME NEW t, NEW n, GidChain(t), DOMAIN t \subseteq DOMAIN n,
         \A i \in DOMAIN t : n[i].gid = t[i].gid,
         \A i \in DOMAIN n \ DOMAIN t : GidFound(t, i, n[i].gid)
  PROVE  GidChain(n)
<1>1. \A g, s : GidTaken(t, g, s) => GidTaken(n, g, s)
  BY DEF GidTaken, gid_owner_is_other
<1>2. \A g, m : GidProbed(t, g, m) => GidProbed(n, g, m)
  BY <1>1 DEF GidProbed
<1>3. ASSUME NEW g \in DOMAIN n
      PROVE  \E off \in 0..(GidSize - 1) : n[g].gid = GidCandidate(g, off) /\ GidProbed(n, g, off)
  <2>1. CASE g \in DOMAIN t
    BY <1>2, <2>1 DEF GidChain
  <2>2. CASE g \notin DOMAIN t
    BY <1>2, <2>2 DEF GidFound
  <2> QED BY <2>1, <2>2
<1> QED BY <1>3 DEF GidChain

LEMMA GidChainNext ==
  ASSUME Sole, TypeOK, UniqueGids, GidProbeInv, PurgeInv, GidProbeChain, [Next]_vars
  PROVE  GidProbeChain'
<1>0. GidChain(gid_cache)
  BY GidChainIsProbeChain
<1> SUFFICES GidChain(gid_cache')
  BY DEF GidProbeChain, GidChain, GidProbed, GidTaken, gid_owner_is_other
<1>1. ASSUME NEW c \in Clients, StoreGroup(c) PROVE GidChain(gid_cache')
  <2> DEFINE g == job[c].item.id
             s == job[c].gid
             row == GroupRow(job[c])
  <2>1. row.gid = s /\ gid_cache' = store_group_row(gid_cache, g, row)
    BY <1>1 DEF StoreGroup, GroupRow
  <2>2. GidFound(gid_cache, g, s)
    BY <1>1 DEF StoreGroup, GidProbeInv, GidLoopInv
  <2>3. ~GidTaken(gid_cache, g, row.gid)
    BY <2>1, <2>2 DEF GidFound
  <2> HIDE DEF g, s, row
  <2>4. /\ DOMAIN gid_cache' = DOMAIN gid_cache \cup {g}
        /\ gid_cache'[g] = row
        /\ \A i \in DOMAIN gid_cache : i # g => gid_cache'[i] = gid_cache[i]
    <3>1. (DOMAIN gid_cache \ GroupsReplaced(gid_cache, g, row)) \cup {g} = DOMAIN gid_cache \cup {g}
      BY <2>3 DEF GroupsReplaced, GidTaken, gid_owner_is_other
    <3> QED BY <2>1, <3>1 DEF store_group_row
  <2>5. g \in DOMAIN gid_cache => s = gid_cache[g].gid
    BY <2>2, GidFoundIsCached
  <2>6. \A i \in DOMAIN gid_cache : gid_cache'[i].gid = gid_cache[i].gid
    BY <2>1, <2>4, <2>5
  <2>7. \A i \in DOMAIN gid_cache' \ DOMAIN gid_cache : GidFound(gid_cache, i, gid_cache'[i].gid)
    BY <2>1, <2>2, <2>4
  <2> QED BY <1>0, <2>4, <2>6, <2>7, GidChainGrows
<1>2. ASSUME NEW c \in Clients, PurgeGroups(c) PROVE GidChain(gid_cache')
  <2>1. DOMAIN gid_cache' = {}
    BY <1>2, PurgedType DEF PurgeGroups, PurgeInv, Starting, TablesEmpty, TypeOK, DatabaseOK
  <2> QED BY <2>1 DEF GidChain
<1>3. CASE \A c \in Clients : ~StoreGroup(c) /\ ~PurgeGroups(c)
  <2>1. /\ DOMAIN gid_cache' = DOMAIN gid_cache
        /\ \A i \in DOMAIN gid_cache : gid_cache'[i].gid = gid_cache[i].gid
    BY <1>3, GidsUnchanged
  <2> QED BY <1>0, <2>1, GidChainGrows
<1> QED BY <1>1, <1>2, <1>3

(* In one life of a process that has the database to itself the slots      *)
(* between a group and its home are always taken, and so a cached group is *)
(* always stored again under its cached gid, also after it expired.        *)
THEOREM SoleGroupsStableUntilRestart ==
  ASSUME Sole PROVE Spec => []GroupsStableUntilRestart
<1> DEFINE Intact == restarts = 0 => GidProbeChain
<1>1. Init => Intact
  BY DEF Init, EmptyTable, GidProbeChain
<1>2. TypeOK /\ UniqueGids /\ GidProbeInv /\ FirstLife /\ Intact /\ [Next]_vars => Intact'
  BY GidChainNext, NoRestartBefore DEF FirstLife
<1>3. TypeOK /\ UniqueGids /\ GidProbeInv /\ GidProbeChain => CachedGidReturned
  BY GidFoundIsCached DEF GidProbeInv, GidLoopInv, CachedGidReturned
<1>4. TypeOK /\ UniqueGids /\ GidProbeInv /\ Intact => GroupsStableUntilRestart
  BY <1>3 DEF GroupsStableUntilRestart
<1> QED BY <1>1, <1>2, <1>4, FirstLifeAlways, ServiceTypeCorrect, UniqueAlways,
           GidProbeAlways, PTL DEF Spec

-----------------------------------------------------------------------------
(* A range with more slots than identifiers is never exhausted. *)

(* As many holders as slots. *)
LEMMA FullNeedsMany ==
  ASSUME NEW lo \in Nat, NEW size \in Nat, NEW H, IsFiniteSet(H), NEW h,
         \A s \in lo..(lo + size - 1) : \E i \in H : h[i] = s
  PROVE  size <= Cardinality(H)
<1> DEFINE S == lo..(lo + size - 1)
           f == [s \in S |-> CHOOSE i \in H : h[i] = s]
<1>1. IsFiniteSet(S) /\ Cardinality(S) = size
  BY FS_Interval
<1>2. Cardinality(H) \in Nat
  BY FS_CardinalityType
<1>3. f \in [S -> H] /\ \A s \in S : h[f[s]] = s
  OBVIOUS
<1> HIDE DEF S, f
<1>4. ~(Cardinality(H) < Cardinality(S))
  BY <1>1, <1>3, FS_PigeonHole
<1> QED BY <1>1, <1>2, <1>4

(* More slots than identifiers: a user probes the uid range in competition *)
(* with the other users, anybody the gid range with the groups.            *)
RoomForAll ==
  /\ IsFiniteSet(UserIds) /\ Cardinality(UserIds) <= UidSize
  /\ IsFiniteSet(GroupIds) /\ Cardinality(GroupIds) < GidSize

LEMMA UidsNotFull ==
  ASSUME TypeOK, RoomForAll, NEW u \in UserIds, Probed(uid_cache, u, UidSize)
  PROVE  FALSE
<1> DEFINE h == [i \in DOMAIN uid_cache |-> uid_cache[i].uid]
           H == DOMAIN uid_cache \ {u}
<1>1. FitsWord(UidMin, UidSize) /\ Hash[u] \in Nat /\ UidMin \in Nat /\ UidSize \in Nat
  BY RangesFit, DirectoryAssumption DEF FitsWord
<1>2. IsFiniteSet(UserIds \ {u}) /\ Cardinality(UserIds \ {u}) = Cardinality(UserIds) - 1
      /\ Cardinality(UserIds) \in Nat
  BY FS_RemoveElement, FS_CardinalityType DEF RoomForAll
<1>3. H \in SUBSET (UserIds \ {u})
  BY DEF TypeOK, DatabaseOK
<1>4. IsFiniteSet(H) /\ Cardinality(H) <= Cardinality(UserIds \ {u}) /\ Cardinality(H) \in Nat
  <2> HIDE DEF H
  <2> QED BY <1>2, <1>3, FS_Subset, FS_CardinalityType
<1>5. ASSUME NEW s \in UidMin..(UidMin + UidSize - 1) PROVE \E i \in H : h[i] = s
  <2>1. PICK off \in 0..(UidSize - 1) : UidCandidate(u, off) = s
    BY <1>1, ProbeVisitsEverySlot DEF UidCandidate
  <2> QED BY <2>1 DEF Probed, Taken, uid_owner_is_other
<1> HIDE DEF h, H
<1>6. UidSize <= Cardinality(H)
  BY <1>1, <1>4, <1>5, FullNeedsMany
<1> QED BY <1>1, <1>2, <1>4, <1>6 DEF RoomForAll

LEMMA GidsNotFull ==
  ASSUME TypeOK, RoomForAll, NEW e \in UserIds \cup GroupIds, GidProbed(gid_cache, e, GidSize)
  PROVE  FALSE
<1> DEFINE h == [i \in DOMAIN gid_cache |-> gid_cache[i].gid]
           H == DOMAIN gid_cache
<1>1. FitsWord(GidMin, GidSize) /\ Hash[e] \in Nat /\ GidMin \in Nat /\ GidSize \in Nat
  BY RangesFit, DirectoryAssumption DEF FitsWord
<1>2. H \in SUBSET GroupIds
  BY DEF TypeOK, DatabaseOK
<1>3. /\ IsFiniteSet(H) /\ Cardinality(H) <= Cardinality(GroupIds)
      /\ Cardinality(H) \in Nat /\ Cardinality(GroupIds) \in Nat
  <2> HIDE DEF H
  <2> QED BY <1>2, FS_Subset, FS_CardinalityType DEF RoomForAll
<1>4. ASSUME NEW s \in GidMin..(GidMin + GidSize - 1) PROVE \E i \in H : h[i] = s
  <2>1. PICK off \in 0..(GidSize - 1) : GidCandidate(e, off) = s
    BY <1>1, ProbeVisitsEverySlot DEF GidCandidate
  <2> QED BY <2>1 DEF GidProbed, GidTaken, gid_owner_is_other
<1> HIDE DEF h, H
<1>5. GidSize <= Cardinality(H)
  BY <1>1, <1>3, <1>4, FullNeedsMany
<1> QED BY <1>1, <1>3, <1>5 DEF RoomForAll

(* No call was given up because a range is exhausted. *)
NeverExhausted == ret.tag # "exhausted"

LEMMA NotExhaustedNext ==
  ASSUME Sole, RoomForAll, TypeOK, ProbeInv, GidProbeInv, NeverExhausted, [Next]_vars
  PROVE  NeverExhausted'
<1>1. CASE EditUsers \/ EditGroups \/ Tick \/ UNCHANGED vars
  BY <1>1 DEF EditUsers, EditGroups, Tick, vars, NeverExhausted, NoAnswer
<1>2. ASSUME NEW c \in Clients, Start(c) \/ Ask(c) \/ Work(c) \/ Exit(c) PROVE NeverExhausted'
  <2>1. PICK j \in Job : j = job[c]
    BY DEF TypeOK, ClientsOK
  <2>2. ASSUME NEW place, NEW i, Step(c, place, i) PROVE NeverExhausted'
    BY <2>2 DEF Step, NoAnswer, NeverExhausted
  <2>3. CASE ResolveUid(c)
    <3>1. j.item.id \in UserIds /\ Probed(uid_cache, j.item.id, j.off)
      BY <2>1, <2>3, ResourceFields
         DEF ResolveUid, TypeOK, ClientsOK, JobFits, ConvertsUser, ProbeInv, LoopInv
    <3>2. j.off # UidSize
      BY <3>1, UidsNotFull
    <3>3. \E place, i : Step(c, place, i)
      BY <2>1, <2>3, <3>2 DEF ResolveUid
    <3> QED BY <2>2, <3>3
  <2>4. CASE ResolveGid(c)
    <3>1. j.item \in UserRecs \cup GroupRecs /\ GidProbed(gid_cache, gid_external(j.item), j.off)
      BY <2>1, <2>4 DEF ResolveGid, TypeOK, ClientsOK, JobFits, ConvertsUser, ConvertsGroup,
                        GidProbeInv, GidLoopInv
    <3>2. gid_external(j.item) \in UserIds \cup GroupIds
      BY <3>1, ResourceFields
    <3>3. j.off # GidSize
      BY <3>1, <3>2, GidsNotFull
    <3>4. \E place, i : Step(c, place, i)
      BY <2>1, <2>4, <3>3 DEF ResolveGid
    <3> QED BY <2>2, <3>4
  <2>5. CASE ResolveGids(c)
    <3>1. /\ j.item \in UserRecs /\ j.k \in Nat \ {0}
          /\ GidProbed(gid_cache, j.item.groups[j.k], j.off)
      BY <2>1, <2>5 DEF ResolveGids, TypeOK, ClientsOK, JobFits, ConvertsUser,
                        GidProbeInv, GidLoopInv
    <3>2. CASE j.k > Len(j.item.groups)
      BY <2>1, <2>5, <3>2 DEF ResolveGids, Return, NeverExhausted
    <3>3. CASE ~(j.k > Len(j.item.groups))
      <4>1. j.item.groups \in Seq(GroupIds)
        BY <3>1, ResourceFields
      <4>2. j.k \in 1..Len(j.item.groups)
        BY <3>1, <3>3, <4>1
      <4>3. j.item.groups[j.k] \in UserIds \cup GroupIds
        BY <4>1, <4>2
      <4>4. j.off # GidSize
        BY <3>1, <4>3, GidsNotFull
      <4>5. \E place, i : Step(c, place, i)
        BY <2>1, <2>5, <3>3, <4>4 DEF ResolveGids
      <4> QED BY <2>2, <4>5
    <3> QED BY <3>2, <3>3
  <2>6. CASE ~ResolveUid(c) /\ ~ResolveGid(c) /\ ~ResolveGids(c)
    BY <1>2, <2>6, GidOtherSteps DEF GidAfresh, NeverExhausted
  <2> QED BY <2>3, <2>4, <2>5, <2>6
<1> QED BY <1>1, <1>2 DEF Next

(* With more slots than identifiers a process that has the database to     *)
(* itself always finds a uid and a gid, however the table was filled: the  *)
(* loop looks at every slot before it gives up.                            *)
THEOREM SoleNeverExhausted == ASSUME Sole, RoomForAll PROVE Spec => []NeverExhausted
<1>1. Init => NeverExhausted
  BY DEF Init, NeverExhausted, NoAnswer
<1>2. TypeOK /\ ProbeInv /\ GidProbeInv /\ NeverExhausted /\ [Next]_vars => NeverExhausted'
  BY NotExhaustedNext
<1> QED BY <1>1, <1>2, ServiceTypeCorrect, ProbeAlways, GidProbeAlways, PTL DEF Spec

(* Without failing statements, restarts and full ranges the conversion of  *)
(* a user is never broken off.                                             *)
LEMMA KeptWithoutFailures ==
  ASSUME Sole, TypeOK, TypeOK', NeverExhausted', ~DbFails, MaxRestarts = 0, [Next]_vars
  PROVE  [ReportsKept]_vars
<1> SUFFICES ASSUME NEW c \in Clients, Converting(c), ~UNCHANGED vars
             PROVE  pc'[c] # "down" /\ ret'.tag \notin {"error", "exhausted"}
  BY DEF ReportsKept
<1>1. CASE EditUsers \/ EditGroups \/ Tick
  BY <1>1 DEF EditUsers, EditGroups, Tick, clientVars, NoAnswer, Converting, ConvertPlaces
<1>2. CASE Start(c) \/ Ask(c) \/ Work(c) \/ Exit(c)
  <2>1. ~DbFail(c) /\ ~Exit(c)
    BY DEF DbFail, Exit, TypeOK, DirectoryOK
  <2>2. ResolveUid(c) \/ ResolveGid(c) \/ StoreUser(c)
    BY <1>2, <2>1, ConvertsOrFails
  <2>3. ASSUME NEW place, NEW i, Step(c, place, i), place # "down"
        PROVE  pc'[c] # "down" /\ ret'.tag # "error"
    BY <2>3 DEF Step, NoAnswer, TypeOK, ClientsOK
  <2>4. ASSUME NEW tag, NEW id, Return(c, tag, id), tag # "error"
        PROVE  pc'[c] # "down" /\ ret'.tag # "error"
    BY <2>4 DEF Return, TypeOK, ClientsOK
  <2>5. ASSUME NEW todo, NextItem(c, todo) PROVE pc'[c] # "down" /\ ret'.tag # "error"
    BY <2>3, <2>4, <2>5 DEF NextItem, TakeItem
  <2>6. CASE ResolveUid(c) \/ ResolveGid(c)
    BY <2>3, <2>4, <2>6 DEF ResolveUid, ResolveGid, NeverExhausted
  <2>7. CASE StoreUser(c)
    <3>1. job[c].op \in UserOps
      BY <2>7 DEF StoreUser, TypeOK, ClientsOK, JobFits, ConvertsUser
    <3>2. \/ \E tag \in {"found", "active", "inactive"} : Return(c, tag, job[c].item.id)
          \/ \E j : Step(c, "resolve_gids", j)
          \/ NextItem(c, job[c].todo)
      BY <2>7, <3>1 DEF StoreUser, UserOps
    <3> QED BY <2>3, <2>4, <2>5, <3>2 DEF NeverExhausted
  <2>8. ret'.tag # "exhausted"
    BY DEF NeverExhausted
  <2> QED BY <2>2, <2>6, <2>7, <2>8
<1> QED BY <1>1, <1>2 DEF Next, Sole

(* Without failing statements, restarts and full ranges nothing is ever    *)
(* dropped, so a process that has the database to itself grants access     *)
(* only through accounts that the last report called active and by that    *)
(* name: what run one_process checks, for every directory, hash, range,    *)
(* TTL and policy.                                                         *)
THEOREM SoleGrantedAsReportedUnlessFailing ==
  ASSUME Sole, RoomForAll, ~DbFails, MaxRestarts = 0 PROVE Spec => []GrantedAsReported
<1>1. TypeOK /\ TypeOK' /\ NeverExhausted' /\ [Next]_vars => [ReportsKept]_vars
  BY KeptWithoutFailures
<1> QED BY <1>1, ServiceTypeCorrect, SoleNeverExhausted, SoleGrantedAsReported, PTL DEF Spec
=============================================================================
