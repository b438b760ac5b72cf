-------------------------------- MODULE Nss --------------------------------
(***************************************************************************)
(* The NSS module of src/crates/nss_oidc in one process with several       *)
(* threads: the once-only state, the mutex around the service, the two     *)
(* enumerations, the lookups and initgroups_dyn.                           *)
(*                                                                         *)
(* The service is known by its answers only, which module Service is       *)
(* about, and a list by what paginate_list may return, which module        *)
(* Pagination is about.  A step of a thread ends where it waits: for a     *)
(* list, for the mutex or for the service.  A poisoned mutex cannot be     *)
(* met: a panic does not leave an extern "C" function alive.               *)
(***************************************************************************)
EXTENDS NssBuffer, Startup

CONSTANTS
  Threads,
  Entries,    \* users and groups
  Strings,    \* the lengths of the strings of each entry, per database
  Lists,      \* what list_users and list_groups may return
  BufLens,    \* buffer sizes of the callers
  Gids, Primary,  \* group ids, and the one the caller of initgroups passes
  GidLists,   \* what lookup_groups_for_user may return
  Sizes,      \* array sizes of the callers of initgroups
  Hosts,      \* what the process may find when it starts
  Workloads   \* which functions each thread calls

Nobody == "nobody"
Dbs == {"passwd", "group"}
EnumFns == {"setent", "getent", "endent"}
NssFunctions == {<<fn, d>> : fn \in EnumFns \cup {"lookup"}, d \in Dbs}
                \cup {<<"initgroups", "group">>}

ASSUME NssAssumption ==
  /\ Nobody \notin Threads \cup Entries
  /\ Primary \in Gids
  /\ Lists \subseteq Seq(Entries) /\ GidLists \subseteq Seq(Gids)
  /\ BufLens \subseteq Nat /\ Sizes \subseteq Nat \ {0}
  /\ Workloads \subseteq [Threads -> SUBSET NssFunctions]
  /\ Hosts \subseteq HostRecs

ASSUME StringsAssumption ==
  /\ Strings["passwd"] \in [Entries -> [name : Nat, gecos : Nat, home : Nat, shell : Nat]]
  /\ Strings["group"] \in [Entries -> [name : Nat, members : Seq(Nat)]]

VARIABLES
  uses,      \* the workload of this behaviour
  host,      \* the files, and the user the process runs as
  STATE_,    \* the OnceLock
  svc,       \* who holds the service mutex
  ENUM,      \* USER_ENUM and GROUP_ENUM
  at, call,  \* where each thread is, and in which function
  work,      \* of a set*ent in progress: entries still to convert, and converted
  array,     \* of the last initgroups of each thread: the caller's array, and the answer
  returned,  \* what the last step returned, if it returned
  fetched,   \* history: what the last successful set*ent converted
  given      \* history: the entries get*ent_r has given out since then

threadVars == <<at, call>>
vars == <<uses, host, STATE_, svc, ENUM, at, call, work, array, returned, fetched, given>>

NoEnum == [some |-> FALSE, list |-> <<>>, idx |-> 0]
NoCall == [fn |-> "none", db |-> "none", buflen |-> 0]
NoWork == [todo |-> <<>>, done |-> <<>>]
NoArray == [gids |-> <<>>, size |-> 0, answer |-> <<>>, todo |-> <<>>, full |-> FALSE]
NoReturn == [fn |-> "none", db |-> "none", status |-> "none", entry |-> Nobody,
             buflen |-> 0, thread |-> Nobody]

Init ==
  /\ uses \in Workloads /\ host \in Hosts
  /\ STATE_ = "unset" /\ svc = Nobody
  /\ ENUM = [d \in Dbs |-> NoEnum]
  /\ at = [t \in Threads |-> "idle"] /\ call = [t \in Threads |-> NoCall]
  /\ work = [t \in Threads |-> NoWork] /\ array = [t \in Threads |-> NoArray]
  /\ returned = NoReturn
  /\ fetched = [d \in Dbs |-> <<>>] /\ given = [d \in Dbs |-> <<>>]

-----------------------------------------------------------------------------

(* get_or_init: the first caller initialises, and the outcome is kept. *)
get_state ==
  IF STATE_ = "unset"
    THEN \E o \in Outcomes(host) :
           STATE_' = o.state /\ host' = [host EXCEPT !.cache = o.cache]
    ELSE UNCHANGED <<STATE_, host>>

(* Thread t may call function fn of database d.  The C library holds a     *)
(* lock of its own for each database around set*ent, get*ent_r and         *)
(* end*ent, so that these do not overlap.                                  *)
MayCall(t, fn, d) ==
  /\ at[t] = "idle" /\ <<fn, d>> \in uses[t]
  /\ fn \in EnumFns => \A u \in Threads : call[u].fn \in EnumFns => call[u].db # d

GoOn(t, place) ==
  /\ at' = [at EXCEPT ![t] = place]
  /\ returned' = NoReturn

Return(t, c, status, e) ==
  /\ at' = [at EXCEPT ![t] = "idle"]
  /\ call' = [call EXCEPT ![t] = NoCall]
  /\ work' = [work EXCEPT ![t] = NoWork]
  /\ returned' = [fn |-> c.fn, db |-> c.db, status |-> status, entry |-> e,
                  buflen |-> c.buflen, thread |-> t]

(* Mutant of Begin: a failed initialisation is not noticed. *)
BeginAnyway(t, c, place) ==
  /\ MayCall(t, c.fn, c.db)
  /\ get_state
  /\ GoOn(t, place) /\ call' = [call EXCEPT ![t] = c]
  /\ UNCHANGED <<uses, svc, ENUM, work, fetched, given>>

(* A function that needs the state gets it, or returns Unavail. *)
Begin(t, c, place) ==
  /\ MayCall(t, c.fn, c.db)
  /\ get_state
  /\ IF STATE_' = "failed"
       THEN Return(t, c, "Unavail", Nobody)
       ELSE GoOn(t, place) /\ call' = [call EXCEPT ![t] = c] /\ UNCHANGED work
  /\ UNCHANGED <<uses, svc, ENUM, fetched, given>>

Fill(d, e, buflen) ==
  IF d = "passwd" THEN fill_passwd_buf(Strings[d][e], buflen)
                  ELSE fill_group_buf(Strings[d][e], buflen)

Acquire(t) ==
  /\ at[t] = "lock" /\ svc = Nobody
  /\ svc' = t
  /\ GoOn(t, "service")
  /\ UNCHANGED <<uses, host, STATE_, ENUM, call, work, array, fetched, given>>

-----------------------------------------------------------------------------
(* setpwent and setgrent. *)

SetEnt(t, d) ==
  /\ Begin(t, [fn |-> "setent", db |-> d, buflen |-> 0], "list")
  /\ UNCHANGED array

(* The list could not be fetched: an enumeration that was there stays. *)
ListFails(t) ==
  /\ at[t] = "list"
  /\ Return(t, call[t], "Unavail", Nobody)
  /\ UNCHANGED <<uses, host, STATE_, svc, ENUM, array, fetched, given>>

(* The list is there; the mutex is taken only now. *)
Listed(t, l) ==
  /\ at[t] = "list"
  /\ work' = [work EXCEPT ![t] = [todo |-> l, done |-> <<>>]]
  /\ GoOn(t, "lock")
  /\ UNCHANGED <<uses, host, STATE_, svc, ENUM, call, array, fetched, given>>

(* Mutant of Convert: an entry that cannot be converted is put back. *)
ConvertPuttingBack(t, converted) ==
  /\ at[t] = "service" /\ call[t].fn = "setent" /\ work[t].todo # <<>>
  /\ work' = [work EXCEPT ![t] =
       [todo |-> IF converted THEN Tail(@.todo) ELSE Append(Tail(@.todo), Head(@.todo)),
        done |-> IF converted THEN Append(@.done, Head(@.todo)) ELSE @.done]]
  /\ returned' = NoReturn
  /\ UNCHANGED <<uses, host, STATE_, svc, ENUM, threadVars, array, fetched, given>>

(* One entry is converted and stored, or left out because it cannot be     *)
(* converted; that storing it fails makes no difference.                   *)
Convert(t, converted) ==
  /\ at[t] = "service" /\ call[t].fn = "setent" /\ work[t].todo # <<>>
  /\ work' = [work EXCEPT ![t] =
       [todo |-> Tail(@.todo),
        done |-> IF converted THEN Append(@.done, Head(@.todo)) ELSE @.done]]
  /\ returned' = NoReturn
  /\ UNCHANGED <<uses, host, STATE_, svc, ENUM, threadVars, array, fetched, given>>

(* drop(svc) *)
Unlock(t) ==
  /\ at[t] = "service" /\ call[t].fn = "setent" /\ work[t].todo = <<>>
  /\ svc' = Nobody
  /\ GoOn(t, "install")
  /\ UNCHANGED <<uses, host, STATE_, ENUM, call, work, array, fetched, given>>

Install(t) ==
  /\ at[t] = "install"
  /\ LET d == call[t].db
         l == work[t].done
     IN  /\ ENUM' = [ENUM EXCEPT ![d] = [some |-> TRUE, list |-> l, idx |-> 0]]
         /\ fetched' = [fetched EXCEPT ![d] = l]
         /\ given' = [given EXCEPT ![d] = <<>>]
  /\ Return(t, call[t], "Success", Nobody)
  /\ UNCHANGED <<uses, host, STATE_, svc, array>>

-----------------------------------------------------------------------------
(* getpwent_r and getgrent_r, endpwent and endgrent.  None of them needs   *)
(* the state or waits for anything.                                        *)

NotBegun(t, d) ==
  /\ MayCall(t, "getent", d)
  /\ ~ENUM[d].some
  /\ Return(t, [fn |-> "getent", db |-> d, buflen |-> 0], "Unavail", Nobody)
  /\ UNCHANGED <<uses, host, STATE_, svc, ENUM, array, fetched, given>>

AtEnd(t, d) ==
  /\ MayCall(t, "getent", d)
  /\ ENUM[d].some /\ ENUM[d].idx >= Len(ENUM[d].list)
  /\ Return(t, [fn |-> "getent", db |-> d, buflen |-> 0], "NotFound", Nobody)
  /\ UNCHANGED <<uses, host, STATE_, svc, ENUM, array, fetched, given>>

(* Mutant of GetEnt: the cursor moves past an entry that did not fit. *)
GetEntAdvancing(t, d, buflen) ==
  /\ MayCall(t, "getent", d)
  /\ ENUM[d].some /\ ENUM[d].idx < Len(ENUM[d].list)
  /\ LET e == ENUM[d].list[ENUM[d].idx + 1]
         status == Fill(d, e, buflen)
     IN  /\ Return(t, [fn |-> "getent", db |-> d, buflen |-> buflen], status, e)
         /\ ENUM' = [ENUM EXCEPT ![d].idx = @ + 1]
         /\ given' = IF status = "Success" THEN [given EXCEPT ![d] = Append(@, e)] ELSE given
  /\ UNCHANGED <<uses, host, STATE_, svc, array, fetched>>

(* The next entry; the cursor moves on only if it fits. *)
GetEnt(t, d, buflen) ==
  /\ MayCall(t, "getent", d)
  /\ ENUM[d].some /\ ENUM[d].idx < Len(ENUM[d].list)
  /\ LET e == ENUM[d].list[ENUM[d].idx + 1]
         status == Fill(d, e, buflen)
     IN  /\ Return(t, [fn |-> "getent", db |-> d, buflen |-> buflen], status, e)
         /\ IF status = "Success"
              THEN /\ ENUM' = [ENUM EXCEPT ![d].idx = @ + 1]
                   /\ given' = [given EXCEPT ![d] = Append(@, e)]
              ELSE UNCHANGED <<ENUM, given>>
  /\ UNCHANGED <<uses, host, STATE_, svc, array, fetched>>

EndEnt(t, d) ==
  /\ MayCall(t, "endent", d)
  /\ ENUM' = [ENUM EXCEPT ![d] = NoEnum]
  /\ Return(t, [fn |-> "endent", db |-> d, buflen |-> 0], "Success", Nobody)
  /\ UNCHANGED <<uses, host, STATE_, svc, array, fetched, given>>

-----------------------------------------------------------------------------
(* getpwnam_r, getpwuid_r, getgrnam_r and getgrgid_r. *)

(* A name that is not UTF-8. *)
BadName(t, fn, d) ==
  /\ MayCall(t, fn, d)
  /\ Return(t, [fn |-> fn, db |-> d, buflen |-> 0], "NotFound", Nobody)
  /\ UNCHANGED <<uses, host, STATE_, svc, ENUM, array, fetched, given>>

Lookup(t, d, buflen) ==
  /\ Begin(t, [fn |-> "lookup", db |-> d, buflen |-> buflen], "lock")
  /\ UNCHANGED array

(* The service has answered: an entry, or none.  The mutex is held until   *)
(* the function returns.                                                   *)
LookedUp(t, e) ==
  /\ at[t] = "service" /\ call[t].fn = "lookup"
  /\ svc' = Nobody
  /\ Return(t, call[t],
            IF e = Nobody THEN "NotFound" ELSE Fill(call[t].db, e, call[t].buflen), e)
  /\ UNCHANGED <<uses, host, STATE_, ENUM, array, fetched, given>>

(* The service has failed. *)
ServiceFails(t) ==
  /\ at[t] = "service" /\ call[t].fn \in {"lookup", "initgroups"}
  /\ svc' = Nobody
  /\ Return(t, call[t], "Unavail", Nobody)
  /\ UNCHANGED <<uses, host, STATE_, ENUM, array, fetched, given>>

-----------------------------------------------------------------------------
(* initgroups_dyn *)

(* What a caller's array holds at first: nothing, or the primary group and *)
(* maybe a group that another module has found.                            *)
StartArrays == {<<>>, <<Primary>>} \cup {<<Primary, g>> : g \in Gids \ {Primary}}

(* A caller passes an array, ... *)
Initgroups(t, gids, size) ==
  /\ Len(gids) <= size
  /\ Begin(t, [fn |-> "initgroups", db |-> "group", buflen |-> 0], "lock")
  /\ array' = [array EXCEPT ![t] = [NoArray EXCEPT !.gids = gids, !.size = size]]

(* ... or, after TryAgain, the same array with twice the room. *)
InitgroupsAgain(t) ==
  /\ array[t].full
  /\ Begin(t, [fn |-> "initgroups", db |-> "group", buflen |-> 0], "lock")
  /\ array' = [array EXCEPT ![t] = [@ EXCEPT !.size = 2 * array[t].size, !.full = FALSE]]

(* lookup_groups_for_user has answered. *)
GroupsFound(t, gids) ==
  /\ at[t] = "service" /\ call[t].fn = "initgroups"
  /\ array' = [array EXCEPT ![t] = [@ EXCEPT !.answer = gids, !.todo = gids]]
  /\ GoOn(t, "append")
  /\ UNCHANGED <<uses, host, STATE_, svc, ENUM, call, work, fetched, given>>

(* Mutant of Present: duplicates are not looked for. *)
PresentPrimary(a, gid) == gid = Primary

(* The primary group and what the array holds already are skipped. *)
Present(a, gid) == gid = Primary \/ gid \in ToSet(a.gids)

(* Mutant of HasRoom: one element too many. *)
HasRoomForOneMore(a) == Len(a.gids) <= a.size

HasRoom(a) == Len(a.gids) < a.size

(* One iteration of the loop that goes on, ... *)
AppendGid(t) ==
  LET a == array[t]
      gid == Head(a.todo)
  IN
  /\ at[t] = "append" /\ a.todo # <<>>
  /\ \/ Present(a, gid) /\ array' = [array EXCEPT ![t] = [a EXCEPT !.todo = Tail(@)]]
     \/ /\ ~Present(a, gid) /\ HasRoom(a)
        /\ array' = [array EXCEPT ![t] = [a EXCEPT !.gids = Append(@, gid), !.todo = Tail(@)]]
  /\ returned' = NoReturn
  /\ UNCHANGED <<uses, host, STATE_, svc, ENUM, threadVars, work, fetched, given>>

(* ... and the one that ends the function because the array is full. *)
ArrayFull(t) ==
  /\ at[t] = "append" /\ array[t].todo # <<>>
  /\ ~Present(array[t], Head(array[t].todo)) /\ ~HasRoom(array[t])
  /\ svc' = Nobody
  /\ array' = [array EXCEPT ![t] = [@ EXCEPT !.full = TRUE, !.todo = <<>>]]
  /\ Return(t, call[t], "TryAgain", Nobody)
  /\ UNCHANGED <<uses, host, STATE_, ENUM, fetched, given>>

AllAppended(t) ==
  /\ at[t] = "append" /\ array[t].todo = <<>>
  /\ svc' = Nobody
  /\ Return(t, call[t], "Success", Nobody)
  /\ UNCHANGED <<uses, host, STATE_, ENUM, array, fetched, given>>

-----------------------------------------------------------------------------

(* A call in progress goes on. *)
Proceed(t) ==
  \/ ListFails(t) \/ \E l \in Lists : Listed(t, l)
  \/ Acquire(t)
  \/ \E converted \in BOOLEAN : Convert(t, converted)
  \/ Unlock(t) \/ Install(t)
  \/ ServiceFails(t) \/ \E e \in Entries \cup {Nobody} : LookedUp(t, e)
  \/ \E gids \in GidLists : GroupsFound(t, gids)
  \/ AppendGid(t) \/ ArrayFull(t) \/ AllAppended(t)

Call(t) ==
  \/ \E d \in Dbs : SetEnt(t, d) \/ NotBegun(t, d) \/ AtEnd(t, d) \/ EndEnt(t, d)
  \/ \E d \in Dbs, buflen \in BufLens : GetEnt(t, d, buflen) \/ Lookup(t, d, buflen)
  \/ \E f \in NssFunctions : f[1] \in {"lookup", "initgroups"} /\ BadName(t, f[1], f[2])
  \/ \E gids \in StartArrays, size \in Sizes : Initgroups(t, gids, size)
  \/ InitgroupsAgain(t)

Next == \E t \in Threads : Call(t) \/ Proceed(t)

(* A call in progress goes on: requests time out, and module Service shows *)
(* that its calls return.  Nothing is assumed of who gets the mutex.       *)
Spec == Init /\ [][Next]_vars
FairSpec == Spec /\ \A t \in Threads : WF_vars(Proceed(t))

-----------------------------------------------------------------------------

NssTypeOK ==
  /\ STATE_ \in {"unset", "ready", "failed"}
  /\ svc \in Threads \cup {Nobody}
  /\ ENUM \in [Dbs -> [some : BOOLEAN, list : Seq(Entries), idx : Nat]]
  /\ at \in [Threads -> {"idle", "list", "lock", "service", "append", "install"}]
  /\ call \in [Threads -> [fn : {"none", "setent", "lookup", "initgroups"},
                           db : Dbs \cup {"none"}, buflen : BufLens \cup {0}]]
  /\ work \in [Threads -> [todo : Seq(Entries), done : Seq(Entries)]]
  /\ array \in [Threads -> [gids : Seq(Gids), size : Nat, answer : Seq(Gids),
                            todo : Seq(Gids), full : BOOLEAN]]
  /\ fetched \in [Dbs -> Seq(Entries)] /\ given \in [Dbs -> Seq(Entries)]
  /\ \A t \in Threads :
       /\ (svc = t) <=> (at[t] \in {"service", "append"})
       /\ at[t] # "idle" => STATE_ = "ready" /\ call[t].db \in Dbs
       /\ at[t] \in {"list", "install"} => call[t].fn = "setent"
       /\ at[t] = "append" => call[t].fn = "initgroups"

(* A process whose initialisation succeeded, whatever it found at its      *)
(* start, has a token file of its own that nobody else may read; and if it *)
(* has a cache file at all, it runs as root and the cache file is root's   *)
(* and private.  A process of another user passes the check of its own     *)
(* token file, which asks for root's only of root, and fails at the cache  *)
(* file, unless the cache is in memory, which is not checked (config.rs,   *)
(* check_secret_file_permissions; cache.rs, open and harden_cache_file;    *)
(* nss state.rs, get_state).                                               *)
PrivateTo(file, owner) == file.kind = "file" /\ file.uid = owner /\ file.mode % 64 = 0

ReadyIsPrivate ==
  STATE_ = "ready" =>
    /\ PrivateTo(host.token, host.euid)
    /\ ~host.memory => host.euid = Root /\ PrivateTo(host.cache, Root)

(* When get*ent_r reports the end, it has given out every entry that the   *)
(* last successful set*ent converted, once and in order, however many      *)
(* buffers were too small and however many set*ent failed since then (nss  *)
(* ffi.rs, getpwent_r and getgrent_r).                                     *)
EnumerationExact ==
  returned.fn = "getent" /\ returned.status = "NotFound"
    => given[returned.db] = fetched[returned.db]

(* A buffer is refused exactly if the entry does not fit into it: a caller *)
(* that doubles its buffer is served before the buffer is twice as large   *)
(* as need be, and never gets more than it has room for (nss passwd.rs,    *)
(* fill_passwd_buf; group.rs, fill_group_buf).                             *)
FilledIfItFits ==
  returned.entry # Nobody =>
    LET s == Strings[returned.db][returned.entry]
        needs == IF returned.db = "passwd" THEN PasswdNeeds(s) ELSE GroupNeeds(s)
    IN  returned.status = IF needs <= returned.buflen THEN "Success" ELSE "TryAgain"

(* initgroups_dyn never writes beyond the caller's array, in any number of *)
(* attempts, and asks for a larger one only when it is full (nss ffi.rs,   *)
(* "Check if we have room").                                               *)
ArrayNotOverrun ==
  \A t \in Threads : Len(array[t].gids) <= array[t].size
                       /\ (array[t].full => Len(array[t].gids) = array[t].size)

(* After Success the array holds every group of the answer but the primary *)
(* group, which is for the caller to put in, and none twice even if it was *)
(* filled in several attempts with different answers (nss ffi.rs, "Scan    *)
(* all entries including ones appended by this call").                     *)
GroupsExact ==
  returned.fn = "initgroups" /\ returned.status = "Success" =>
    LET a == array[returned.thread]
    IN  ToSet(a.answer) \subseteq ToSet(a.gids) \cup {Primary} /\ IsInjective(a.gids)

(* Whoever holds the service mutex lets it go, although requests are made  *)
(* under it and fail (nss passwd.rs and group.rs, the scope of svc).       *)
MutexReleased == \A t \in Threads : svc = t ~> svc # t
=============================================================================
