----------------------------- MODULE NssProofs -----------------------------
(***************************************************************************)
(* Proofs about the NSS module: for any number of threads, entries, lists, *)
(* buffers and arrays.                                                     *)
(***************************************************************************)
EXTENDS Nss, WellFoundedInduction, TLAPS

CallRecs == [fn : {"none", "setent", "lookup", "initgroups"},
             db : Dbs \cup {"none"}, buflen : BufLens \cup {0}]
EnumRecs == [some : BOOLEAN, list : Seq(Entries), idx : Nat]
WorkRecs == [todo : Seq(Entries), done : Seq(Entries)]
ArrayRecs == [gids : Seq(Gids), size : Nat, answer : Seq(Gids), todo : Seq(Gids), full : BOOLEAN]
Places == {"idle", "list", "lock", "service", "append", "install"}

(* The parts of NssTypeOK. *)
DataOK ==
  /\ ENUM \in [Dbs -> EnumRecs]
  /\ work \in [Threads -> WorkRecs]
  /\ array \in [Threads -> ArrayRecs]
  /\ fetched \in [Dbs -> Seq(Entries)] /\ given \in [Dbs -> Seq(Entries)]

ThreadsOK ==
  /\ STATE_ \in {"unset", "ready", "failed"}
  /\ svc \in Threads \cup {Nobody}
  /\ at \in [Threads -> Places]
  /\ call \in [Threads -> CallRecs]
  /\ \A t \in Threads :
       /\ (svc = t) <=> (at[t] \in {"service", "append"})
       /\ at[t] # "idle" => STATE_ = "ready" /\ call[t].db \in Dbs
       /\ at[t] \in {"list", "install"} => call[t].fn = "setent"
       /\ at[t] = "append" => call[t].fn = "initgroups"

(* An array stays one when a field is given another value of its type. *)
LEMMA PutField ==
  ASSUME NEW a \in ArrayRecs
  PROVE  /\ \A n \in Nat : [a EXCEPT !.size = n] \in ArrayRecs
         /\ \A b \in BOOLEAN : [a EXCEPT !.full = b] \in ArrayRecs
         /\ \A s \in Seq(Gids) : /\ [a EXCEPT !.gids = s] \in ArrayRecs
                                 /\ [a EXCEPT !.answer = s] \in ArrayRecs
                                 /\ [a EXCEPT !.todo = s] \in ArrayRecs
<1>1. ASSUME NEW n \in Nat PROVE [a EXCEPT !.size = n] \in ArrayRecs
  BY DEF ArrayRecs
<1>2. ASSUME NEW b \in BOOLEAN PROVE [a EXCEPT !.full = b] \in ArrayRecs
  BY DEF ArrayRecs
<1>3. ASSUME NEW s \in Seq(Gids)
      PROVE  /\ [a EXCEPT !.gids = s] \in ArrayRecs
             /\ [a EXCEPT !.answer = s] \in ArrayRecs
             /\ [a EXCEPT !.todo = s] \in ArrayRecs
  BY DEF ArrayRecs
<1> QED BY <1>1, <1>2, <1>3

LEMMA TypeParts == NssTypeOK <=> DataOK /\ ThreadsOK
  BY DEF NssTypeOK, DataOK, ThreadsOK, CallRecs, EnumRecs, WorkRecs, ArrayRecs, Places

LEMMA InitType == Init => NssTypeOK
<1> SUFFICES ASSUME Init PROVE NssTypeOK OBVIOUS
<1>1. NoEnum \in EnumRecs /\ NoWork \in WorkRecs /\ NoArray \in ArrayRecs /\ NoCall \in CallRecs
  BY DEF NoEnum, NoWork, NoArray, NoCall, EnumRecs, WorkRecs, ArrayRecs, CallRecs
<1>2. DataOK
  BY <1>1 DEF Init, DataOK
<1>3. ThreadsOK
  BY <1>1, NssAssumption DEF Init, ThreadsOK, Places
<1> QED BY <1>2, <1>3, TypeParts

(* get_state leaves a state that is set alone. *)
LEMMA StateOnce ==
  ASSUME STATE_ \in {"unset", "ready", "failed"}, get_state
  PROVE  /\ STATE_' \in {"ready", "failed"}
         /\ STATE_ # "unset" => UNCHANGED <<STATE_, host>>
  BY DEF get_state, Outcomes

(* A thread that returns is idle; what a call in progress keeps is gone. *)
Leaves(t) ==
  /\ at' = [at EXCEPT ![t] = "idle"]
  /\ call' = [call EXCEPT ![t] = NoCall]
  /\ work' = [work EXCEPT ![t] = NoWork]

LEMMA LeavesThreads ==
  ASSUME ThreadsOK, NEW t \in Threads, Leaves(t),
         STATE_' = STATE_ \/ (STATE_ = "unset" /\ STATE_' \in {"ready", "failed"}),
         IF svc = t THEN svc' = Nobody ELSE svc' = svc
  PROVE  ThreadsOK'
<1>1. NoCall \in CallRecs
  BY DEF NoCall, CallRecs
<1> QED BY <1>1, NssAssumption DEF Leaves, ThreadsOK, Places

LEMMA LeavesWork ==
  ASSUME DataOK, NEW t \in Threads, Leaves(t)
  PROVE  work' \in [Threads -> WorkRecs]
  BY DEF Leaves, DataOK, NoWork, WorkRecs

LEMMA BeginThreads ==
  ASSUME ThreadsOK, NEW t \in Threads, NEW c \in CallRecs, c.db \in Dbs,
         NEW place \in {"list", "lock"}, Begin(t, c, place),
         place = "list" => c.fn = "setent"
  PROVE  ThreadsOK'
<1>1. STATE_' = STATE_ \/ (STATE_ = "unset" /\ STATE_' \in {"ready", "failed"})
  BY StateOnce DEF Begin, ThreadsOK
<1>2. at[t] = "idle" /\ svc' = svc /\ svc # t
  BY DEF Begin, MayCall, ThreadsOK
<1>3. CASE STATE_' = "failed"
  <2>1. Leaves(t)
    BY <1>3 DEF Begin, Return, Leaves
  <2> QED BY <1>1, <1>2, <2>1, LeavesThreads
<1>4. CASE STATE_' # "failed"
  <2>1. STATE_' = "ready"
    BY <1>4, StateOnce DEF Begin, ThreadsOK
  <2> QED BY <1>2, <2>1, <1>4 DEF Begin, GoOn, ThreadsOK, Places
<1> QED BY <1>3, <1>4

LEMMA BeginData ==
  ASSUME DataOK, NEW t \in Threads, NEW c, NEW place, Begin(t, c, place),
         array' \in [Threads -> ArrayRecs]
  PROVE  DataOK'
<1>1. work' \in [Threads -> WorkRecs]
  <2>1. CASE UNCHANGED work
    BY <2>1 DEF DataOK
  <2>2. CASE Leaves(t)
    BY <2>2, LeavesWork
  <2> QED BY <2>1, <2>2 DEF Begin, Return, Leaves
<1> QED BY <1>1 DEF Begin, DataOK

(* Calls that begin. *)
LEMMA StartArrayShape ==
  ASSUME NEW gids \in StartArrays PROVE gids \in Seq(Gids) /\ IsInjective(gids)
<1>1. Primary \in Gids
  BY NssAssumption
<1>2. CASE gids = <<>>
  BY <1>2 DEF IsInjective
<1>3. CASE gids = <<Primary>>
  BY <1>1, <1>3 DEF IsInjective
<1>4. ASSUME NEW g \in Gids \ {Primary}, gids = <<Primary, g>>
      PROVE  gids \in Seq(Gids) /\ IsInjective(gids)
  BY <1>1, <1>4 DEF IsInjective
<1>5. \/ gids = <<>> \/ gids = <<Primary>>
      \/ \E g \in Gids \ {Primary} : gids = <<Primary, g>>
  BY Zenon DEF StartArrays
<1> QED BY <1>2, <1>3, <1>4, <1>5

LEMMA CallType == ASSUME DataOK, ThreadsOK, NEW t \in Threads, Call(t) PROVE DataOK' /\ ThreadsOK'
<1>1. ASSUME NEW d \in Dbs, SetEnt(t, d) PROVE DataOK' /\ ThreadsOK'
  <2>1. [fn |-> "setent", db |-> d, buflen |-> 0] \in CallRecs
    BY DEF CallRecs
  <2> QED BY <1>1, <2>1, BeginThreads, BeginData DEF SetEnt, DataOK
<1>2. ASSUME NEW d \in Dbs, NEW buflen \in BufLens, Lookup(t, d, buflen) PROVE DataOK' /\ ThreadsOK'
  <2>1. [fn |-> "lookup", db |-> d, buflen |-> buflen] \in CallRecs
    BY DEF CallRecs
  <2> QED BY <1>2, <2>1, BeginThreads, BeginData DEF Lookup, DataOK
<1>3. [fn |-> "initgroups", db |-> "group", buflen |-> 0] \in CallRecs /\ "group" \in Dbs
  BY DEF CallRecs, Dbs
<1>4. ASSUME NEW gids \in StartArrays, NEW size \in Sizes, Initgroups(t, gids, size)
      PROVE  DataOK' /\ ThreadsOK'
  <2>1. gids \in Seq(Gids) /\ size \in Nat
    BY NssAssumption, StartArrayShape
  <2>2. [NoArray EXCEPT !.gids = gids, !.size = size] \in ArrayRecs
    <3>1. NoArray \in ArrayRecs
      BY DEF NoArray, ArrayRecs
    <3>2. [NoArray EXCEPT !.gids = gids] \in ArrayRecs
      BY <2>1, <3>1, PutField
    <3> QED BY <2>1, <3>2, PutField
  <2>3. array' \in [Threads -> ArrayRecs]
    BY <1>4, <2>2 DEF Initgroups, DataOK
  <2> QED BY <1>3, <1>4, <2>3, BeginThreads, BeginData DEF Initgroups
<1>5. CASE InitgroupsAgain(t)
  <2> DEFINE a == [array[t] EXCEPT !.size = 2 * array[t].size, !.full = FALSE]
  <2>0. a \in ArrayRecs
    <3>1. array[t] \in ArrayRecs /\ 2 * array[t].size \in Nat
      BY DEF DataOK, ArrayRecs
    <3>2. [array[t] EXCEPT !.size = 2 * array[t].size] \in ArrayRecs
      BY <3>1, PutField
    <3> QED BY <3>2, PutField
  <2>1. array' \in [Threads -> ArrayRecs]
    BY <1>5, <2>0 DEF InitgroupsAgain, DataOK
  <2> QED BY <1>3, <1>5, <2>1, BeginThreads, BeginData DEF InitgroupsAgain
<1>6. ASSUME NEW d \in Dbs, NotBegun(t, d) \/ AtEnd(t, d) \/ EndEnt(t, d) PROVE DataOK' /\ ThreadsOK'
  <2>1. Leaves(t) /\ UNCHANGED <<svc, STATE_, array, fetched, given>> /\ at[t] = "idle"
    BY <1>6 DEF NotBegun, AtEnd, EndEnt, MayCall, Return, Leaves
  <2>2. svc # t
    BY <2>1 DEF ThreadsOK
  <2>3. NoEnum \in EnumRecs
    BY DEF NoEnum, EnumRecs
  <2>4. ENUM' = ENUM \/ ENUM' = [ENUM EXCEPT ![d] = NoEnum]
    BY <1>6 DEF NotBegun, AtEnd, EndEnt
  <2>5. ENUM' \in [Dbs -> EnumRecs]
    BY <2>3, <2>4 DEF DataOK
  <2> QED BY <2>1, <2>2, <2>5, LeavesThreads, LeavesWork DEF DataOK
<1>7. ASSUME NEW fn, NEW d, BadName(t, fn, d) PROVE DataOK' /\ ThreadsOK'
  <2>1. /\ Leaves(t) /\ UNCHANGED <<svc, STATE_, ENUM, array, fetched, given>>
        /\ at[t] = "idle"
    BY <1>7 DEF BadName, MayCall, Return, Leaves
  <2>2. svc # t
    BY <2>1 DEF ThreadsOK
  <2> QED BY <2>1, <2>2, LeavesThreads, LeavesWork DEF DataOK
<1>8. ASSUME NEW d \in Dbs, NEW buflen \in BufLens, GetEnt(t, d, buflen) PROVE DataOK' /\ ThreadsOK'
  <2>1. Leaves(t) /\ UNCHANGED <<svc, STATE_, array, fetched>> /\ at[t] = "idle"
    BY <1>8 DEF GetEnt, MayCall, Return, Leaves
  <2>2. svc # t
    BY <2>1 DEF ThreadsOK
  <2>3. /\ ENUM[d] \in EnumRecs /\ ENUM[d].list \in Seq(Entries) /\ ENUM[d].idx \in Nat
        /\ ENUM[d].idx < Len(ENUM[d].list)
    BY <1>8 DEF GetEnt, DataOK, EnumRecs
  <2> DEFINE e == ENUM[d].list[ENUM[d].idx + 1]
  <2>4. e \in Entries
    BY <2>3
  <2>5. \/ UNCHANGED <<ENUM, given>>
        \/ /\ ENUM' = [ENUM EXCEPT ![d].idx = @ + 1]
           /\ given' = [given EXCEPT ![d] = Append(@, e)]
    BY <1>8 DEF GetEnt
  <2> HIDE DEF e
  <2>6. [ENUM[d] EXCEPT !.idx = @ + 1] \in EnumRecs /\ Append(given[d], e) \in Seq(Entries)
    <3>1. given[d] \in Seq(Entries)
      BY DEF DataOK
    <3>2. Append(given[d], e) \in Seq(Entries)
      BY <3>1, <2>4
    <3>3. [ENUM[d] EXCEPT !.idx = @ + 1] \in EnumRecs
      BY <2>3 DEF EnumRecs
    <3> QED BY <3>2, <3>3
  <2>7. ENUM' \in [Dbs -> EnumRecs] /\ given' \in [Dbs -> Seq(Entries)]
    BY <2>5, <2>6 DEF DataOK
  <2> QED BY <2>1, <2>2, <2>7, LeavesThreads, LeavesWork DEF DataOK
<1> QED BY <1>1, <1>2, <1>4, <1>5, <1>6, <1>7, <1>8 DEF Call

(* Calls that go on. *)
LEMMA ProceedType == ASSUME DataOK, ThreadsOK, NEW t \in Threads, Proceed(t) PROVE DataOK' /\ ThreadsOK'
<1>1. CASE ListFails(t)
  <2>1. /\ Leaves(t) /\ UNCHANGED <<svc, STATE_, ENUM, array, fetched, given>>
        /\ at[t] = "list"
    BY <1>1 DEF ListFails, Return, Leaves
  <2>2. svc # t
    BY <2>1 DEF ThreadsOK
  <2> QED BY <2>1, <2>2, LeavesThreads, LeavesWork DEF DataOK
<1>2. ASSUME NEW l \in Lists, Listed(t, l) PROVE DataOK' /\ ThreadsOK'
  <2>1. l \in Seq(Entries)
    BY NssAssumption
  <2>2. work' \in [Threads -> WorkRecs]
    BY <1>2, <2>1 DEF Listed, DataOK, WorkRecs
  <2>3. ThreadsOK'
    BY <1>2 DEF Listed, GoOn, ThreadsOK, Places
  <2> QED BY <1>2, <2>2, <2>3 DEF Listed, DataOK
<1>3. CASE Acquire(t)
  <2>1. ThreadsOK'
    BY <1>3, NssAssumption DEF Acquire, GoOn, ThreadsOK, Places
  <2> QED BY <1>3, <2>1 DEF Acquire, DataOK
<1>4. ASSUME NEW converted \in BOOLEAN, Convert(t, converted) PROVE DataOK' /\ ThreadsOK'
  <2>1. work[t].todo \in Seq(Entries) /\ work[t].todo # <<>> /\ work[t].done \in Seq(Entries)
    BY <1>4 DEF Convert, DataOK, WorkRecs
  <2>2. /\ Tail(work[t].todo) \in Seq(Entries)
        /\ Append(work[t].done, Head(work[t].todo)) \in Seq(Entries)
    BY <2>1
  <2>3. work' \in [Threads -> WorkRecs]
    BY <1>4, <2>1, <2>2 DEF Convert, DataOK, WorkRecs
  <2> QED BY <1>4, <2>3 DEF Convert, DataOK, ThreadsOK, threadVars
<1>5. CASE Unlock(t)
  <2>1. ThreadsOK'
    BY <1>5, NssAssumption DEF Unlock, GoOn, ThreadsOK, Places
  <2> QED BY <1>5, <2>1 DEF Unlock, DataOK
<1>6. CASE Install(t)
  <2>0. Leaves(t) /\ UNCHANGED <<svc, STATE_, array>> /\ at[t] = "install"
    BY <1>6 DEF Install, Return, Leaves
  <2>1. svc # t /\ call[t].db \in Dbs
    BY <2>0 DEF ThreadsOK
  <2>2. ThreadsOK'
    BY <2>0, <2>1, LeavesThreads
  <2>3. work[t].done \in Seq(Entries)
    BY DEF DataOK, WorkRecs
  <2>4. /\ [some |-> TRUE, list |-> work[t].done, idx |-> 0] \in EnumRecs
        /\ <<>> \in Seq(Entries)
    BY <2>3 DEF EnumRecs
  <2>5. /\ ENUM' \in [Dbs -> EnumRecs]
        /\ fetched' \in [Dbs -> Seq(Entries)] /\ given' \in [Dbs -> Seq(Entries)]
    BY <1>6, <2>1, <2>3, <2>4 DEF Install, DataOK
  <2> QED BY <2>0, <2>2, <2>5, LeavesWork DEF DataOK
<1>7. CASE ServiceFails(t) \/ \E e \in Entries \cup {Nobody} : LookedUp(t, e)
  <2>1. /\ Leaves(t) /\ UNCHANGED <<STATE_, ENUM, array, fetched, given>>
        /\ at[t] = "service" /\ svc' = Nobody
    BY <1>7 DEF ServiceFails, LookedUp, Return, Leaves
  <2>2. svc = t
    BY <2>1 DEF ThreadsOK
  <2> QED BY <2>1, <2>2, LeavesThreads, LeavesWork DEF DataOK
<1>8. ASSUME NEW gids \in GidLists, GroupsFound(t, gids) PROVE DataOK' /\ ThreadsOK'
  <2>1. gids \in Seq(Gids)
    BY NssAssumption
  <2> DEFINE a == [array[t] EXCEPT !.answer = gids, !.todo = gids]
  <2>0. a \in ArrayRecs
    BY <2>1 DEF DataOK, ArrayRecs
  <2>2. array' \in [Threads -> ArrayRecs]
    BY <1>8, <2>0 DEF GroupsFound, DataOK
  <2>3. ThreadsOK'
    BY <1>8 DEF GroupsFound, GoOn, ThreadsOK, Places
  <2> QED BY <1>8, <2>2, <2>3 DEF GroupsFound, DataOK
<1>9. CASE AppendGid(t)
  <2>1. array[t] \in ArrayRecs /\ array[t].todo \in Seq(Gids) /\ array[t].todo # <<>>
        /\ array[t].gids \in Seq(Gids)
    BY <1>9 DEF AppendGid, DataOK, ArrayRecs
  <2>2. /\ Tail(array[t].todo) \in Seq(Gids)
        /\ Append(array[t].gids, Head(array[t].todo)) \in Seq(Gids)
    BY <2>1
  <2> DEFINE a == array[t]
             skip == [a EXCEPT !.todo = Tail(@)]
             put == [a EXCEPT !.gids = Append(@, Head(a.todo)), !.todo = Tail(@)]
  <2>3. skip \in ArrayRecs /\ put \in ArrayRecs
    BY <2>1, <2>2 DEF ArrayRecs
  <2>4. array' = [array EXCEPT ![t] = skip] \/ array' = [array EXCEPT ![t] = put]
    BY <1>9 DEF AppendGid
  <2> HIDE DEF skip, put
  <2>5. array' \in [Threads -> ArrayRecs]
    BY <2>3, <2>4 DEF DataOK
  <2> QED BY <1>9, <2>5 DEF AppendGid, DataOK, ThreadsOK, threadVars
<1>10. CASE ArrayFull(t)
  <2>1. /\ Leaves(t) /\ UNCHANGED <<STATE_, ENUM, fetched, given>>
        /\ at[t] = "append" /\ svc' = Nobody
    BY <1>10 DEF ArrayFull, Return, Leaves
  <2>2. svc = t
    BY <2>1 DEF ThreadsOK
  <2> DEFINE a == [array[t] EXCEPT !.full = TRUE, !.todo = <<>>]
  <2>3. a \in ArrayRecs
    <3>1. array[t] \in ArrayRecs /\ <<>> \in Seq(Gids)
      BY DEF DataOK
    <3>2. [array[t] EXCEPT !.full = TRUE] \in ArrayRecs
      BY <3>1, PutField
    <3> QED BY <3>1, <3>2, PutField
  <2>4. array' \in [Threads -> ArrayRecs]
    BY <1>10, <2>3 DEF ArrayFull, DataOK
  <2> QED BY <2>1, <2>2, <2>4, LeavesThreads, LeavesWork DEF DataOK
<1>11. CASE AllAppended(t)
  <2>1. /\ Leaves(t) /\ UNCHANGED <<STATE_, ENUM, array, fetched, given>>
        /\ at[t] = "append" /\ svc' = Nobody
    BY <1>11 DEF AllAppended, Return, Leaves
  <2>2. svc = t
    BY <2>1 DEF ThreadsOK
  <2> QED BY <2>1, <2>2, LeavesThreads, LeavesWork DEF DataOK
<1> QED BY <1>1, <1>2, <1>3, <1>4, <1>5, <1>6, <1>7, <1>8, <1>9, <1>10, <1>11 DEF Proceed

(* The type invariant holds whatever the threads do: in particular the     *)
(* service is used by nobody but the holder of the mutex, and by nobody    *)
(* before the initialisation has succeeded.                                *)
THEOREM NssTypeCorrect == Spec => []NssTypeOK
<1>1. Init => DataOK /\ ThreadsOK
  BY InitType, TypeParts
<1>2. DataOK /\ ThreadsOK /\ [Next]_vars => (DataOK /\ ThreadsOK)'
  <2>1. CASE UNCHANGED vars
    BY <2>1 DEF vars, DataOK, ThreadsOK
  <2> QED BY <2>1, CallType, ProceedType DEF Next
<1>3. DataOK /\ ThreadsOK => NssTypeOK
  BY TypeParts
<1> QED BY <1>1, <1>2, <1>3, PTL DEF Spec

-----------------------------------------------------------------------------
(* The once-only state. *)

(* An initialisation that succeeds leaves the files private. *)
LEMMA OutcomePrivate ==
  ASSUME NEW h \in HostRecs, NEW o \in Outcomes(h)
  PROVE  /\ o.cache \in Files
         /\ o.state = "ready" =>
              /\ PrivateTo(h.token, h.euid)
              /\ ~h.memory => h.euid = Root /\ PrivateTo(o.cache, Root)
<1> DEFINE c == Created(h.cache, h.euid)
<1>1. h.cache \in Files /\ h.euid \in Nat /\ h.token \in Files
  BY DEF HostRecs
<1>2. c \in Files /\ c.kind # "absent"
  BY <1>1 DEF Created, File, Files, Mode644
<1>3. c.mode \in Nat /\ c.uid \in Nat
  BY <1>2 DEF Files
<1>4. [c EXCEPT !.mode = Mode600] \in Files
  BY <1>2 DEF Files, Mode600
<1>5. o.cache \in Files
  BY <1>1, <1>2, <1>4 DEF Outcomes
<1>6. ASSUME o.state = "ready", ~h.memory
      PROVE  /\ Readable(c, h.euid) /\ harden_cache_file(c, h.euid)
             /\ o.cache = [c EXCEPT !.mode = Mode600]
  BY <1>6 DEF Outcomes
<1>6a. ASSUME o.state = "ready" PROVE load_from(h)
  BY <1>6a DEF Outcomes
<1> HIDE DEF c
<1>7. ASSUME o.state = "ready", ~h.memory PROVE h.euid = Root
  <2>1. c.uid = Root /\ (c.mode % 512 # Mode600 => h.euid = Root)
    BY <1>6, <1>7 DEF harden_cache_file
  <2>2. h.euid = Root \/ (c.mode \div 4) % 2 = 1
    BY <1>6, <1>7, <2>1 DEF Readable
  <2>3. c.mode % 512 = 384 => (c.mode \div 4) % 2 = 0
    BY <1>3
  <2> QED BY <2>1, <2>2, <2>3 DEF Mode600
<1>8. ASSUME o.state = "ready" PROVE PrivateTo(h.token, h.euid)
  <2>1. h.token.mode \in Nat
    BY <1>1 DEF Files
  <2>2. /\ h.token.kind = "file" /\ h.token.mode % 64 = 0
        /\ h.euid = Root => h.token.uid = Root
        /\ Readable(h.token, h.euid)
    BY <1>6a, <1>8 DEF load_from, check_secret_file_permissions
  <2>3. (h.token.mode \div 4) % 2 # 1
    BY <2>1, <2>2
  <2>4. h.euid # Root => h.token.uid = h.euid
    BY <2>2, <2>3 DEF Readable
  <2> QED BY <2>2, <2>4 DEF PrivateTo
<1>9. ASSUME o.state = "ready", ~h.memory PROVE PrivateTo(o.cache, Root)
  <2>1. c.kind = "file" /\ c.uid = Root
    BY <1>6, <1>9 DEF harden_cache_file
  <2>2. o.cache.kind = c.kind /\ o.cache.uid = c.uid /\ o.cache.mode = 384
    BY <1>2, <1>6, <1>9 DEF Files, Mode600
  <2> QED BY <2>1, <2>2 DEF PrivateTo
<1> QED BY <1>5, <1>7, <1>8, <1>9

HostInv == STATE_ \in {"unset", "ready", "failed"} /\ host \in HostRecs /\ ReadyIsPrivate

LEMMA GetStatePrivate == ASSUME HostInv, get_state PROVE HostInv'
<1>1. CASE STATE_ # "unset"
  BY <1>1 DEF get_state, HostInv, ReadyIsPrivate
<1>2. CASE STATE_ = "unset"
  <2>1. PICK o \in Outcomes(host) : STATE_' = o.state /\ host' = [host EXCEPT !.cache = o.cache]
    BY <1>2 DEF get_state
  <2>2. o.state \in {"ready", "failed"}
    BY DEF Outcomes
  <2>3. host \in HostRecs
    BY DEF HostInv
  <2>4. o.cache \in Files
    BY <2>3, OutcomePrivate
  <2>5. /\ host' \in HostRecs /\ host'.euid = host.euid /\ host'.token = host.token
        /\ host'.memory = host.memory /\ host'.cache = o.cache
    BY <2>1, <2>3, <2>4 DEF HostRecs
  <2>6. ReadyIsPrivate'
    <3>1. ASSUME o.state = "ready"
          PROVE  /\ PrivateTo(host.token, host.euid)
                 /\ ~host.memory => host.euid = Root /\ PrivateTo(o.cache, Root)
      BY <2>3, <3>1, OutcomePrivate
    <3> QED BY <2>1, <2>5, <3>1 DEF ReadyIsPrivate
  <2> QED BY <2>1, <2>2, <2>5, <2>6 DEF HostInv
<1> QED BY <1>1, <1>2

(* Only get_state touches the state and the files. *)
LEMMA StateSteps == ASSUME NEW t \in Threads, Call(t) \/ Proceed(t)
                    PROVE  get_state \/ UNCHANGED <<STATE_, host>>
<1>1. CASE Call(t)
  BY <1>1 DEF Call, SetEnt, NotBegun, AtEnd, EndEnt, GetEnt, Lookup, BadName, Initgroups,
              InitgroupsAgain, Begin
<1>2. CASE Proceed(t)
  BY <1>2 DEF Proceed, ListFails, Listed, Acquire, Convert, Unlock, Install, ServiceFails,
              LookedUp, GroupsFound, AppendGid, ArrayFull, AllAppended
<1> QED BY <1>1, <1>2

(* Whatever a process finds at its start, if its initialisation succeeds   *)
(* then its token file is its own and private, and unless its cache is in  *)
(* memory it runs as root and its cache file is root's and private         *)
(* (config.rs, check_secret_file_permissions; cache.rs, open and           *)
(* harden_cache_file).                                                     *)
THEOREM ReadyPrivate == Spec => []ReadyIsPrivate
<1>1. Init => HostInv
  BY NssAssumption DEF Init, HostInv, ReadyIsPrivate
<1>2. HostInv /\ [Next]_vars => HostInv'
  <2> SUFFICES ASSUME HostInv, [Next]_vars PROVE HostInv'
    OBVIOUS
  <2>1. CASE UNCHANGED <<STATE_, host>>
    BY <2>1 DEF HostInv, ReadyIsPrivate
  <2>2. CASE get_state
    BY <2>2, GetStatePrivate
  <2> QED BY <2>1, <2>2, StateSteps DEF Next, vars
<1>3. HostInv => ReadyIsPrivate
  BY DEF HostInv
<1> QED BY <1>1, <1>2, <1>3, PTL DEF Spec

-----------------------------------------------------------------------------
(* The buffers. *)

(* fill_passwd_buf succeeds exactly if the five strings and their NULs     *)
(* fit, for every entry and every buffer (passwd.rs, write_str).           *)
THEOREM PasswdFilledIfItFits ==
  ASSUME NEW user, user.name \in Nat, user.gecos \in Nat, user.home \in Nat, user.shell \in Nat,
         NEW buflen \in Nat
  PROVE  fill_passwd_buf(user, buflen) =
           IF PasswdNeeds(user) <= buflen THEN "Success" ELSE "TryAgain"
<1>1. ASSUME NEW offset \in Nat \cup {TooSmall}, NEW len \in Nat
      PROVE  write_str(buflen, offset, len) =
               IF offset # TooSmall /\ offset + len + 1 <= buflen THEN offset + len + 1
                                                                  ELSE TooSmall
  BY DEF write_str, TooSmall
<1> QED BY <1>1 DEF fill_passwd_buf, PasswdNeeds, buffer_too_small, write_str, TooSmall

(* Induction over the naturals, for a set: it goes through the least       *)
(* natural outside the set.                                                *)
LEMMA SetInduction ==
  ASSUME NEW S, 0 \in S, \A m \in Nat : m \in S => m + 1 \in S
  PROVE  \A m \in Nat : m \in S
<1> SUFFICES ASSUME NEW x \in Nat, x \notin S PROVE FALSE
  OBVIOUS
<1> DEFINE Bad == Nat \ S
           Less == OpToRel(<, Nat)
<1>1. PICK m \in Bad : \A p \in Bad : ~(<<p, m>> \in Less)
  BY NatLessThanWellFounded, WFMin
<1>2. ASSUME NEW p \in Nat, NEW r \in Nat, p < r PROVE <<p, r>> \in Less
  BY <1>2 DEF OpToRel
<1> HIDE DEF Less
<1>3. m # 0 /\ m - 1 \in Nat /\ m - 1 < m
  BY <1>1
<1>4. m - 1 \in S
  <2>1. <<m - 1, m>> \in Less
    BY <1>2, <1>3
  <2> QED BY <1>1, <1>3, <2>1
<1>5. (m - 1) + 1 \in S /\ (m - 1) + 1 = m
  BY <1>3, <1>4
<1> QED BY <1>1, <1>5

(* What FoldLeft computes is a function of the sets of indices: f folds h  *)
(* over the elements of q with the indices in T, the largest index last.   *)
IsFold(f, T, A, base, h, q) ==
  /\ f \in [SUBSET T -> A]
  /\ \A s \in SUBSET T :
       f[s] = IF s = {} THEN base ELSE h[<<f[s \ {Max(s)}], q[Max(s)]>>]

(* The maximum of a set, and that there is one. *)
LEMMA MaxIs ==
  ASSUME NEW s, NEW m \in s, s \subseteq Int, \A y \in s : y <= m
  PROVE  Max(s) = m
<1>1. m \in Int /\ \A y \in s : m >= y
  OBVIOUS
<1>2. \A x \in s : (\A y \in s : x >= y) => x = m
  BY <1>1
<1> QED BY <1>1, <1>2 DEF Max

LEMMA MaxIn ==
  ASSUME NEW n \in Nat, NEW s \in SUBSET (1..n), s # {}
  PROVE  Max(s) \in s
<1> DEFINE S == {m \in Nat : \A r \in SUBSET (1..m) : r # {} => Max(r) \in r}
<1>1. 0 \in S
  <2>1. \A r \in SUBSET (1..0) : r = {}
    OBVIOUS
  <2> QED BY <2>1
<1>2. ASSUME NEW m \in Nat, m \in S PROVE m + 1 \in S
  <2> SUFFICES ASSUME NEW r \in SUBSET (1..(m + 1)), r # {} PROVE Max(r) \in r
    OBVIOUS
  <2>1. CASE m + 1 \in r
    <3>1. r \subseteq Int /\ \A y \in r : y <= m + 1
      OBVIOUS
    <3> QED BY <2>1, <3>1, MaxIs
  <2>2. CASE m + 1 \notin r
    <3>1. r \in SUBSET (1..m)
      BY <2>2
    <3> QED BY <1>2, <3>1
  <2> QED BY <2>1, <2>2
<1>3. n \in S
  BY <1>1, <1>2, SetInduction
<1> QED BY <1>3

(* There is such a function: it is extended by one index at a time. *)
LEMMA FoldExists ==
  ASSUME NEW A, NEW base \in A, NEW B, NEW h \in [A \X B -> A],
         NEW n \in Nat, NEW q, \A i \in 1..n : q[i] \in B
  PROVE  \E f : IsFold(f, 1..n, A, base, h, q)
<1> DEFINE S == {m \in Nat : m <= n => \E f : IsFold(f, 1..m, A, base, h, q)}
<1>1. 0 \in S
  <2>1. 1..0 = {} /\ SUBSET (1..0) = {{}}
    OBVIOUS
  <2>2. IsFold([s \in SUBSET (1..0) |-> base], 1..0, A, base, h, q)
    BY <2>1 DEF IsFold
  <2> QED BY <2>2
<1>2. ASSUME NEW m \in Nat, m \in S PROVE m + 1 \in S
  <2>1. SUFFICES ASSUME m + 1 <= n PROVE \E f : IsFold(f, 1..(m + 1), A, base, h, q)
    OBVIOUS
  <2>2. PICK f : IsFold(f, 1..m, A, base, h, q)
    BY <1>2, <2>1
  <2> DEFINE k == m + 1
             g == [s \in SUBSET (1..k) |->
                     IF k \in s THEN h[<<f[s \ {k}], q[k]>>] ELSE f[s]]
  <2>3. k \in 1..n /\ q[k] \in B
    BY <2>1
  <2>4. \A s \in SUBSET (1..k) : /\ s \ {k} \in SUBSET (1..m)
                                 /\ k \notin s => s \in SUBSET (1..m)
    OBVIOUS
  <2>5. g \in [SUBSET (1..k) -> A]
    BY <2>2, <2>3, <2>4 DEF IsFold
  <2>6. ASSUME NEW s \in SUBSET (1..k)
        PROVE  g[s] = IF s = {} THEN base ELSE h[<<g[s \ {Max(s)}], q[Max(s)]>>]
    <3>1. CASE k \in s
      <4>0. s \subseteq Int /\ \A y \in s : y <= k
        OBVIOUS
      <4>1. Max(s) = k
        BY <3>1, <4>0, MaxIs
      <4>2. s \ {k} \in SUBSET (1..k) /\ k \notin s \ {k}
        OBVIOUS
      <4>3. g[s \ {k}] = f[s \ {k}]
        BY <4>2
      <4> QED BY <3>1, <4>1, <4>3
    <3>2. CASE k \notin s
      <4>1. g[s] = f[s] /\ s \in SUBSET (1..m) /\ k \notin s \ {Max(s)} /\ s \ {Max(s)} \in SUBSET (1..k)
        BY <2>4, <3>2
      <4>2. g[s \ {Max(s)}] = f[s \ {Max(s)}]
        BY <4>1
      <4>3. f[s] = IF s = {} THEN base ELSE h[<<f[s \ {Max(s)}], q[Max(s)]>>]
        BY <2>2, <4>1 DEF IsFold
      <4> QED BY <4>1, <4>2, <4>3
    <3> QED BY <3>1, <3>2
  <2>7. IsFold(g, 1..k, A, base, h, q)
    BY <2>5, <2>6 DEF IsFold
  <2> QED BY <2>7
<1>3. n \in S
  BY <1>1, <1>2, SetInduction
<1> QED BY <1>3

(* A fold over the first k elements applies h to the kth last. *)
LEMMA PrefixMax ==
  ASSUME NEW n \in Nat, NEW k \in 1..n, NEW p, p = 1..k
  PROVE  /\ p \in SUBSET (1..n) /\ p # {}
         /\ Max(p) = k
         /\ p \ {k} = 1..(k - 1)
<1>1. k \in p /\ p \subseteq Int /\ \A y \in p : y <= k
  OBVIOUS
<1>2. Max(p) = k
  BY <1>1, MaxIs
<1>3. p \ {k} = 1..(k - 1)
  OBVIOUS
<1>4. p \subseteq 1..n
  OBVIOUS
<1> QED BY <1>1, <1>2, <1>3, <1>4

(* The two folds of NssBuffer: the offset after strings have been written, *)
(* and the bytes that the members take.                                    *)
Written(b, q) == FoldLeft(LAMBDA offset, len : write_str(b, offset, len), 0, q)
Taken(q) == FoldLeft(LAMBDA n, len : n + len + 1, 0, q)

(* What FoldLeft computes when strings are written: the offsets after the  *)
(* prefixes of the sequence, each from the one before.                     *)
LEMMA FoldWrite ==
  ASSUME NEW b \in Nat, NEW q \in Seq(Nat)
  PROVE  \E off : /\ off[0] = 0
                  /\ \A k \in 1..Len(q) : off[k] = write_str(b, off[k - 1], q[k])
                  /\ Written(b, q) = off[Len(q)]
<1> DEFINE n == Len(q)
           h == [p \in Int \X Nat |-> write_str(b, p[1], p[2])]
<1>1. n \in Nat /\ DOMAIN q = 1..n /\ \A i \in 1..n : q[i] \in Nat
  OBVIOUS
<1>2. h \in [Int \X Nat -> Int] /\ 0 \in Int
  BY DEF write_str, TooSmall
<1>3. PICK f : IsFold(f, 1..n, Int, 0, h, q)
  <2> HIDE DEF h, n
  <2> QED BY <1>1, <1>2, FoldExists
<1>4. ASSUME NEW s \in SUBSET (1..n), s # {}
      PROVE  h[<<f[s \ {Max(s)}], q[Max(s)]>>] = write_str(b, f[s \ {Max(s)}], q[Max(s)])
  <2>1. Max(s) \in 1..n /\ s \ {Max(s)} \in SUBSET (1..n)
    BY <1>1, <1>4, MaxIn
  <2>2. f[s \ {Max(s)}] \in Int /\ q[Max(s)] \in Nat
    BY <1>1, <1>3, <2>1 DEF IsFold
  <2> QED BY <2>2
<1>5. f = [s \in SUBSET DOMAIN q |->
             IF s = {} THEN 0 ELSE write_str(b, f[s \ {Max(s)}], q[Max(s)])]
  BY <1>1, <1>3, <1>4 DEF IsFold
<1>6. PICK g : /\ g = [s \in SUBSET DOMAIN q |->
                         IF s = {} THEN 0 ELSE write_str(b, g[s \ {Max(s)}], q[Max(s)])]
               /\ Written(b, q) = g[DOMAIN q]
  BY <1>5, Zenon DEF Written, FoldLeft, MapThenFoldSet
<1> DEFINE off == [k \in 0..n |-> g[1..k]]
<1>7. off[0] = 0
  <2>1. 1..0 = {} /\ {} \in SUBSET (1..n) /\ 0 \in 0..n
    BY <1>1
  <2> QED BY <1>1, <1>6, <2>1
<1>8. ASSUME NEW k \in 1..n PROVE off[k] = write_str(b, off[k - 1], q[k])
  <2>1. PICK p : p = 1..k
    OBVIOUS
  <2>2. p \in SUBSET (1..n) /\ p # {} /\ Max(p) = k /\ p \ {k} = 1..(k - 1)
    BY <1>1, <2>1, PrefixMax
  <2>3. k \in 0..n /\ k - 1 \in 0..n
    BY <1>1
  <2>4. g[p] = write_str(b, g[p \ {k}], q[k])
    BY <1>1, <1>6, <2>2
  <2>5. off[k] = g[p] /\ off[k - 1] = g[1..(k - 1)]
    BY <2>1, <2>3
  <2> HIDE DEF off
  <2> QED BY <2>2, <2>4, <2>5
<1>9. off[n] = g[DOMAIN q]
  BY <1>1
<1> HIDE DEF off
<1> QED BY <1>6, <1>7, <1>8, <1>9

(* The same for the bytes that the members take. *)
LEMMA FoldSum ==
  ASSUME NEW q \in Seq(Nat)
  PROVE  \E off : /\ off[0] = 0
                  /\ \A k \in 1..Len(q) : off[k] = off[k - 1] + q[k] + 1
                  /\ Taken(q) = off[Len(q)]
<1> DEFINE n == Len(q)
           h == [p \in Int \X Nat |-> p[1] + p[2] + 1]
<1>1. n \in Nat /\ DOMAIN q = 1..n /\ \A i \in 1..n : q[i] \in Nat
  OBVIOUS
<1>2. h \in [Int \X Nat -> Int] /\ 0 \in Int
  OBVIOUS
<1>3. PICK f : IsFold(f, 1..n, Int, 0, h, q)
  <2> HIDE DEF h, n
  <2> QED BY <1>1, <1>2, FoldExists
<1>4. ASSUME NEW s \in SUBSET (1..n), s # {}
      PROVE  h[<<f[s \ {Max(s)}], q[Max(s)]>>] = f[s \ {Max(s)}] + q[Max(s)] + 1
  <2>1. Max(s) \in 1..n /\ s \ {Max(s)} \in SUBSET (1..n)
    BY <1>1, <1>4, MaxIn
  <2>2. f[s \ {Max(s)}] \in Int /\ q[Max(s)] \in Nat
    BY <1>1, <1>3, <2>1 DEF IsFold
  <2> QED BY <2>2
<1>5. f = [s \in SUBSET DOMAIN q |->
             IF s = {} THEN 0 ELSE f[s \ {Max(s)}] + q[Max(s)] + 1]
  BY <1>1, <1>3, <1>4 DEF IsFold
<1>6. PICK g : /\ g = [s \in SUBSET DOMAIN q |->
                         IF s = {} THEN 0 ELSE g[s \ {Max(s)}] + q[Max(s)] + 1]
               /\ Taken(q) = g[DOMAIN q]
  BY <1>5, Zenon DEF Taken, FoldLeft, MapThenFoldSet
<1> DEFINE off == [k \in 0..n |-> g[1..k]]
<1>7. off[0] = 0
  <2>1. 1..0 = {} /\ {} \in SUBSET (1..n) /\ 0 \in 0..n
    BY <1>1
  <2> QED BY <1>1, <1>6, <2>1
<1>8. ASSUME NEW k \in 1..n PROVE off[k] = off[k - 1] + q[k] + 1
  <2>1. PICK p : p = 1..k
    OBVIOUS
  <2>2. p \in SUBSET (1..n) /\ p # {} /\ Max(p) = k /\ p \ {k} = 1..(k - 1)
    BY <1>1, <2>1, PrefixMax
  <2>3. k \in 0..n /\ k - 1 \in 0..n
    BY <1>1
  <2>4. g[p] = g[p \ {k}] + q[k] + 1
    BY <1>1, <1>6, <2>2
  <2>5. off[k] = g[p] /\ off[k - 1] = g[1..(k - 1)]
    BY <2>1, <2>3
  <2> HIDE DEF off
  <2> QED BY <2>2, <2>4, <2>5
<1>9. off[n] = g[DOMAIN q]
  BY <1>1
<1> HIDE DEF off
<1> QED BY <1>6, <1>7, <1>8, <1>9

(* Rounding up to the next multiple of the pointer size. *)
LEMMA AlignedUp ==
  ASSUME NEW n \in Nat
  PROVE  Aligned(n) = Pointer * ((n + Pointer - 1) \div Pointer)
  BY Z3 DEF Aligned, Pointer

(* The strings of a group fit exactly if their sum does: each of them is   *)
(* checked on its own, and nothing is written after one that did not fit.  *)
LEMMA GroupStrings ==
  ASSUME NEW name \in Nat, NEW members \in Seq(Nat), NEW b \in Nat
  PROVE  \E total \in Nat :
           /\ Taken(members) \in Nat /\ total = name + 3 + Taken(members)
           /\ Written(b, <<name, 1>> \o members)
                = IF total <= b THEN total ELSE TooSmall
<1> DEFINE q == <<name, 1>> \o members
           m == Len(members)
<1>1. /\ m \in Nat /\ q \in Seq(Nat) /\ Len(q) = m + 2
      /\ q[1] = name /\ q[2] = 1 /\ \A k \in 1..m : members[k] \in Nat /\ q[k + 2] = members[k]
  OBVIOUS
<1>2. PICK sum : /\ sum[0] = 0
                 /\ \A k \in 1..m : sum[k] = sum[k - 1] + members[k] + 1
                 /\ Taken(members) = sum[m]
  BY FoldSum
<1> HIDE DEF q
<1>3. PICK off : /\ off[0] = 0
                 /\ \A k \in 1..Len(q) : off[k] = write_str(b, off[k - 1], q[k])
                 /\ Written(b, q) = off[Len(q)]
  BY <1>1, FoldWrite
<1> HIDE DEF m
<1> DEFINE total(k) == name + 3 + sum[k]
           S == {k \in Nat : k <= m =>
                   /\ sum[k] \in Nat
                   /\ off[k + 2] = IF total(k) <= b THEN total(k) ELSE TooSmall}
<1>4. 0 \in S
  <2>1. 1 \in 1..(m + 2) /\ 2 \in 1..(m + 2)
    BY <1>1
  <2>0. 1 - 1 = 0 /\ 2 - 1 = 1
    OBVIOUS
  <2>2. off[1] = write_str(b, off[1 - 1], q[1]) /\ off[2] = write_str(b, off[2 - 1], q[2])
    BY <1>1, <1>3, <2>1
  <2>3. off[1] = write_str(b, 0, name) /\ off[2] = write_str(b, off[1], 1)
    BY <1>1, <1>3, <2>0, <2>2
  <2>4. off[2] = IF name + 3 <= b THEN name + 3 ELSE TooSmall
    BY <2>3 DEF write_str, TooSmall
  <2>5. 0 + 2 = 2 /\ total(0) = name + 3 /\ sum[0] \in Nat
    BY <1>2
  <2> QED BY <2>4, <2>5
<1>5. ASSUME NEW k \in Nat, k \in S PROVE k + 1 \in S
  <2> SUFFICES ASSUME k + 1 <= m
               PROVE  /\ sum[k + 1] \in Nat
                      /\ off[(k + 1) + 2] = IF total(k + 1) <= b THEN total(k + 1) ELSE TooSmall
    OBVIOUS
  <2>1. k + 1 \in 1..m /\ k + 3 \in 1..(m + 2) /\ (k + 1) - 1 = k /\ (k + 3) - 1 = k + 2 /\ (k + 1) + 2 = k + 3
    BY <1>1
  <2>2. sum[k + 1] = sum[k] + members[k + 1] + 1 /\ members[k + 1] \in Nat
    BY <1>1, <1>2, <2>1
  <2>3. q[k + 3] = members[k + 1]
    BY <1>1, <2>1
  <2>4. off[k + 3] = write_str(b, off[k + 2], members[k + 1])
    BY <1>1, <1>3, <2>1, <2>3
  <2>5. sum[k] \in Nat /\ off[k + 2] = IF total(k) <= b THEN total(k) ELSE TooSmall
    BY <1>1, <1>5
  <2>6. sum[k + 1] \in Nat
    BY <2>2, <2>5
  <2>7. off[k + 3] = IF total(k + 1) <= b THEN total(k + 1) ELSE TooSmall
    <3> DEFINE now == total(k)
               len == members[k + 1]
    <3>0. \A x, y \in Nat : /\ name + 3 + (x + y + 1) = name + 3 + x + (y + 1)
                            /\ name + 3 + x \in Nat
      OBVIOUS
    <3>1. total(k + 1) = now + (len + 1) /\ now \in Nat /\ len \in Nat
      BY <2>2, <2>5, <3>0, Zenon
    <3>2. /\ off[k + 3] = write_str(b, off[k + 2], len)
          /\ off[k + 2] = IF now <= b THEN now ELSE TooSmall
      BY <2>4, <2>5
    <3> HIDE DEF total, now, len
    <3> QED BY <3>1, <3>2 DEF write_str, TooSmall
  <2> QED BY <2>1, <2>6, <2>7
<1>6. m \in S
  BY <1>1, <1>4, <1>5, SetInduction
<1>7. sum[m] \in Nat /\ off[m + 2] = IF total(m) <= b THEN total(m) ELSE TooSmall
  BY <1>1, <1>6
<1>8. total(m) \in Nat /\ Taken(members) \in Nat /\ total(m) = name + 3 + Taken(members)
  BY <1>2, <1>7
<1>9. Written(b, <<name, 1>> \o members)
        = IF total(m) <= b THEN total(m) ELSE TooSmall
  BY <1>1, <1>3, <1>7 DEF q
<1> HIDE DEF total
<1> QED BY <1>8, <1>9

(* fill_group_buf succeeds exactly if the name, the password, all members  *)
(* and, after the alignment, the pointers to them fit, for every group     *)
(* with any number of members and every buffer (group.rs, write_str).      *)
THEOREM GroupFilledIfItFits ==
  ASSUME NEW grp \in [name : Nat, members : Seq(Nat)], NEW buflen \in Nat
  PROVE  fill_group_buf(grp, buflen) =
           IF GroupNeeds(grp) <= buflen THEN "Success" ELSE "TryAgain"
<1>1. grp.name \in Nat /\ grp.members \in Seq(Nat) /\ Len(grp.members) \in Nat
  OBVIOUS
<1>2. PICK total \in Nat :
        /\ Taken(grp.members) \in Nat /\ total = grp.name + 3 + Taken(grp.members)
        /\ Written(buflen, <<grp.name, 1>> \o grp.members)
             = IF total <= buflen THEN total ELSE TooSmall
  BY <1>1, GroupStrings
<1> DEFINE strings == Written(buflen, <<grp.name, 1>> \o grp.members)
           ptrs == (Len(grp.members) + 1) * Pointer
<1>3. fill_group_buf(grp, buflen) =
        IF strings = TooSmall \/ Aligned(strings) + ptrs > buflen THEN "TryAgain" ELSE "Success"
  BY Zenon DEF fill_group_buf, Written, buffer_too_small
<1>4. GroupNeeds(grp) =
        LET n == (grp.name + 1) + 2 + Taken(grp.members)
        IN  Pointer * ((n + Pointer - 1) \div Pointer) + Pointer * (Len(grp.members) + 1)
  BY Zenon DEF GroupNeeds, Taken
<1> DEFINE room == Pointer * ((total + Pointer - 1) \div Pointer)
<1>5. GroupNeeds(grp) = room + ptrs
  <2>1. (grp.name + 1) + 2 + Taken(grp.members) = total
    BY <1>1, <1>2
  <2>2. Pointer * (Len(grp.members) + 1) = ptrs
    BY <1>1 DEF Pointer
  <2> QED BY <1>4, <2>1, <2>2
<1>6. Aligned(total) = room /\ total <= room /\ room \in Nat /\ ptrs \in Nat
  BY <1>1, AlignedUp DEF Pointer
<1> HIDE DEF room, ptrs
<1>7. CASE total <= buflen
  <2>1. strings = total /\ strings # TooSmall
    BY <1>2, <1>7 DEF TooSmall
  <2> HIDE DEF strings
  <2> QED BY <1>3, <1>5, <1>6, <2>1
<1>8. CASE ~(total <= buflen)
  <2>1. strings = TooSmall
    BY <1>2, <1>8
  <2> HIDE DEF strings
  <2> QED BY <1>3, <1>5, <1>6, <1>8, <2>1
<1> QED BY <1>7, <1>8

LEMMA FillFits ==
  ASSUME NEW d \in Dbs, NEW e \in Entries, NEW buflen \in Nat
  PROVE  LET s == Strings[d][e]
             needs == IF d = "passwd" THEN PasswdNeeds(s) ELSE GroupNeeds(s)
         IN  Fill(d, e, buflen) = IF needs <= buflen THEN "Success" ELSE "TryAgain"
<1> DEFINE s == Strings[d][e]
<1>1. CASE d = "passwd"
  <2>1. s \in [name : Nat, gecos : Nat, home : Nat, shell : Nat]
    BY <1>1, StringsAssumption
  <2>2. s.name \in Nat /\ s.gecos \in Nat /\ s.home \in Nat /\ s.shell \in Nat
    BY <2>1
  <2> HIDE DEF s
  <2>3. fill_passwd_buf(s, buflen) = IF PasswdNeeds(s) <= buflen THEN "Success" ELSE "TryAgain"
    BY <2>2, PasswdFilledIfItFits
  <2> QED BY <1>1, <2>3 DEF Fill, s
<1>2. CASE d = "group"
  <2>1. s \in [name : Nat, members : Seq(Nat)]
    BY <1>2, StringsAssumption
  <2> HIDE DEF s
  <2>2. fill_group_buf(s, buflen) = IF GroupNeeds(s) <= buflen THEN "Success" ELSE "TryAgain"
    BY <2>1, GroupFilledIfItFits
  <2> QED BY <1>2, <2>2 DEF Fill, s
<1> QED BY <1>1, <1>2 DEF Dbs

(* A step that returns an entry has filled its buffer. *)
LEMMA ReturnFits ==
  ASSUME NEW t, NEW c, NEW e \in Entries, c.db \in Dbs, c.buflen \in Nat,
         Return(t, c, Fill(c.db, e, c.buflen), e)
  PROVE  FilledIfItFits'
<1> DEFINE d == c.db
           b == c.buflen
<1>1. returned'.db = d /\ returned'.entry = e /\ returned'.buflen = b
      /\ returned'.status = Fill(d, e, b)
  BY DEF Return
<1> HIDE DEF d, b
<1>2. d \in Dbs /\ b \in Nat
  BY DEF d, b
<1> QED BY <1>1, <1>2, FillFits DEF FilledIfItFits

LEMMA ReturnNothing ==
  ASSUME NEW t, (\E c, status : Return(t, c, status, Nobody)) \/ returned' = NoReturn
  PROVE  FilledIfItFits'
  BY DEF Return, NoReturn, FilledIfItFits

LEMMA FilledStep ==
  ASSUME DataOK, ThreadsOK, NEW t \in Threads, Call(t) \/ Proceed(t)
  PROVE  FilledIfItFits'
<1>1. ASSUME NEW d \in Dbs, NEW buflen \in BufLens, GetEnt(t, d, buflen) PROVE FilledIfItFits'
  <2> DEFINE e == ENUM[d].list[ENUM[d].idx + 1]
             c == [fn |-> "getent", db |-> d, buflen |-> buflen]
  <2>1. /\ ENUM[d].list \in Seq(Entries) /\ ENUM[d].idx \in Nat
        /\ ENUM[d].idx < Len(ENUM[d].list)
    BY <1>1 DEF GetEnt, DataOK, EnumRecs
  <2>2. e \in Entries /\ c.db = d /\ c.buflen = buflen /\ buflen \in Nat
    BY <2>1, NssAssumption
  <2>3. Return(t, c, Fill(d, e, buflen), e)
    BY <1>1 DEF GetEnt
  <2> HIDE DEF e, c
  <2> QED BY <2>2, <2>3, ReturnFits
<1>2. ASSUME NEW e \in Entries \cup {Nobody}, LookedUp(t, e) PROVE FilledIfItFits'
  <2>1. CASE e = Nobody
    BY <1>2, <2>1, ReturnNothing DEF LookedUp
  <2>2. CASE e \in Entries
    <3>1. call[t].db \in Dbs /\ call[t].buflen \in Nat
      <4>1. at[t] = "service" /\ call[t] \in CallRecs
        BY <1>2 DEF LookedUp, ThreadsOK
      <4>2. call[t].db \in Dbs
        BY <4>1 DEF ThreadsOK
      <4>3. call[t].buflen \in BufLens \cup {0}
        BY <4>1 DEF CallRecs
      <4>4. BufLens \cup {0} \subseteq Nat
        BY NssAssumption
      <4> QED BY <4>2, <4>3, <4>4
    <3>2. Return(t, call[t], Fill(call[t].db, e, call[t].buflen), e)
      BY <1>2, <2>2, NssAssumption DEF LookedUp
    <3>3. PICK c : c = call[t]
      OBVIOUS
    <3> QED BY <2>2, <3>1, <3>2, <3>3, ReturnFits
  <2> QED BY <2>1, <2>2
<1>3. ASSUME NEW c, NEW place, Begin(t, c, place) PROVE FilledIfItFits'
  BY <1>3, ReturnNothing DEF Begin, GoOn
<1>4. ASSUME NEW d \in Dbs, SetEnt(t, d) \/ NotBegun(t, d) \/ AtEnd(t, d) \/ EndEnt(t, d)
      PROVE  FilledIfItFits'
  <2>1. CASE SetEnt(t, d)
    BY <1>3, <2>1 DEF SetEnt
  <2>2. CASE NotBegun(t, d) \/ AtEnd(t, d) \/ EndEnt(t, d)
    BY <2>2, ReturnNothing DEF NotBegun, AtEnd, EndEnt
  <2> QED BY <1>4, <2>1, <2>2
<1>5. ASSUME NEW d \in Dbs, NEW buflen \in BufLens, Lookup(t, d, buflen) PROVE FilledIfItFits'
  BY <1>3, <1>5 DEF Lookup
<1>6. ASSUME NEW fn, NEW d, BadName(t, fn, d) PROVE FilledIfItFits'
  BY <1>6, ReturnNothing DEF BadName
<1>7. ASSUME NEW gids, NEW size, Initgroups(t, gids, size) PROVE FilledIfItFits'
  BY <1>3, <1>7 DEF Initgroups
<1>8. CASE InitgroupsAgain(t)
  BY <1>3, <1>8 DEF InitgroupsAgain
<1>9. CASE Call(t)
  BY <1>1, <1>4, <1>5, <1>6, <1>7, <1>8, <1>9 DEF Call
<1>10. CASE ListFails(t) \/ Install(t) \/ ServiceFails(t) \/ ArrayFull(t) \/ AllAppended(t)
  BY <1>10, ReturnNothing DEF ListFails, Install, ServiceFails, ArrayFull, AllAppended
<1>11. ASSUME NEW l, Listed(t, l) PROVE FilledIfItFits'
  BY <1>11, ReturnNothing DEF Listed, GoOn
<1>12. ASSUME NEW gids, GroupsFound(t, gids) PROVE FilledIfItFits'
  BY <1>12, ReturnNothing DEF GroupsFound, GoOn
<1>13. ASSUME NEW converted, Convert(t, converted) PROVE FilledIfItFits'
  BY <1>13, ReturnNothing DEF Convert
<1>14. CASE Acquire(t) \/ Unlock(t) \/ AppendGid(t)
  BY <1>14, ReturnNothing DEF Acquire, Unlock, AppendGid, GoOn
<1>15. CASE Proceed(t)
  BY <1>2, <1>10, <1>11, <1>12, <1>13, <1>14, <1>15 DEF Proceed
<1> QED BY <1>9, <1>15

(* Whoever asks, whatever is looked up or enumerated: a buffer is refused  *)
(* exactly if the entry does not fit into it, so that a caller that        *)
(* doubles its buffer is served (nss passwd.rs, fill_passwd_buf; group.rs, *)
(* fill_group_buf).                                                        *)
THEOREM NssFilledIfItFits == Spec => []FilledIfItFits
<1>1. Init => FilledIfItFits
  BY DEF Init, NoReturn, FilledIfItFits
<1>2. NssTypeOK /\ FilledIfItFits /\ [Next]_vars => FilledIfItFits'
  <2> SUFFICES ASSUME NssTypeOK, FilledIfItFits, [Next]_vars PROVE FilledIfItFits'
    OBVIOUS
  <2>1. CASE UNCHANGED vars
    BY <2>1 DEF vars, FilledIfItFits
  <2> QED BY <2>1, TypeParts, FilledStep DEF Next
<1> QED BY <1>1, <1>2, NssTypeCorrect, PTL DEF Spec

-----------------------------------------------------------------------------
(* The enumerations. *)

(* The cursor tells how much of the list has been given out. *)
Cursor(d) ==
  ENUM[d].some =>
    /\ ENUM[d].list = fetched[d]
    /\ ENUM[d].idx <= Len(fetched[d]) /\ Len(given[d]) = ENUM[d].idx
    /\ \A i \in 1..ENUM[d].idx : given[d][i] = fetched[d][i]
EnumInv == (\A d \in Dbs : Cursor(d)) /\ EnumerationExact

enumVars == <<ENUM, fetched, given>>

(* Steps that are not about an enumeration's cursor. *)
LEMMA EnumIdle ==
  ASSUME EnumInv, UNCHANGED enumVars, returned'.fn # "getent" \/ returned'.status # "NotFound"
  PROVE  EnumInv'
  BY DEF EnumInv, Cursor, EnumerationExact, enumVars

LEMMA EnumCall == ASSUME DataOK, EnumInv, NEW t \in Threads, Call(t) PROVE EnumInv'
<1>1. ASSUME NEW c, NEW place, Begin(t, c, place), c.fn # "getent" PROVE EnumInv'
  BY <1>1, EnumIdle DEF Begin, GoOn, Return, NoReturn, enumVars
<1>2. ASSUME NEW d \in Dbs, NotBegun(t, d) PROVE EnumInv'
  BY <1>2, EnumIdle DEF NotBegun, Return, enumVars
<1>3. ASSUME NEW d \in Dbs, AtEnd(t, d) PROVE EnumInv'
  <2>1. /\ ENUM[d].some /\ ENUM[d].idx >= Len(ENUM[d].list) /\ UNCHANGED enumVars
        /\ returned'.db = d
    BY <1>3 DEF AtEnd, Return, enumVars
  <2>2. /\ given[d] \in Seq(Entries) /\ fetched[d] \in Seq(Entries)
        /\ ENUM[d].idx \in Nat
    BY DEF DataOK, EnumRecs
  <2>3. Cursor(d)
    BY DEF EnumInv
  <2>4. ENUM[d].idx = Len(fetched[d]) /\ Len(given[d]) = Len(fetched[d])
        /\ \A i \in 1..Len(fetched[d]) : given[d][i] = fetched[d][i]
    BY <2>1, <2>2, <2>3 DEF Cursor
  <2>5. given[d] = fetched[d]
    BY <2>2, <2>4
  <2> QED BY <2>1, <2>5 DEF EnumInv, Cursor, EnumerationExact, enumVars
<1>4. ASSUME NEW d \in Dbs, EndEnt(t, d) PROVE EnumInv'
  <2>1. /\ ENUM' = [ENUM EXCEPT ![d] = NoEnum] /\ UNCHANGED <<fetched, given>>
        /\ returned'.fn = "endent"
    BY <1>4 DEF EndEnt, Return
  <2>2. ENUM \in [Dbs -> EnumRecs]
    BY DEF DataOK
  <2> QED BY <2>1, <2>2 DEF EnumInv, Cursor, EnumerationExact, NoEnum
<1>5. ASSUME NEW fn \in {"lookup", "initgroups"}, NEW d, BadName(t, fn, d) PROVE EnumInv'
  BY <1>5, EnumIdle DEF BadName, Return, enumVars
<1>6. ASSUME NEW d \in Dbs, NEW buflen \in BufLens, GetEnt(t, d, buflen) PROVE EnumInv'
  <2> DEFINE e == ENUM[d].list[ENUM[d].idx + 1]
  <2>1. Fill(d, e, buflen) # "NotFound"
    BY DEF Fill, fill_passwd_buf, fill_group_buf, buffer_too_small
  <2>2. /\ returned'.status # "NotFound" /\ fetched' = fetched
        /\ ENUM[d].some /\ ENUM[d].idx < Len(ENUM[d].list)
        /\ \/ UNCHANGED <<ENUM, given>>
           \/ /\ ENUM' = [ENUM EXCEPT ![d].idx = @ + 1]
              /\ given' = [given EXCEPT ![d] = Append(@, e)]
    BY <1>6, <2>1 DEF GetEnt, Return
  <2>3. CASE UNCHANGED <<ENUM, given>>
    BY <2>2, <2>3, EnumIdle DEF enumVars
  <2>4. CASE /\ ENUM' = [ENUM EXCEPT ![d].idx = @ + 1]
             /\ given' = [given EXCEPT ![d] = Append(@, e)]
    <3>1. /\ ENUM \in [Dbs -> EnumRecs] /\ given \in [Dbs -> Seq(Entries)]
          /\ ENUM[d] \in EnumRecs /\ given[d] \in Seq(Entries) /\ fetched[d] \in Seq(Entries)
      BY DEF DataOK
    <3>2. Cursor(d)
      BY DEF EnumInv
    <3>3. /\ ENUM'[d].list = ENUM[d].list /\ ENUM'[d].idx = ENUM[d].idx + 1
          /\ given'[d] = Append(given[d], e) /\ ENUM[d].idx \in Nat
      BY <2>4, <3>1 DEF EnumRecs
    <3>4. e = fetched[d][ENUM[d].idx + 1]
      BY <2>2, <3>2 DEF Cursor
    <3>5. Cursor(d)'
      BY <2>2, <3>1, <3>2, <3>3, <3>4 DEF Cursor
    <3>6. \A x \in Dbs \ {d} : Cursor(x)'
      BY <2>2, <2>4, <3>1 DEF Cursor, EnumInv
    <3> QED BY <2>2, <3>5, <3>6 DEF EnumInv, EnumerationExact
  <2> QED BY <2>2, <2>3, <2>4
<1> QED BY <1>1, <1>2, <1>3, <1>4, <1>5, <1>6
       DEF Call, SetEnt, Lookup, Initgroups, InitgroupsAgain

LEMMA EnumProceed ==
  ASSUME DataOK, ThreadsOK, EnumInv, NEW t \in Threads, Proceed(t) PROVE EnumInv'
<1>1. call[t].fn # "getent"
  BY DEF ThreadsOK, CallRecs
<1>2. CASE Install(t)
  <2>0. PICK d \in Dbs : d = call[t].db
    BY <1>2 DEF Install, ThreadsOK
  <2>1. PICK l \in Seq(Entries) : l = work[t].done
    BY DEF DataOK, WorkRecs
  <2>2. /\ ENUM' = [ENUM EXCEPT ![d] = [some |-> TRUE, list |-> l, idx |-> 0]]
        /\ fetched' = [fetched EXCEPT ![d] = l]
        /\ given' = [given EXCEPT ![d] = <<>>]
        /\ returned'.fn # "getent"
    BY <1>1, <1>2, <2>0, <2>1 DEF Install, Return
  <2>3. /\ ENUM \in [Dbs -> EnumRecs] /\ given \in [Dbs -> Seq(Entries)]
        /\ fetched \in [Dbs -> Seq(Entries)]
    BY DEF DataOK
  <2>4. Cursor(d)'
    BY <2>1, <2>2, <2>3 DEF Cursor
  <2>5. \A x \in Dbs \ {d} : Cursor(x)'
    BY <2>2, <2>3 DEF Cursor, EnumInv
  <2> QED BY <2>2, <2>4, <2>5 DEF EnumInv, EnumerationExact
<1>3. CASE ~Install(t)
  <2>1. UNCHANGED enumVars /\ returned'.fn \in {"none", call[t].fn}
    <3>1. ASSUME \/ ListFails(t) \/ ServiceFails(t) \/ ArrayFull(t) \/ AllAppended(t)
                 \/ \E e \in Entries \cup {Nobody} : LookedUp(t, e)
          PROVE  UNCHANGED enumVars /\ returned'.fn = call[t].fn
      BY <3>1 DEF ListFails, ServiceFails, LookedUp, ArrayFull, AllAppended, Return, enumVars
    <3>2. ASSUME \/ Acquire(t) \/ Unlock(t) \/ AppendGid(t)
                 \/ \E l \in Lists : Listed(t, l)
                 \/ \E converted \in BOOLEAN : Convert(t, converted)
                 \/ \E gids \in GidLists : GroupsFound(t, gids)
          PROVE  UNCHANGED enumVars /\ returned' = NoReturn
      BY <3>2 DEF Listed, Acquire, Convert, Unlock, GroupsFound, AppendGid, GoOn, enumVars
    <3> QED BY <1>3, <3>1, <3>2 DEF Proceed, NoReturn
  <2> QED BY <1>1, <2>1, EnumIdle
<1> QED BY <1>2, <1>3

(* When get*ent_r reports the end, every entry that the last successful    *)
(* set*ent converted has been given out once and in order, for any number  *)
(* of threads, lists and buffers (nss ffi.rs, getpwent_r and getgrent_r).  *)
THEOREM EnumerationIsExact == Spec => []EnumerationExact
<1> DEFINE Inv == DataOK /\ ThreadsOK /\ EnumInv
<1>1. Init => Inv
  <2> SUFFICES ASSUME Init PROVE EnumInv
    BY InitType, TypeParts
  <2> QED BY DEF Init, EnumInv, Cursor, EnumerationExact, NoEnum, NoReturn
<1>2. Inv /\ [Next]_vars => Inv'
  <2> SUFFICES ASSUME Inv, [Next]_vars PROVE Inv'
    OBVIOUS
  <2>1. CASE UNCHANGED vars
    BY <2>1 DEF vars, DataOK, ThreadsOK, EnumInv, Cursor, EnumerationExact
  <2>2. ASSUME NEW t \in Threads, Call(t) PROVE Inv'
    BY <2>2, CallType, EnumCall
  <2>3. ASSUME NEW t \in Threads, Proceed(t) PROVE Inv'
    BY <2>3, ProceedType, EnumProceed
  <2> QED BY <2>1, <2>2, <2>3 DEF Next
<1>3. Inv => EnumerationExact
  BY DEF EnumInv
<1> QED BY <1>1, <1>2, <1>3, PTL DEF Spec

-----------------------------------------------------------------------------
(* The arrays of initgroups_dyn. *)

LEMMA AppendNew ==
  ASSUME NEW S, NEW s \in Seq(S), NEW x \in S
  PROVE  /\ ToSet(Append(s, x)) = ToSet(s) \cup {x}
         /\ x \notin ToSet(s) /\ IsInjective(s) => IsInjective(Append(s, x))
<1>1. /\ DOMAIN s = 1..Len(s) /\ DOMAIN Append(s, x) = 1..(Len(s) + 1) /\ Len(s) \in Nat
      /\ Append(s, x)[Len(s) + 1] = x
      /\ \A i \in 1..Len(s) : Append(s, x)[i] = s[i]
  OBVIOUS
<1>2. ToSet(Append(s, x)) = ToSet(s) \cup {x}
  BY <1>1 DEF ToSet
<1>3. ASSUME x \notin ToSet(s), IsInjective(s) PROVE IsInjective(Append(s, x))
  BY <1>1, <1>3 DEF IsInjective, ToSet
<1> QED BY <1>2, <1>3

LEMMA HeadOrTail ==
  ASSUME NEW S, NEW s \in Seq(S), s # <<>>
  PROVE  ToSet(s) \subseteq {Head(s)} \cup ToSet(Tail(s))
<1> SUFFICES ASSUME NEW i \in 1..Len(s), i # 1 PROVE s[i] \in ToSet(Tail(s))
  BY DEF ToSet
<1>1. i - 1 \in 1..Len(Tail(s)) /\ Tail(s)[i - 1] = s[i]
  OBVIOUS
<1>2. DOMAIN Tail(s) = 1..Len(Tail(s))
  OBVIOUS
<1> QED BY <1>1, <1>2 DEF ToSet

(* What an array holds: never more than its size, nothing twice, and, with *)
(* what is still to do, everything of the answer but the primary group.    *)
ArrayInv(t) ==
  /\ Len(array[t].gids) <= array[t].size
  /\ array[t].full => Len(array[t].gids) = array[t].size
  /\ IsInjective(array[t].gids)
  /\ at[t] = "append" =>
       ToSet(array[t].answer) \subseteq ToSet(array[t].gids) \cup ToSet(array[t].todo) \cup {Primary}
GroupsInv == (\A t \in Threads : ArrayInv(t)) /\ GroupsExact

(* What the other threads have stays. *)
Others(t) ==
  \A u \in Threads \ {t} : at'[u] = at[u] /\ call'[u] = call[u] /\ array'[u] = array[u]

LEMMA GroupsFromParts ==
  ASSUME GroupsInv, NEW t \in Threads, Others(t), ArrayInv(t)', GroupsExact'
  PROVE  GroupsInv'
  BY DEF GroupsInv, ArrayInv, Others

(* Steps of thread t that are not about its array. *)
LEMMA GroupsIdle ==
  ASSUME ThreadsOK, GroupsInv, NEW t \in Threads, NEW place \in Places \ {"append"},
         UNCHANGED array, at' = [at EXCEPT ![t] = place],
         \/ UNCHANGED call
         \/ \E c : c.fn # "initgroups" /\ call' = [call EXCEPT ![t] = c],
         returned'.fn # "initgroups" \/ returned'.status # "Success"
  PROVE  GroupsInv'
<1>1. at \in [Threads -> Places] /\ call \in [Threads -> CallRecs]
  BY DEF ThreadsOK
<1>2. Others(t)
  BY <1>1 DEF Others
<1>3. at'[t] # "append" /\ (call'[t].fn = "initgroups" => call[t].fn = "initgroups")
  BY <1>1
<1>4. ArrayInv(t)'
  BY <1>3 DEF GroupsInv, ArrayInv
<1> QED BY <1>2, <1>4, GroupsFromParts DEF GroupsExact

(* A function that begins: the array of an initgroups is in order. *)
LEMMA GroupsBegin ==
  ASSUME ThreadsOK, DataOK, GroupsInv, NEW t \in Threads, NEW a \in ArrayRecs,
         Begin(t, [fn |-> "initgroups", db |-> "group", buflen |-> 0], "lock"),
         array' = [array EXCEPT ![t] = a],
         Len(a.gids) <= a.size, ~a.full, IsInjective(a.gids)
  PROVE  GroupsInv'
<1>1. /\ at \in [Threads -> Places] /\ call \in [Threads -> CallRecs]
      /\ array \in [Threads -> ArrayRecs]
  BY DEF ThreadsOK, DataOK
<1>2. /\ at' \in {[at EXCEPT ![t] = "idle"], [at EXCEPT ![t] = "lock"]}
      /\ \E c : call' = [call EXCEPT ![t] = c]
      /\ returned'.status # "Success"
  BY DEF Begin, Return, GoOn, NoReturn
<1>3. Others(t)
  BY <1>1, <1>2 DEF Others
<1>4. at'[t] # "append" /\ array'[t] = a
  BY <1>1, <1>2
<1>5. ArrayInv(t)'
  BY <1>4 DEF ArrayInv
<1> QED BY <1>2, <1>3, <1>5, GroupsFromParts DEF GroupsExact

LEMMA GroupsCall ==
  ASSUME ThreadsOK, DataOK, GroupsInv, NEW t \in Threads, Call(t) PROVE GroupsInv'
<1>1. ASSUME NEW c, NEW place \in {"list", "lock"}, Begin(t, c, place), UNCHANGED array,
             c.fn # "initgroups"
      PROVE  GroupsInv'
  <2>1. CASE Return(t, c, "Unavail", Nobody)
    BY <2>1, <1>1, GroupsIdle DEF Return, NoCall, Places
  <2>2. CASE GoOn(t, place) /\ call' = [call EXCEPT ![t] = c]
    <3>1. place \in Places \ {"append"}
      BY DEF Places
    <3>2. /\ at' = [at EXCEPT ![t] = place] /\ returned'.fn # "initgroups"
          /\ \E k : k.fn # "initgroups" /\ call' = [call EXCEPT ![t] = k]
      BY <1>1, <2>2 DEF GoOn, NoReturn
    <3> QED BY <1>1, <3>1, <3>2, GroupsIdle
  <2> QED BY <1>1, <2>1, <2>2 DEF Begin
<1>2. ASSUME NEW c, NEW status, NEW e, Return(t, c, status, e), UNCHANGED array,
             c.fn # "initgroups" \/ status # "Success"
      PROVE  GroupsInv'
  BY <1>2, GroupsIdle DEF Return, NoCall, Places
<1>3. ASSUME NEW d \in Dbs, SetEnt(t, d) PROVE GroupsInv'
  BY <1>1, <1>3 DEF SetEnt
<1>4. ASSUME NEW d \in Dbs, NEW buflen \in BufLens, Lookup(t, d, buflen) PROVE GroupsInv'
  BY <1>1, <1>4 DEF Lookup
<1>5. ASSUME NEW d \in Dbs, NotBegun(t, d) \/ AtEnd(t, d) \/ EndEnt(t, d) PROVE GroupsInv'
  BY <1>2, <1>5 DEF NotBegun, AtEnd, EndEnt
<1>6. ASSUME NEW d \in Dbs, NEW buflen \in BufLens, GetEnt(t, d, buflen) PROVE GroupsInv'
  BY <1>2, <1>6 DEF GetEnt
<1>7. ASSUME NEW fn, NEW d, BadName(t, fn, d) PROVE GroupsInv'
  BY <1>2, <1>7 DEF BadName
<1>8. ASSUME NEW gids \in StartArrays, NEW size \in Sizes, Initgroups(t, gids, size)
      PROVE  GroupsInv'
  <2>1. gids \in Seq(Gids) /\ size \in Nat
    BY NssAssumption, StartArrayShape
  <2>2. IsInjective(gids)
    BY StartArrayShape
  <2>3. /\ Len(gids) <= size
        /\ Begin(t, [fn |-> "initgroups", db |-> "group", buflen |-> 0], "lock")
        /\ array' = [array EXCEPT ![t] = [NoArray EXCEPT !.gids = gids, !.size = size]]
    BY <1>8 DEF Initgroups
  <2> DEFINE b == [NoArray EXCEPT !.gids = gids]
             a == [b EXCEPT !.size = size]
  <2>4. NoArray \in ArrayRecs /\ ~NoArray.full
    BY DEF NoArray, ArrayRecs
  <2>5. b \in ArrayRecs /\ b.gids = gids /\ ~b.full
    BY <2>1, <2>4, PutField DEF ArrayRecs
  <2>6. array' = [array EXCEPT ![t] = a]
    BY <2>3
  <2> HIDE DEF b
  <2>7. a \in ArrayRecs /\ a.gids = gids /\ a.size = size /\ ~a.full
    BY <2>1, <2>5, PutField DEF ArrayRecs
  <2> HIDE DEF a
  <2> QED BY <2>2, <2>3, <2>6, <2>7, GroupsBegin
<1>9. CASE InitgroupsAgain(t)
  <2> DEFINE b == [array[t] EXCEPT !.size = 2 * array[t].size]
             a == [b EXCEPT !.full = FALSE]
  <2>1. array[t] \in ArrayRecs /\ array[t].size \in Nat /\ array[t].gids \in Seq(Gids)
    BY DEF DataOK, ArrayRecs
  <2>2. b \in ArrayRecs /\ b.gids = array[t].gids /\ b.size = 2 * array[t].size
    BY <2>1, PutField DEF ArrayRecs
  <2>3. /\ array[t].full /\ array' = [array EXCEPT ![t] = a]
        /\ Begin(t, [fn |-> "initgroups", db |-> "group", buflen |-> 0], "lock")
    BY <1>9 DEF InitgroupsAgain
  <2> HIDE DEF b
  <2>4. a \in ArrayRecs /\ a.gids = b.gids /\ a.size = b.size /\ ~a.full
    BY <2>2, PutField DEF ArrayRecs
  <2> HIDE DEF a
  <2>5. ArrayInv(t)
    BY DEF GroupsInv
  <2>6. Len(a.gids) <= a.size /\ IsInjective(a.gids)
    BY <2>1, <2>2, <2>3, <2>4, <2>5 DEF ArrayInv
  <2>7. PICK x \in ArrayRecs : x = a
    BY <2>4
  <2> QED BY <2>3, <2>4, <2>6, <2>7, GroupsBegin
<1> QED BY <1>3, <1>4, <1>5, <1>6, <1>7, <1>8, <1>9 DEF Call

LEMMA GroupsProceed ==
  ASSUME ThreadsOK, DataOK, GroupsInv, NEW t \in Threads, Proceed(t) PROVE GroupsInv'
<1>1. /\ at \in [Threads -> Places] /\ call \in [Threads -> CallRecs]
      /\ array \in [Threads -> ArrayRecs] /\ array[t] \in ArrayRecs
      /\ array[t].gids \in Seq(Gids) /\ array[t].todo \in Seq(Gids) /\ array[t].size \in Nat
  BY DEF ThreadsOK, DataOK, ArrayRecs
<1>2. ArrayInv(t)
  BY DEF GroupsInv
<1>3. ASSUME NEW c, NEW status, NEW e, Return(t, c, status, e), UNCHANGED array,
             c.fn # "initgroups" \/ status # "Success"
      PROVE  GroupsInv'
  BY <1>3, GroupsIdle DEF Return, NoCall, Places
<1>4. ASSUME NEW place \in {"service", "lock", "install"}, GoOn(t, place), UNCHANGED <<array, call>>
      PROVE  GroupsInv'
  BY <1>4, GroupsIdle DEF GoOn, NoReturn, Places
<1>5. CASE ListFails(t) \/ ServiceFails(t)
  BY <1>3, <1>5 DEF ListFails, ServiceFails
<1>6. ASSUME NEW l \in Lists, Listed(t, l) PROVE GroupsInv'
  BY <1>4, <1>6 DEF Listed
<1>7. CASE Acquire(t)
  BY <1>4, <1>7 DEF Acquire
<1>8. CASE Unlock(t)
  BY <1>4, <1>8 DEF Unlock
<1>9. ASSUME NEW converted \in BOOLEAN, Convert(t, converted) PROVE GroupsInv'
  BY <1>9 DEF Convert, threadVars, GroupsInv, ArrayInv, GroupsExact, NoReturn
<1>10. CASE Install(t)
  <2>1. call[t].fn # "initgroups"
    BY <1>10 DEF Install, ThreadsOK
  <2> QED BY <1>3, <1>10, <2>1 DEF Install
<1>11. ASSUME NEW e \in Entries \cup {Nobody}, LookedUp(t, e) PROVE GroupsInv'
  <2>1. call[t].fn # "initgroups"
    BY <1>11 DEF LookedUp
  <2> QED BY <1>3, <1>11, <2>1 DEF LookedUp
<1>12. ASSUME NEW gids \in GidLists, GroupsFound(t, gids) PROVE GroupsInv'
  <2>1. gids \in Seq(Gids)
    BY NssAssumption
  <2> DEFINE b == [array[t] EXCEPT !.answer = gids]
             a == [b EXCEPT !.todo = gids]
  <2>2. b \in ArrayRecs /\ b.gids = array[t].gids /\ b.size = array[t].size
        /\ b.full = array[t].full /\ b.answer = gids
    BY <1>1, <2>1, PutField DEF ArrayRecs
  <2>3. /\ array' = [array EXCEPT ![t] = a] /\ at' = [at EXCEPT ![t] = "append"]
        /\ UNCHANGED call /\ returned'.fn = "none"
    BY <1>12 DEF GroupsFound, GoOn, NoReturn
  <2> HIDE DEF b
  <2>4. /\ a.gids = b.gids /\ a.size = b.size /\ a.full = b.full /\ a.answer = b.answer
        /\ a.todo = gids
    BY <2>2 DEF ArrayRecs
  <2>5. array'[t] = a
    BY <1>1, <2>3
  <2> HIDE DEF a
  <2>6. ArrayInv(t)'
    BY <1>2, <2>2, <2>3, <2>4, <2>5 DEF ArrayInv
  <2>7. Others(t)
    BY <1>1, <2>3 DEF Others
  <2> QED BY <2>3, <2>6, <2>7, GroupsFromParts DEF GroupsExact
<1>13. CASE AppendGid(t)
  <2> DEFINE gid == Head(array[t].todo)
             skip == [array[t] EXCEPT !.todo = Tail(@)]
             b == [array[t] EXCEPT !.gids = Append(@, gid)]
             put == [b EXCEPT !.todo = Tail(@)]
  <2>1. /\ at[t] = "append" /\ array[t].todo # <<>>
        /\ UNCHANGED <<at, call>> /\ returned'.fn = "none"
        /\ \/ Present(array[t], gid) /\ array' = [array EXCEPT ![t] = skip]
           \/ /\ ~Present(array[t], gid) /\ HasRoom(array[t])
              /\ array' = [array EXCEPT ![t] = put]
    BY <1>13 DEF AppendGid, threadVars, NoReturn
  <2>2. gid \in Gids /\ Tail(array[t].todo) \in Seq(Gids) /\ Append(array[t].gids, gid) \in Seq(Gids)
    BY <1>1, <2>1
  <2>3. ToSet(array[t].todo) \subseteq {gid} \cup ToSet(Tail(array[t].todo))
    BY <1>1, <2>1, HeadOrTail
  <2>4. Others(t)
    BY <1>1, <2>1 DEF Others
  <2>5. CASE Present(array[t], gid) /\ array' = [array EXCEPT ![t] = skip]
    <3>1. /\ skip.gids = array[t].gids /\ skip.size = array[t].size /\ skip.full = array[t].full
          /\ skip.answer = array[t].answer /\ skip.todo = Tail(array[t].todo)
      BY <1>1 DEF ArrayRecs
    <3>2. array'[t] = skip
      BY <1>1, <2>5
    <3> HIDE DEF skip, gid
    <3>3. gid \in ToSet(array[t].gids) \cup {Primary}
      BY <2>5 DEF Present
    <3>4. ArrayInv(t)'
      BY <1>2, <2>1, <2>3, <3>1, <3>2, <3>3 DEF ArrayInv
    <3> QED BY <2>1, <2>4, <3>4, GroupsFromParts DEF GroupsExact
  <2>6. CASE ~Present(array[t], gid) /\ HasRoom(array[t]) /\ array' = [array EXCEPT ![t] = put]
    <3>1. b \in ArrayRecs /\ b.gids = Append(array[t].gids, gid) /\ b.size = array[t].size
          /\ b.full = array[t].full /\ b.answer = array[t].answer /\ b.todo = array[t].todo
      BY <1>1, <2>2, PutField DEF ArrayRecs
    <3>2. array'[t] = put
      BY <1>1, <2>6
    <3> HIDE DEF b, gid
    <3>3. /\ put.gids = b.gids /\ put.size = b.size /\ put.full = b.full
          /\ put.answer = b.answer /\ put.todo = Tail(b.todo)
      BY <3>1 DEF ArrayRecs
    <3> HIDE DEF put
    <3>4. /\ gid \notin ToSet(array[t].gids) /\ Len(array[t].gids) < array[t].size
      BY <2>6 DEF Present, HasRoom
    <3>5. /\ ToSet(put.gids) = ToSet(array[t].gids) \cup {gid} /\ IsInjective(put.gids)
          /\ Len(put.gids) = Len(array[t].gids) + 1
      BY <1>1, <1>2, <2>2, <3>1, <3>3, <3>4, AppendNew DEF ArrayInv
    <3>6. ~array[t].full
      BY <1>1, <1>2, <3>4 DEF ArrayInv
    <3>7. ArrayInv(t)'
      BY <1>1, <1>2, <2>1, <2>3, <3>1, <3>2, <3>3, <3>4, <3>5, <3>6 DEF ArrayInv
    <3> QED BY <2>1, <2>4, <3>7, GroupsFromParts DEF GroupsExact
  <2> QED BY <2>1, <2>5, <2>6
<1>14. CASE ArrayFull(t)
  <2> DEFINE b == [array[t] EXCEPT !.full = TRUE]
             a == [b EXCEPT !.todo = <<>>]
  <2>1. /\ at[t] = "append" /\ ~HasRoom(array[t])
        /\ at' = [at EXCEPT ![t] = "idle"] /\ call' = [call EXCEPT ![t] = NoCall]
        /\ array' = [array EXCEPT ![t] = a] /\ returned'.status = "TryAgain"
    BY <1>14 DEF ArrayFull, Return
  <2>2. b \in ArrayRecs /\ b.gids = array[t].gids /\ b.size = array[t].size /\ b.full
    BY <1>1, PutField DEF ArrayRecs
  <2> HIDE DEF b
  <2>3. a.gids = b.gids /\ a.size = b.size /\ a.full
    BY <2>2 DEF ArrayRecs
  <2> HIDE DEF a
  <2>4. array'[t] = a /\ at'[t] = "idle"
    BY <1>1, <2>1
  <2>5. Len(array[t].gids) = array[t].size
    BY <1>1, <1>2, <2>1 DEF ArrayInv, HasRoom
  <2>6. ArrayInv(t)'
    BY <1>1, <1>2, <2>2, <2>3, <2>4, <2>5 DEF ArrayInv
  <2>7. Others(t)
    BY <1>1, <2>1 DEF Others
  <2> QED BY <2>1, <2>6, <2>7, GroupsFromParts DEF GroupsExact
<1>15. CASE AllAppended(t)
  <2>1. /\ at[t] = "append" /\ array[t].todo = <<>> /\ UNCHANGED array
        /\ at' = [at EXCEPT ![t] = "idle"] /\ call' = [call EXCEPT ![t] = NoCall]
        /\ returned'.thread = t
    BY <1>15 DEF AllAppended, Return
  <2>2. Others(t)
    BY <1>1, <2>1 DEF Others
  <2>3. at'[t] = "idle" /\ call'[t].fn = "none"
    BY <1>1, <2>1 DEF NoCall
  <2>4. ArrayInv(t)'
    BY <1>2, <2>1, <2>3 DEF ArrayInv
  <2>5. ToSet(array[t].answer) \subseteq ToSet(array[t].gids) \cup {Primary}
    <3>1. ToSet(<<>>) = {}
      BY DEF ToSet
    <3> QED BY <1>2, <2>1, <3>1 DEF ArrayInv
  <2>6. GroupsExact'
    BY <1>2, <2>1, <2>5 DEF GroupsExact, ArrayInv
  <2> QED BY <2>2, <2>4, <2>6, GroupsFromParts
<1> QED BY <1>5, <1>6, <1>7, <1>8, <1>9, <1>10, <1>11, <1>12, <1>13, <1>14, <1>15 DEF Proceed

LEMMA GroupsAlways == Spec => []GroupsInv
<1> DEFINE Inv == DataOK /\ ThreadsOK /\ GroupsInv
<1>1. Init => Inv
  <2> SUFFICES ASSUME Init PROVE GroupsInv
    BY InitType, TypeParts
  <2>1. \A t \in Threads : at[t] = "idle" /\ call[t] = NoCall /\ array[t] = NoArray
    BY DEF Init
  <2>2. \A t \in Threads : ArrayInv(t)
    BY <2>1 DEF ArrayInv, NoCall, NoArray, IsInjective
  <2> QED BY <2>2 DEF Init, GroupsInv, GroupsExact, NoReturn
<1>2. Inv /\ [Next]_vars => Inv'
  <2> SUFFICES ASSUME Inv, [Next]_vars PROVE Inv'
    OBVIOUS
  <2>1. CASE UNCHANGED vars
    BY <2>1 DEF vars, DataOK, ThreadsOK, GroupsInv, ArrayInv, GroupsExact
  <2>2. ASSUME NEW t \in Threads, Call(t) PROVE Inv'
    BY <2>2, CallType, GroupsCall
  <2>3. ASSUME NEW t \in Threads, Proceed(t) PROVE Inv'
    BY <2>3, ProceedType, GroupsProceed
  <2> QED BY <2>1, <2>2, <2>3 DEF Next
<1> QED BY <1>1, <1>2, PTL DEF Spec

(* initgroups_dyn never writes beyond the caller's array, whatever its     *)
(* size and however many attempts are made (nss ffi.rs, initgroups_dyn).   *)
THEOREM ArrayNeverOverrun == Spec => []ArrayNotOverrun
<1>1. GroupsInv => ArrayNotOverrun
  BY DEF GroupsInv, ArrayInv, ArrayNotOverrun
<1> QED BY <1>1, GroupsAlways, PTL

(* After Success the array holds every group of the answer but the primary *)
(* group and none twice, for all answers, also after attempts with other   *)
(* answers (nss ffi.rs, initgroups_dyn).                                   *)
THEOREM GroupsAreExact == Spec => []GroupsExact
<1>1. GroupsInv => GroupsExact
  BY DEF GroupsInv
<1> QED BY <1>1, GroupsAlways, PTL

-----------------------------------------------------------------------------
(* The service mutex. *)

(* A step after which thread t holds the mutex still is one of another     *)
(* thread, or brings t nearer to the end of its call: the service has      *)
(* answered, or one entry or group fewer is left to do.                    *)
Nearer(t) ==
  \/ at'[t] = at[t] /\ work'[t] = work[t] /\ array'[t] = array[t]
  \/ at[t] = "service" /\ at'[t] = "append"
  \/ /\ at[t] = "service" /\ at'[t] = "service" /\ call[t].fn = "setent"
     /\ Len(work'[t].todo) < Len(work[t].todo)
  \/ /\ at[t] = "append" /\ at'[t] = "append"
     /\ Len(array'[t].todo) < Len(array[t].todo)

LEMMA OthersKeep ==
  ASSUME DataOK, ThreadsOK, NEW t \in Threads, NEW u \in Threads \ {t}, Call(u) \/ Proceed(u)
  PROVE  at'[t] = at[t] /\ work'[t] = work[t] /\ array'[t] = array[t]
<1>1. /\ at \in [Threads -> Places] /\ work \in [Threads -> WorkRecs]
      /\ array \in [Threads -> ArrayRecs]
  BY DEF DataOK, ThreadsOK
<1>2. /\ UNCHANGED at \/ \E x : at' = [at EXCEPT ![u] = x]
      /\ UNCHANGED work \/ \E x : work' = [work EXCEPT ![u] = x]
      /\ UNCHANGED array \/ \E x : array' = [array EXCEPT ![u] = x]
  <2>1. ASSUME NEW c, NEW place, Begin(u, c, place)
        PROVE  /\ \E x : at' = [at EXCEPT ![u] = x]
               /\ UNCHANGED work \/ \E x : work' = [work EXCEPT ![u] = x]
    BY <2>1 DEF Begin, Return, GoOn
  <2>2. ASSUME NEW d, SetEnt(u, d) PROVE <1>2
    BY <2>1, <2>2 DEF SetEnt
  <2>3. ASSUME NEW d, NEW buflen, Lookup(u, d, buflen) PROVE <1>2
    BY <2>1, <2>3 DEF Lookup
  <2>4. ASSUME NEW gids, NEW size, Initgroups(u, gids, size) PROVE <1>2
    BY <2>1, <2>4 DEF Initgroups
  <2>5. CASE InitgroupsAgain(u)
    BY <2>1, <2>5 DEF InitgroupsAgain
  <2>6. ASSUME NEW d, NotBegun(u, d) \/ AtEnd(u, d) \/ EndEnt(u, d) PROVE <1>2
    BY <2>6 DEF NotBegun, AtEnd, EndEnt, Return
  <2>7. ASSUME NEW d, NEW buflen, GetEnt(u, d, buflen) PROVE <1>2
    BY <2>7 DEF GetEnt, Return
  <2>8. ASSUME NEW fn, NEW d, BadName(u, fn, d) PROVE <1>2
    BY <2>8 DEF BadName, Return
  <2>9. CASE Call(u)
    BY <2>2, <2>3, <2>4, <2>5, <2>6, <2>7, <2>8, <2>9 DEF Call
  <2>10. CASE ListFails(u) \/ Install(u) \/ ServiceFails(u) \/ AllAppended(u)
    BY <2>10 DEF ListFails, Install, ServiceFails, AllAppended, Return
  <2>11. CASE ArrayFull(u)
    BY <2>11 DEF ArrayFull, Return
  <2>12. ASSUME NEW e, LookedUp(u, e) PROVE <1>2
    BY <2>12 DEF LookedUp, Return
  <2>13. ASSUME NEW l, Listed(u, l) PROVE <1>2
    BY <2>13 DEF Listed, GoOn
  <2>14. ASSUME NEW gids, GroupsFound(u, gids) PROVE <1>2
    BY <2>14 DEF GroupsFound, GoOn
  <2>15. ASSUME NEW converted, Convert(u, converted) PROVE <1>2
    BY <2>15 DEF Convert, threadVars
  <2>16. CASE Acquire(u) \/ Unlock(u)
    BY <2>16 DEF Acquire, Unlock, GoOn
  <2>17. CASE AppendGid(u)
    BY <2>17 DEF AppendGid, threadVars
  <2>18. CASE Proceed(u)
    BY <2>10, <2>11, <2>12, <2>13, <2>14, <2>15, <2>16, <2>17, <2>18 DEF Proceed
  <2> QED BY <2>9, <2>18
<1> QED BY <1>1, <1>2

LEMMA HolderNearer ==
  ASSUME DataOK, ThreadsOK, NEW t \in Threads, svc = t, svc' = t, Call(t) \/ Proceed(t)
  PROVE  Nearer(t)
<1>1. at[t] \in {"service", "append"} /\ t # Nobody
  BY NssAssumption DEF ThreadsOK
<1>2. ~Call(t)
  <2>1. at[t] # "idle"
    BY <1>1
  <2> QED BY <2>1 DEF Call, SetEnt, Lookup, Initgroups, InitgroupsAgain, Begin, NotBegun, AtEnd,
                      EndEnt, GetEnt, BadName, MayCall
<1>3. ASSUME NEW converted, Convert(t, converted) PROVE Nearer(t)
  <2>1. work \in [Threads -> WorkRecs] /\ work[t].todo \in Seq(Entries) /\ work[t].todo # <<>>
    BY <1>3 DEF Convert, DataOK, WorkRecs
  <2>2. work'[t].todo = Tail(work[t].todo)
    BY <1>3, <2>1 DEF Convert
  <2>3. Len(work'[t].todo) < Len(work[t].todo)
    BY <2>1, <2>2
  <2> QED BY <1>3, <2>3 DEF Convert, threadVars, Nearer
<1>4. ASSUME NEW gids, GroupsFound(t, gids) PROVE Nearer(t)
  BY <1>4 DEF GroupsFound, GoOn, ThreadsOK, Nearer
<1>5. CASE AppendGid(t)
  <2>1. array \in [Threads -> ArrayRecs] /\ array[t] \in ArrayRecs
        /\ array[t].todo \in Seq(Gids) /\ array[t].todo # <<>>
    BY <1>5 DEF AppendGid, DataOK, ArrayRecs
  <2>2. array'[t].todo = Tail(array[t].todo)
    <3> DEFINE gid == Head(array[t].todo)
               skip == [array[t] EXCEPT !.todo = Tail(@)]
               put == [array[t] EXCEPT !.gids = Append(@, gid), !.todo = Tail(@)]
    <3>1. array' = [array EXCEPT ![t] = skip] \/ array' = [array EXCEPT ![t] = put]
      BY <1>5 DEF AppendGid
    <3>2. skip.todo = Tail(array[t].todo) /\ put.todo = Tail(array[t].todo)
      BY <2>1 DEF ArrayRecs
    <3> HIDE DEF skip, put
    <3> QED BY <2>1, <3>1, <3>2
  <2>3. Len(array'[t].todo) < Len(array[t].todo)
    BY <2>1, <2>2
  <2> QED BY <1>5, <2>3 DEF AppendGid, threadVars, Nearer
<1>6. ~Acquire(t) /\ ~Unlock(t) /\ ~ServiceFails(t) /\ ~ArrayFull(t) /\ ~AllAppended(t)
      /\ \A e : ~LookedUp(t, e)
  BY <1>1 DEF Acquire, Unlock, ServiceFails, ArrayFull, AllAppended, LookedUp
<1>7. ~ListFails(t) /\ ~Install(t) /\ \A l : ~Listed(t, l)
  BY <1>1 DEF ListFails, Install, Listed
<1> QED BY <1>2, <1>3, <1>4, <1>5, <1>6, <1>7 DEF Proceed

(* Every step that a holder of the service mutex takes without letting it  *)
(* go brings it nearer to the end of its call, and no step of another      *)
(* thread sets it back: what MutexReleased leaves to fairness is only that *)
(* the holder goes on at all (nss passwd.rs and group.rs, the scope of     *)
(* svc; ffi.rs, initgroups_dyn).                                           *)
THEOREM HolderGetsNearer ==
  Spec => [][\A t \in Threads : svc = t /\ svc' = t => Nearer(t)]_vars
<1> DEFINE Step == \A t \in Threads : svc = t /\ svc' = t => Nearer(t)
<1>1. NssTypeOK /\ [Next]_vars => [Step]_vars
  <2> SUFFICES ASSUME NssTypeOK, Next PROVE Step
    OBVIOUS
  <2>1. DataOK /\ ThreadsOK
    BY TypeParts
  <2>2. ASSUME NEW t \in Threads, svc = t, svc' = t PROVE Nearer(t)
    <3>1. PICK u \in Threads : Call(u) \/ Proceed(u)
      BY DEF Next
    <3>2. CASE u = t
      BY <2>1, <2>2, <3>1, <3>2, HolderNearer
    <3>3. CASE u # t
      BY <2>1, <3>1, <3>3, OthersKeep DEF Nearer
    <3> QED BY <3>2, <3>3
  <2> QED BY <2>2
<1> QED BY <1>1, NssTypeCorrect, PTL DEF Spec
=============================================================================
