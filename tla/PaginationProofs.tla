-------------------------- MODULE PaginationProofs --------------------------
(***************************************************************************)
(* Proofs about paginate_list: for every page size, page limit and         *)
(* directory, however it is edited while the list is fetched.              *)
(***************************************************************************)
EXTENDS Pagination, TLAPS

(* An answer is at most a page and nothing that is not there; it is empty  *)
(* only at the end of the directory.                                       *)
LEMMA FetchedSize ==
  ASSUME dir \in Seq(Entries), start_index \in Nat \ {0}, NEW n \in Fetched
  PROVE  /\ n \in 0..PageSize
         /\ n = 0 => Len(dir) < start_index
         /\ n # 0 => start_index + n - 1 <= Len(dir)
<1> DEFINE rest == Len(dir) - start_index + 1
<1>1. rest \in Int /\ PageSize \in Nat \ {0}
  BY PaginationAssumption
<1>2. CASE rest <= 0
  BY <1>1, <1>2 DEF Fetched
<1>3. CASE rest > 0
  <2>1. Min({rest, PageSize}) \in {rest, PageSize}
        /\ Min({rest, PageSize}) <= rest /\ Min({rest, PageSize}) <= PageSize
    <3> HIDE DEF rest
    <3>1. \E x \in {rest, PageSize} : \A y \in {rest, PageSize} : x <= y
      BY <1>1
    <3> QED BY <3>1, Zenon DEF Min
  <2>2. n \in 1..Min({rest, PageSize})
    BY <1>3 DEF Fetched
  <2> QED BY <1>1, <2>1, <2>2
<1> QED BY <1>1, <1>2, <1>3

(* What a removal, an insertion and a page do to positions. *)
Removed(s, i, t) ==
  /\ t \in Seq(Entries) /\ Len(t) = Len(s) - 1
  /\ \A j \in 1..(Len(s) - 1) : t[j] = IF j < i THEN s[j] ELSE s[j + 1]

LEMMA Removal ==
  ASSUME NEW s \in Seq(Entries), NEW i \in 1..Len(s), NEW t, t = RemoveAt(s, i)
  PROVE  Removed(s, i, t)
<1> DEFINE l == SubSeq(s, 1, i - 1)
           r == SubSeq(s, i + 1, Len(s))
<1>1. /\ l \in Seq(Entries) /\ Len(l) = i - 1 /\ \A j \in 1..(i - 1) : l[j] = s[j]
  OBVIOUS
<1>2. /\ r \in Seq(Entries) /\ Len(r) = Len(s) - i
      /\ \A j \in 1..(Len(s) - i) : r[j] = s[i + j]
  OBVIOUS
<1> HIDE DEF l, r
<1>3. t = l \o r
  BY DEF RemoveAt, l, r
<1>4. /\ t \in Seq(Entries) /\ Len(t) = Len(l) + Len(r)
      /\ \A j \in 1..Len(l) : t[j] = l[j]
      /\ \A j \in 1..Len(r) : t[Len(l) + j] = r[j]
  <2>1. l \in Seq(Entries) /\ r \in Seq(Entries)
    BY <1>1, <1>2
  <2> QED BY <1>3, <2>1
<1>5. ASSUME NEW j \in 1..(Len(s) - 1), j >= i PROVE t[j] = s[j + 1]
  <2> DEFINE k == j - (i - 1)
  <2>1. k \in 1..(Len(s) - i) /\ i + k = j + 1 /\ Len(l) + k = j
    BY <1>1, <1>5
  <2> HIDE DEF k
  <2>2. t[Len(l) + k] = r[k] /\ r[k] = s[i + k]
    BY <1>2, <1>4, <2>1
  <2> QED BY <2>1, <2>2
<1> QED BY <1>1, <1>2, <1>4, <1>5 DEF Removed

Inserted(s, i, e, t) ==
  /\ t \in Seq(Entries) /\ Len(t) = Len(s) + 1
  /\ \A j \in 1..(Len(s) + 1) :
       t[j] = IF j < i THEN s[j] ELSE IF j = i THEN e ELSE s[j - 1]

LEMMA Insertion ==
  ASSUME NEW s \in Seq(Entries), NEW i \in 1..(Len(s) + 1), NEW e \in Entries,
         NEW t, t = InsertAt(s, i, e)
  PROVE  Inserted(s, i, e, t)
<1> DEFINE l == SubSeq(s, 1, i - 1)
           r == SubSeq(s, i, Len(s))
<1>1. /\ l \in Seq(Entries) /\ Len(l) = i - 1 /\ \A j \in 1..(i - 1) : l[j] = s[j]
  OBVIOUS
<1>2. /\ r \in Seq(Entries) /\ Len(r) = Len(s) - i + 1
      /\ \A j \in 1..(Len(s) - i + 1) : r[j] = s[i + j - 1]
  OBVIOUS
<1> HIDE DEF l, r
<1> DEFINE m == l \o <<e>>
<1>3. m \in Seq(Entries) /\ Len(m) = i /\ m[i] = e /\ \A j \in 1..(i - 1) : m[j] = s[j]
  BY <1>1
<1> HIDE DEF m
<1>4. t = m \o r
  BY DEF InsertAt, l, r, m
<1>5. /\ t \in Seq(Entries) /\ Len(t) = Len(m) + Len(r)
      /\ \A j \in 1..Len(m) : t[j] = m[j]
      /\ \A j \in 1..Len(r) : t[Len(m) + j] = r[j]
  BY <1>2, <1>3, <1>4
<1>6. ASSUME NEW j \in 1..(Len(s) + 1), j > i PROVE t[j] = s[j - 1]
  <2> DEFINE k == j - i
  <2>1. k \in 1..(Len(s) - i + 1) /\ i + k - 1 = j - 1 /\ Len(m) + k = j
    BY <1>3, <1>6
  <2> HIDE DEF k
  <2>2. t[Len(m) + k] = r[k] /\ r[k] = s[i + k - 1]
    BY <1>2, <1>5, <2>1
  <2> QED BY <2>1, <2>2
<1> QED BY <1>2, <1>3, <1>5, <1>6 DEF Inserted

LEMMA AppendedPage ==
  ASSUME NEW a \in Seq(Entries), NEW s \in Seq(Entries), NEW k \in Nat \ {0}, NEW n \in Nat,
         n # 0 => k + n - 1 <= Len(s), NEW b, b = a \o SubSeq(s, k, k + n - 1)
  PROVE  /\ b \in Seq(Entries) /\ Len(b) = Len(a) + n
         /\ \A j \in 1..Len(a) : b[j] = a[j]
         /\ \A j \in 1..n : b[Len(a) + j] = s[k + j - 1]
  OBVIOUS
-----------------------------------------------------------------------------

(* The positions from the next index on are what is still to come. *)
ListInv ==
  /\ dir \in Seq(Entries) /\ all \in Seq(Entries) /\ initial \subseteq Entries
  /\ page \in 0..MaxPages /\ grown \in BOOLEAN /\ shrunk \in BOOLEAN /\ uncounted \in BOOLEAN
  /\ status \in {"none", "listing", "complete", "truncated", "failed"}
  /\ start_index \in Nat \ {0} /\ Len(all) = start_index - 1
  /\ start_index <= 1 + PageSize * page
  /\ status = "listing" => page < MaxPages

(* Nothing twice in the directory; and if nothing was inserted, nothing    *)
(* twice in the list and nothing of it still to come.                      *)
TwiceInv ==
  /\ IsInjective(dir)
  /\ ~grown => IsInjective(all)
  /\ status = "listing" /\ ~grown =>
       \A j \in start_index..Len(dir), i \in 1..Len(all) : dir[j] # all[i]

(* If nothing was removed, what was there at the beginning has been        *)
(* fetched or is still to come.                                            *)
MissedInv ==
  /\ NothingMissed
  /\ status = "listing" /\ ~shrunk =>
       \A e \in initial : \/ \E i \in 1..Len(all) : all[i] = e
                          \/ \E j \in start_index..Len(dir) : dir[j] = e

(* A page, as the invariants see it. *)
LEMMA PageStep ==
  ASSUME ListInv, Page
  PROVE  \E n \in 0..PageSize :
           /\ status = "listing" /\ UNCHANGED <<dir, initial, grown, shrunk>>
           /\ start_index' = start_index + n /\ page' = page + 1
           /\ all' \in Seq(Entries) /\ Len(all') = Len(all) + n
           /\ \A j \in 1..Len(all) : all'[j] = all[j]
           /\ \A j \in 1..n : all'[Len(all) + j] = dir[start_index + j - 1]
           /\ n # 0 => start_index + n - 1 <= Len(dir)
           /\ status' \in {"complete", "truncated", "listing"}
           /\ status' = "complete" /\ ~uncounted' => start_index' > Len(dir)
           /\ status' = "listing" => page + 1 # MaxPages
           /\ uncounted' \in BOOLEAN
<1>1. /\ dir \in Seq(Entries) /\ all \in Seq(Entries) /\ start_index \in Nat \ {0}
      /\ Len(all) = start_index - 1
  BY DEF ListInv
<1>2. PICK n \in Fetched, total_results \in {Len(dir), Missing} :
        /\ all' = all \o SubSeq(dir, start_index, start_index + n - 1)
        /\ status' = IF Len(all') >= total_results \/ n = 0 THEN "complete"
                     ELSE IF page + 1 = MaxPages THEN "truncated" ELSE "listing"
        /\ start_index' = start_index + n
        /\ page' = page + 1
        /\ uncounted' = (uncounted \/ total_results = Missing)
  BY DEF Page
<1>3. /\ n \in 0..PageSize /\ (n = 0 => Len(dir) < start_index)
      /\ (n # 0 => start_index + n - 1 <= Len(dir))
  BY <1>1, FetchedSize
<1>4. n \in Nat
  BY <1>3, PaginationAssumption
<1>5. /\ all' \in Seq(Entries) /\ Len(all') = Len(all) + n
      /\ \A j \in 1..Len(all) : all'[j] = all[j]
      /\ \A j \in 1..n : all'[Len(all) + j] = dir[start_index + j - 1]
  <2>1. /\ all' = all \o SubSeq(dir, start_index, start_index + n - 1)
        /\ all \in Seq(Entries) /\ dir \in Seq(Entries)
    BY <1>1, <1>2
  <2>2. start_index \in Nat \ {0} /\ (n # 0 => start_index + n - 1 <= Len(dir))
    BY <1>1, <1>3
  <2> QED BY <1>4, <2>1, <2>2
<1>6. status' = "complete" /\ ~uncounted' => start_index' > Len(dir)
  <2>1. ~uncounted' => total_results = Len(dir)
    BY <1>2, Zenon
  <2>2. total_results = Len(dir) /\ status' = "complete" => start_index' > Len(dir)
    BY <1>1, <1>2, <1>3, <1>4, <1>5
  <2> QED BY <2>1, <2>2
<1>7. /\ status' \in {"complete", "truncated", "listing"}
      /\ status' = "listing" => page + 1 # MaxPages
      /\ uncounted' \in BOOLEAN
  BY <1>2 DEF ListInv
<1>8. status = "listing" /\ UNCHANGED <<dir, initial, grown, shrunk>>
  BY DEF Page
<1> QED BY <1>2, <1>3, <1>5, <1>6, <1>7, <1>8

LEMMA ToSetIn == ASSUME NEW s \in Seq(Entries) PROVE ToSet(s) \subseteq Entries
  BY DEF ToSet

LEMMA ListStep == ListInv /\ [Next]_vars => ListInv'
<1> SUFFICES ASSUME ListInv, [Next]_vars PROVE ListInv'
  OBVIOUS
<1>0. PageSize \in Nat \ {0} /\ MaxPages \in Nat \ {0}
  BY PaginationAssumption
<1>1. CASE UNCHANGED vars
  BY <1>1 DEF vars, ListInv
<1>2. CASE Begin
  <2>1. PageSize * 0 = 0 /\ ToSet(dir) \subseteq Entries
    BY <1>0, ToSetIn DEF ListInv
  <2>2. start_index' <= 1 + PageSize * page' /\ page' \in 0..MaxPages
    BY <1>0, <1>2, <2>1 DEF Begin
  <2>3. Len(all') = start_index' - 1 /\ all' \in Seq(Entries)
    BY <1>2 DEF Begin
  <2>4. status' = "listing" => page' < MaxPages
    BY <1>0, <1>2 DEF Begin
  <2>5. /\ dir' \in Seq(Entries) /\ initial' \subseteq Entries
        /\ start_index' \in Nat \ {0}
    BY <1>2, <2>1 DEF Begin, ListInv
  <2>6. /\ grown' \in BOOLEAN /\ shrunk' \in BOOLEAN /\ uncounted' \in BOOLEAN
        /\ status' \in {"none", "listing", "complete", "truncated", "failed"}
    BY <1>2 DEF Begin
  <2> QED BY <2>2, <2>3, <2>4, <2>5, <2>6, Zenon DEF ListInv
<1>3. CASE Page
  <2>1. PICK n \in 0..PageSize :
           /\ status = "listing" /\ UNCHANGED <<dir, initial, grown, shrunk>>
           /\ start_index' = start_index + n /\ page' = page + 1
           /\ all' \in Seq(Entries) /\ Len(all') = Len(all) + n
           /\ status' \in {"complete", "truncated", "listing"}
           /\ status' = "listing" => page + 1 # MaxPages
           /\ uncounted' \in BOOLEAN
    BY <1>3, PageStep
  <2>2. page \in Nat /\ page < MaxPages /\ start_index \in Nat /\ start_index <= 1 + PageSize * page
    BY <1>0, <2>1 DEF ListInv
  <2>3. PageSize * (page + 1) = PageSize * page + PageSize /\ PageSize * page \in Nat
    BY <1>0, <2>2
  <2>4. start_index' <= 1 + PageSize * page'
    BY <1>0, <2>1, <2>2, <2>3
  <2> QED BY <1>0, <2>1, <2>2, <2>4 DEF ListInv
<1>4. CASE PageFails
  BY <1>4 DEF PageFails, ListInv
<1>5. ASSUME NEW e \in Entries, NEW i \in 1..(Len(dir) + 1), InsertEntry(e, i) PROVE ListInv'
  <2>1. dir' \in Seq(Entries)
    <3>1. Inserted(dir, i, e, dir')
      BY <1>5, Insertion DEF InsertEntry, ListInv
    <3> QED BY <3>1 DEF Inserted
  <2> QED BY <1>5, <2>1 DEF InsertEntry, ListInv, listVars
<1>6. ASSUME NEW i \in 1..Len(dir), RemoveEntry(i) PROVE ListInv'
  <2>1. dir' \in Seq(Entries)
    <3>1. Removed(dir, i, dir')
      BY <1>6, Removal DEF RemoveEntry, ListInv
    <3> QED BY <3>1 DEF Removed
  <2> QED BY <1>6, <2>1 DEF RemoveEntry, ListInv, listVars
<1> QED BY <1>1, <1>2, <1>3, <1>4, <1>5, <1>6 DEF Next

LEMMA TwiceStep == ListInv /\ TwiceInv /\ [Next]_vars => TwiceInv'
<1> SUFFICES ASSUME ListInv, TwiceInv, [Next]_vars PROVE TwiceInv'
  OBVIOUS
<1>0. /\ dir \in Seq(Entries) /\ all \in Seq(Entries) /\ start_index \in Nat \ {0}
      /\ Len(all) = start_index - 1 /\ DOMAIN dir = 1..Len(dir) /\ DOMAIN all = 1..Len(all)
      /\ Len(dir) \in Nat
  BY DEF ListInv
<1>1. CASE UNCHANGED vars
  BY <1>1 DEF vars, TwiceInv
<1>2. CASE Begin
  BY <1>2 DEF Begin, TwiceInv, IsInjective
<1>3. CASE Page
  <2>1. PICK n \in 0..PageSize :
           /\ status = "listing" /\ UNCHANGED <<dir, initial, grown, shrunk>>
           /\ start_index' = start_index + n
           /\ all' \in Seq(Entries) /\ Len(all') = Len(all) + n
           /\ \A j \in 1..Len(all) : all'[j] = all[j]
           /\ \A j \in 1..n : all'[Len(all) + j] = dir[start_index + j - 1]
           /\ n # 0 => start_index + n - 1 <= Len(dir)
    BY <1>3, PageStep
  <2>2. n \in Nat /\ DOMAIN all' = 1..Len(all')
    BY <2>1, PaginationAssumption
  <2>3. CASE grown
    BY <2>1, <2>3 DEF TwiceInv
  <2>4. CASE ~grown
    <3>1. \A i \in 1..Len(all') :
            \/ i \in 1..Len(all) /\ all'[i] = all[i]
            \/ /\ i \in start_index..(start_index + n - 1) /\ i \notin 1..Len(all)
               /\ all'[i] = dir[i] /\ i \in 1..Len(dir)
      <4> SUFFICES ASSUME NEW i \in 1..Len(all'), i \notin 1..Len(all)
                   PROVE  /\ i \in start_index..(start_index + n - 1)
                          /\ all'[i] = dir[i] /\ i \in 1..Len(dir)
        BY <2>1
      <4>1. i - Len(all) \in 1..n
        BY <1>0, <2>1, <2>2
      <4>2. all'[Len(all) + (i - Len(all))] = dir[start_index + (i - Len(all)) - 1]
        BY <2>1, <4>1
      <4>3. Len(all) + (i - Len(all)) = i /\ start_index + (i - Len(all)) - 1 = i
        BY <1>0, <2>1, <2>2
      <4>4. all'[i] = dir[i]
        BY <4>2, <4>3
      <4>5. n # 0 /\ i >= start_index /\ i <= start_index + n - 1 /\ i <= Len(dir)
        BY <1>0, <2>1, <2>2, <4>1
      <4> QED BY <1>0, <2>2, <4>4, <4>5
    <3>2. /\ IsInjective(dir) /\ IsInjective(all)
          /\ \A j \in start_index..Len(dir), i \in 1..Len(all) : dir[j] # all[i]
      BY <2>1, <2>4 DEF TwiceInv
    <3>3. ASSUME NEW i \in 1..Len(all'), NEW j \in 1..Len(all'), all'[i] = all'[j] PROVE i = j
      <4>1. CASE i \in 1..Len(all) /\ j \in 1..Len(all)
        BY <1>0, <2>1, <3>2, <3>3, <4>1 DEF IsInjective
      <4>2. CASE i \notin 1..Len(all) /\ j \notin 1..Len(all)
        BY <1>0, <3>1, <3>2, <3>3, <4>2 DEF IsInjective
      <4>3. ASSUME NEW x \in 1..Len(all'), NEW y \in 1..Len(all'), x \in 1..Len(all),
                   y \notin 1..Len(all)
            PROVE  all'[x] # all'[y]
        <5>1. all'[x] = all[x] /\ all'[y] = dir[y] /\ y \in start_index..Len(dir)
          BY <1>0, <2>1, <2>2, <3>1, <4>3
        <5> QED BY <3>2, <4>3, <5>1
      <4> QED BY <3>3, <4>1, <4>2, <4>3
    <3>4. IsInjective(all')
      BY <2>2, <3>3 DEF IsInjective
    <3>5. ASSUME NEW j \in start_index'..Len(dir), NEW i \in 1..Len(all') PROVE dir[j] # all'[i]
      <4>1. j \in start_index..Len(dir) /\ j \in 1..Len(dir) /\ j > start_index + n - 1
        BY <1>0, <2>1, <2>2
      <4>2. CASE i \in 1..Len(all)
        BY <2>1, <3>2, <4>1, <4>2
      <4>3. CASE i \notin 1..Len(all)
        <5>1. i \in 1..Len(dir) /\ i # j /\ all'[i] = dir[i]
          BY <1>0, <2>2, <3>1, <4>1, <4>3
        <5> QED BY <1>0, <3>2, <4>1, <5>1 DEF IsInjective
      <4> QED BY <4>2, <4>3
    <3> QED BY <2>1, <3>2, <3>4, <3>5 DEF TwiceInv
  <2> QED BY <2>3, <2>4
<1>4. CASE PageFails
  BY <1>4 DEF PageFails, TwiceInv
<1>5. ASSUME NEW e \in Entries, NEW i \in 1..(Len(dir) + 1), InsertEntry(e, i) PROVE TwiceInv'
  <2>1. /\ e \notin ToSet(dir) /\ UNCHANGED <<all, start_index, status>>
        /\ dir' = InsertAt(dir, i, e) /\ grown' = (grown \/ status = "listing")
    BY <1>5 DEF InsertEntry, listVars
  <2>2. /\ dir' \in Seq(Entries) /\ Len(dir') = Len(dir) + 1
        /\ \A j \in 1..(Len(dir) + 1) :
             dir'[j] = IF j < i THEN dir[j] ELSE IF j = i THEN e ELSE dir[j - 1]
    <3>1. Inserted(dir, i, e, dir')
      BY <1>0, <2>1, Insertion
    <3> QED BY <3>1 DEF Inserted
  <2>3. \A j \in 1..Len(dir) : dir[j] # e
    BY <1>0, <2>1 DEF ToSet
  <2>4. \A j, k \in 1..Len(dir) : dir[j] = dir[k] => j = k
    BY <1>0 DEF TwiceInv, IsInjective
  <2>5. ASSUME NEW j \in 1..Len(dir'), NEW k \in 1..Len(dir'), dir'[j] = dir'[k] PROVE j = k
    <3> DEFINE old(x) == IF x < i THEN x ELSE x - 1
    <3>1. ASSUME NEW x \in 1..Len(dir'), x # i
          PROVE  old(x) \in 1..Len(dir) /\ dir'[x] = dir[old(x)] /\ dir'[x] # e
      BY <1>0, <2>2, <2>3, <3>1
    <3>2. i \in 1..Len(dir') /\ dir'[i] = e
      BY <1>0, <2>2
    <3>3. CASE j = i \/ k = i
      BY <2>5, <3>1, <3>2, <3>3
    <3>4. CASE j # i /\ k # i
      <4>1. old(j) = old(k)
        BY <2>4, <2>5, <3>1, <3>4
      <4> QED BY <1>0, <2>2, <3>4, <4>1
    <3> QED BY <3>3, <3>4
  <2>6. IsInjective(dir')
    BY <2>2, <2>5 DEF IsInjective
  <2> QED BY <2>1, <2>6 DEF TwiceInv
<1>6. ASSUME NEW i \in 1..Len(dir), RemoveEntry(i) PROVE TwiceInv'
  <2>1. UNCHANGED <<all, start_index, status, grown>> /\ dir' = RemoveAt(dir, i)
    BY <1>6 DEF RemoveEntry, listVars
  <2>2. /\ dir' \in Seq(Entries) /\ Len(dir') = Len(dir) - 1
        /\ \A j \in 1..(Len(dir) - 1) : dir'[j] = IF j < i THEN dir[j] ELSE dir[j + 1]
    <3>1. Removed(dir, i, dir')
      BY <1>0, <2>1, Removal
    <3> QED BY <3>1 DEF Removed
  <2>3. \A j, k \in 1..Len(dir) : dir[j] = dir[k] => j = k
    BY <1>0 DEF TwiceInv, IsInjective
  <2>4. ASSUME NEW j \in 1..Len(dir'), NEW k \in 1..Len(dir'), dir'[j] = dir'[k] PROVE j = k
    <3> DEFINE old(x) == IF x < i THEN x ELSE x + 1
    <3>1. ASSUME NEW x \in 1..Len(dir') PROVE old(x) \in 1..Len(dir) /\ dir'[x] = dir[old(x)]
      BY <1>0, <2>2
    <3>2. old(j) = old(k)
      BY <2>3, <2>4, <3>1
    <3> QED BY <1>0, <2>2, <3>2
  <2>5. IsInjective(dir')
    BY <2>2, <2>4 DEF IsInjective
  <2>6. ASSUME status = "listing", ~grown, NEW j \in start_index..Len(dir'), NEW k \in 1..Len(all)
        PROVE  dir'[j] # all[k]
    <3>1. j \in start_index..Len(dir) /\ j + 1 \in start_index..Len(dir)
      BY <1>0, <2>2
    <3>2. dir[j] # all[k] /\ dir[j + 1] # all[k]
      BY <2>6, <3>1 DEF TwiceInv
    <3> QED BY <1>0, <2>2, <3>1, <3>2
  <2> QED BY <2>1, <2>5, <2>6 DEF TwiceInv
<1> QED BY <1>1, <1>2, <1>3, <1>4, <1>5, <1>6 DEF Next

LEMMA MissedStep == ListInv /\ MissedInv /\ [Next]_vars => MissedInv'
<1> SUFFICES ASSUME ListInv, MissedInv, [Next]_vars PROVE MissedInv'
  OBVIOUS
<1>0. /\ dir \in Seq(Entries) /\ all \in Seq(Entries) /\ start_index \in Nat \ {0}
      /\ Len(all) = start_index - 1 /\ Len(dir) \in Nat
  BY DEF ListInv
<1>1. CASE UNCHANGED vars
  BY <1>1 DEF vars, MissedInv, NothingMissed
<1>2. CASE Begin
  <2>1. \A e \in ToSet(dir) : \E j \in 1..Len(dir) : dir[j] = e
    BY <1>0 DEF ToSet
  <2> QED BY <1>2, <2>1 DEF Begin, MissedInv, NothingMissed
<1>3. CASE Page
  <2>1. PICK n \in 0..PageSize :
           /\ status = "listing" /\ UNCHANGED <<dir, initial, grown, shrunk>>
           /\ start_index' = start_index + n
           /\ all' \in Seq(Entries) /\ Len(all') = Len(all) + n
           /\ \A j \in 1..Len(all) : all'[j] = all[j]
           /\ \A j \in 1..n : all'[Len(all) + j] = dir[start_index + j - 1]
           /\ status' = "complete" /\ ~uncounted' => start_index' > Len(dir)
    BY <1>3, PageStep
  <2>2. n \in Nat /\ DOMAIN all' = 1..Len(all')
    BY <2>1, PaginationAssumption
  <2>3. ASSUME ~shrunk, NEW e \in initial
        PROVE  \/ \E i \in 1..Len(all') : all'[i] = e
               \/ \E j \in start_index'..Len(dir) : dir[j] = e
    <3>1. CASE \E i \in 1..Len(all) : all[i] = e
      <4>1. PICK i \in 1..Len(all) : all[i] = e
        BY <3>1
      <4>2. i \in 1..Len(all') /\ all'[i] = e
        BY <1>0, <2>1, <2>2, <4>1
      <4> QED BY <4>2
    <3>2. CASE \E j \in start_index..Len(dir) : dir[j] = e
      <4>1. PICK j \in start_index..Len(dir) : dir[j] = e
        BY <3>2
      <4>2. CASE j >= start_index + n
        BY <1>0, <2>1, <2>2, <4>1, <4>2
      <4>3. CASE j < start_index + n
        <5>1. j - start_index + 1 \in 1..n
          BY <1>0, <2>2, <4>3
        <5>2. all'[Len(all) + (j - start_index + 1)] = dir[start_index + (j - start_index + 1) - 1]
          BY <2>1, <5>1
        <5>3. /\ Len(all) + (j - start_index + 1) = j
              /\ start_index + (j - start_index + 1) - 1 = j
          BY <1>0
        <5>4. j \in 1..Len(all') /\ all'[j] = e
          BY <1>0, <2>1, <2>2, <4>1, <4>3, <5>2, <5>3
        <5> QED BY <5>4
      <4> QED BY <1>0, <2>2, <4>2, <4>3
    <3> QED BY <2>1, <2>3, <3>1, <3>2 DEF MissedInv
  <2>4. ASSUME status' = "complete", ~shrunk, ~uncounted', NEW e \in initial PROVE e \in ToSet(all')
    <3>1. \E i \in 1..Len(all') : all'[i] = e
      <4>1. start_index' > Len(dir) /\ start_index' \in Nat
        BY <1>0, <2>1, <2>2, <2>4
      <4>2. start_index'..Len(dir) = {}
        BY <1>0, <4>1
      <4> QED BY <2>3, <2>4, <4>2
    <3> QED BY <2>2, <3>1 DEF ToSet
  <2> QED BY <2>1, <2>3, <2>4 DEF MissedInv, NothingMissed
<1>4. CASE PageFails
  BY <1>4 DEF PageFails, MissedInv, NothingMissed
<1>5. ASSUME NEW e \in Entries, NEW i \in 1..(Len(dir) + 1), InsertEntry(e, i) PROVE MissedInv'
  <2>1. /\ UNCHANGED <<all, start_index, status, initial, shrunk, uncounted>>
        /\ dir' = InsertAt(dir, i, e)
    BY <1>5 DEF InsertEntry, listVars
  <2>2. /\ Len(dir') = Len(dir) + 1
        /\ \A j \in 1..(Len(dir) + 1) :
             dir'[j] = IF j < i THEN dir[j] ELSE IF j = i THEN e ELSE dir[j - 1]
    <3>1. Inserted(dir, i, e, dir')
      BY <1>0, <2>1, Insertion
    <3> QED BY <3>1 DEF Inserted
  <2>3. ASSUME NEW x, NEW j \in start_index..Len(dir), dir[j] = x
        PROVE  \E k \in start_index..Len(dir') : dir'[k] = x
    <3>1. CASE j < i
      <4>1. j \in start_index..Len(dir') /\ dir'[j] = x
        BY <1>0, <2>2, <2>3, <3>1
      <4> QED BY <4>1
    <3>2. CASE j >= i
      <4>1. j + 1 \in start_index..Len(dir') /\ dir'[j + 1] = x
        BY <1>0, <2>2, <2>3, <3>2
      <4> QED BY <4>1
    <3> QED BY <1>0, <3>1, <3>2
  <2> QED BY <2>1, <2>3 DEF MissedInv, NothingMissed
<1>6. ASSUME NEW i \in 1..Len(dir), RemoveEntry(i) PROVE MissedInv'
  <2>1. UNCHANGED <<all, status, initial, uncounted>> /\ shrunk' = (shrunk \/ status = "listing")
    BY <1>6 DEF RemoveEntry, listVars
  <2> QED BY <2>1 DEF MissedInv, NothingMissed
<1> QED BY <1>1, <1>2, <1>3, <1>4, <1>5, <1>6 DEF Next

LEMMA ListInit == Init => ListInv /\ TwiceInv /\ MissedInv
<1> SUFFICES ASSUME Init PROVE ListInv /\ TwiceInv /\ MissedInv
  OBVIOUS
<1>1. PageSize * 0 = 0 /\ MaxPages \in Nat
  BY PaginationAssumption
<1>2. ListInv
  <2>1. start_index <= 1 + PageSize * page /\ page \in 0..MaxPages
    BY <1>1 DEF Init
  <2>2. Len(all) = start_index - 1 /\ all \in Seq(Entries) /\ dir \in Seq(Entries)
    BY DEF Init
  <2>3. start_index \in Nat \ {0} /\ initial \subseteq Entries
    BY DEF Init
  <2>4. /\ grown \in BOOLEAN /\ shrunk \in BOOLEAN /\ uncounted \in BOOLEAN
        /\ status \in {"none", "listing", "complete", "truncated", "failed"}
        /\ status # "listing"
    BY DEF Init
  <2> QED BY <2>1, <2>2, <2>3, <2>4, Zenon DEF ListInv
<1>3. TwiceInv /\ MissedInv
  BY DEF Init, TwiceInv, MissedInv, NothingMissed, IsInjective
<1> QED BY <1>2, <1>3

(* A list stays within the page limit and the index within what that many  *)
(* full pages can cover (scim.rs, MAX_PAGINATION_PAGES).                   *)
THEOREM PaginationTypeCorrect == Spec => []TypeOK
<1>1. ListInv => TypeOK
  <2> SUFFICES ASSUME ListInv PROVE TypeOK
    OBVIOUS
  <2>1. PageSize \in Nat /\ MaxPages \in Nat /\ page \in 0..MaxPages
    BY PaginationAssumption DEF ListInv
  <2>2. PageSize * page <= PageSize * MaxPages
    BY <2>1
  <2>3. PageSize * page \in Nat /\ PageSize * MaxPages \in Nat
    BY <2>1
  <2>4. start_index \in 1..(1 + PageSize * MaxPages)
    BY <2>2, <2>3 DEF ListInv
  <2> QED BY <2>4, ToSetIn DEF ListInv, TypeOK
<1> QED BY <1>1, ListInit, ListStep, PTL DEF Spec

(* For every directory and page size, a list with no insertion while it    *)
(* was fetched has no entry twice (scim.rs, start_index += fetched).       *)
THEOREM NothingFetchedTwice == Spec => []NothingTwice
<1>1. TwiceInv => NothingTwice
  BY DEF TwiceInv, NothingTwice
<1> QED BY <1>1, ListInit, ListStep, TwiceStep, PTL DEF Spec

(* For every directory and page size, a complete list with no removal      *)
(* while it was fetched has every entry that was there when it began, if   *)
(* each page said how many there are (scim.rs, the end of the loop).       *)
THEOREM NothingIsMissed == Spec => []NothingMissed
<1>1. MissedInv => NothingMissed
  BY DEF MissedInv
<1> QED BY <1>1, ListInit, ListStep, MissedStep, PTL DEF Spec
=============================================================================
