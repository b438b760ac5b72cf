----------------------------- MODULE Pagination -----------------------------
(***************************************************************************)
(* paginate_list of src/src/scim.rs: a list is fetched page by page with   *)
(* 1-based start indices, from a directory that others edit meanwhile.     *)
(*                                                                         *)
(* The server lists its entries in some order and answers a page with at   *)
(* most the requested number of them, possibly fewer.  It says how many it *)
(* has at that moment, or leaves totalResults out, which is read as 0.     *)
(***************************************************************************)
EXTENDS Integers, SequencesExt

CONSTANTS
  Entries,     \* identifiers of resources
  PageSize,    \* count
  MaxPages     \* MAX_PAGINATION_PAGES

ASSUME PaginationAssumption ==
  PageSize \in Nat \ {0} /\ MaxPages \in Nat \ {0}

VARIABLES
  dir,          \* the server's entries in its order
  all,          \* what has been fetched
  start_index,  \* index of the next entry to ask for
  page,         \* pages fetched
  status,       \* of the last list
  initial,      \* history: the entries when it began
  grown,        \* history: an entry was inserted while it was fetched
  shrunk,       \* history: an entry was removed while it was fetched
  uncounted     \* history: a page came without totalResults

listVars == <<all, start_index, page, status>>
vars == <<dir, all, start_index, page, status, initial, grown, shrunk, uncounted>>

Init ==
  /\ dir = <<>> /\ all = <<>> /\ start_index = 1 /\ page = 0
  /\ status = "none" /\ initial = {} /\ grown = FALSE /\ shrunk = FALSE
  /\ uncounted = FALSE

Begin ==
  /\ status # "listing"
  /\ status' = "listing"
  /\ all' = <<>> /\ start_index' = 1 /\ page' = 0
  /\ initial' = ToSet(dir) /\ grown' = FALSE /\ shrunk' = FALSE
  /\ uncounted' = FALSE
  /\ UNCHANGED dir

(* The sizes of an answer to the request for the next page. *)
Fetched ==
  LET rest == Len(dir) - start_index + 1
  IN  IF rest <= 0 THEN {0} ELSE 1..Min({rest, PageSize})

(* serde(default) of totalResults. *)
Missing == 0

(* Mutant of Page: the next page starts a full page further. *)
PageSkipping ==
  /\ status = "listing"
  /\ \E n \in Fetched, total_results \in {Len(dir), Missing} :
       /\ all' = all \o SubSeq(dir, start_index, start_index + n - 1)
       /\ status' = IF Len(all') >= total_results \/ n = 0 THEN "complete"
                    ELSE IF page + 1 = MaxPages THEN "truncated" ELSE "listing"
       /\ start_index' = start_index + PageSize
       /\ page' = page + 1
       /\ uncounted' = (uncounted \/ total_results = Missing)
  /\ UNCHANGED <<dir, initial, grown, shrunk>>

(* Mutant of Page: the last entry of a page is asked for again. *)
PageOverlapping ==
  /\ status = "listing"
  /\ \E n \in Fetched, total_results \in {Len(dir), Missing} :
       /\ all' = all \o SubSeq(dir, start_index, start_index + n - 1)
       /\ status' = IF Len(all') >= total_results \/ n = 0 THEN "complete"
                    ELSE IF page + 1 = MaxPages THEN "truncated" ELSE "listing"
       /\ start_index' = IF n = 0 THEN start_index ELSE start_index + n - 1
       /\ page' = page + 1
       /\ uncounted' = (uncounted \/ total_results = Missing)
  /\ UNCHANGED <<dir, initial, grown, shrunk>>

(* Mutant of Page: no page limit. *)
PageUnlimited ==
  /\ status = "listing"
  /\ \E n \in Fetched, total_results \in {Len(dir), Missing} :
       /\ all' = all \o SubSeq(dir, start_index, start_index + n - 1)
       /\ status' = IF Len(all') >= total_results \/ n = 0 THEN "complete" ELSE "listing"
       /\ start_index' = start_index + n
       /\ page' = page + 1
       /\ uncounted' = (uncounted \/ total_results = Missing)
  /\ UNCHANGED <<dir, initial, grown, shrunk>>

(* One iteration: fetch, append, and stop when there is as much as the     *)
(* server says it has, or nothing came, or the page limit is reached.      *)
Page ==
  /\ status = "listing"
  /\ \E n \in Fetched, total_results \in {Len(dir), Missing} :
       /\ all' = all \o SubSeq(dir, start_index, start_index + n - 1)
       /\ status' = IF Len(all') >= total_results \/ n = 0 THEN "complete"
                    ELSE IF page + 1 = MaxPages THEN "truncated" ELSE "listing"
       /\ start_index' = start_index + n
       /\ page' = page + 1
       /\ uncounted' = (uncounted \/ total_results = Missing)
  /\ UNCHANGED <<dir, initial, grown, shrunk>>

PageFails ==
  /\ status = "listing"
  /\ status' = "failed"
  /\ UNCHANGED <<dir, all, start_index, page, initial, grown, shrunk, uncounted>>

(* The directory is edited by others. *)
InsertEntry(e, i) ==
  /\ e \notin ToSet(dir)
  /\ dir' = InsertAt(dir, i, e)
  /\ grown' = (grown \/ status = "listing")
  /\ UNCHANGED <<listVars, initial, shrunk, uncounted>>

RemoveEntry(i) ==
  /\ dir' = RemoveAt(dir, i)
  /\ shrunk' = (shrunk \/ status = "listing")
  /\ UNCHANGED <<listVars, initial, grown, uncounted>>

Next ==
  \/ Begin \/ Page \/ PageFails
  \/ \E e \in Entries, i \in 1..(Len(dir) + 1) : InsertEntry(e, i)
  \/ \E i \in 1..Len(dir) : RemoveEntry(i)

Spec == Init /\ [][Next]_vars

-----------------------------------------------------------------------------

TypeOK ==
  /\ ToSet(dir) \subseteq Entries /\ ToSet(all) \subseteq Entries
  /\ start_index \in 1..(1 + PageSize * MaxPages) /\ page \in 0..MaxPages
  /\ status \in {"none", "listing", "complete", "truncated", "failed"}
  /\ initial \subseteq Entries /\ grown \in BOOLEAN /\ shrunk \in BOOLEAN /\ uncounted \in BOOLEAN

(* A list with no insertion while it was fetched has no entry twice,       *)
(* whatever was removed and however short the pages were (scim.rs,         *)
(* start_index += fetched).                                                *)
NothingTwice ==
  ~grown => IsInjective(all)

(* A complete list with no removal while it was fetched has every entry    *)
(* that was there when it began, whatever was inserted and however short   *)
(* the pages were, provided that each page said how many entries there     *)
(* are: a page without totalResults ends the list wherever it comes        *)
(* (scim.rs, ListResponse and the end of the loop).                        *)
NothingMissed ==
  status = "complete" /\ ~shrunk /\ ~uncounted => initial \subseteq ToSet(all)
=============================================================================
