----------------------------- MODULE Pagination -----------------------------
(***************************************************************************)
(* A client lists its documents (findAll) or transactions                  *)
(* (findTransactions) page by page, until hasNextPage is false, while      *)
(* items appear and disappear.  A document is uploaded, deleted or changes *)
(* its status, by which the list is filtered: it enters where its creation *)
(* time puts it, and may leave and come back.  Each page is two queries,   *)
(* its rows and their count.                                               *)
(***************************************************************************)
EXTENDS Integers, FiniteSets, SequencesExt

CONSTANTS
  Items,      \* creation times of all that may ever be listed, all distinct
  MaxTake,    \* the largest page a client may ask for
  MaxInserts, \* bound: items that appear during the walk
  MaxDeletes  \* bound: items that disappear during it

ASSUME ItemsAssumption == Items \subseteq Int /\ IsFiniteSet(Items)
ASSUME MaxTakeAssumption == MaxTake \in 1..50
ASSUME BoundsAssumption == MaxInserts \in Nat /\ MaxDeletes \in Nat

VARIABLES
  rows,      \* the items that match the query, oldest first
  stayed,    \* the ones that did all the time since the walk began
  ever,      \* the ones that did at any time since
  inserts, deletes,
  options,   \* PageOptionsDto
  data,      \* the rows of the current page
  asked,     \* the count of the current page is still missing
  got,       \* the rows the client has received
  done

vars == <<rows, stayed, ever, inserts, deletes, options, data, asked, got, done>>

OldestFirst(s) == \A i, j \in DOMAIN s : i < j => s[i] < s[j]

Init ==
  /\ \E n \in 0..Cardinality(Items) : rows \in {s \in [1..n -> Items] : OldestFirst(s)}
  /\ stayed = ToSet(rows)
  /\ ever = ToSet(rows)
  /\ inserts = 0 /\ deletes = 0
  /\ options \in [order : {"ASC", "DESC"}, page : {1}, take : 1..MaxTake]
  /\ data = <<>> /\ got = <<>>
  /\ asked = FALSE /\ done = FALSE

-----------------------------------------------------------------------------
(* PageOptionsDto and PageMetaDto *)

OverlapMutant(o) == (o.page - 1) * (o.take - 1)
Skip(o) == (o.page - 1) * o.take

(* Math.ceil(itemCount / take) *)
FullPagesMutant(itemCount, take) == itemCount \div take
PageCount(itemCount, take) == (itemCount + take - 1) \div take

AnyItemsMutant(o, itemCount) == itemCount > 0
HasNextPage(o, itemCount) == o.page < PageCount(itemCount, o.take)

Ordered == IF options.order = "ASC" THEN rows ELSE Reverse(rows)

-----------------------------------------------------------------------------

(* The first query: take and skip. *)
FindPage ==
  /\ ~done /\ ~asked
  /\ data' = SubSeq(Ordered, Skip(options) + 1,
                    IF Len(rows) < Skip(options) + options.take
                    THEN Len(rows) ELSE Skip(options) + options.take)
  /\ asked' = TRUE
  /\ UNCHANGED <<rows, stayed, ever, inserts, deletes, options, got, done>>

(* The second query.  Newer versions of TypeORM leave it out for a page that *)
(* is neither full nor empty and count from the page.                        *)
ItemCount ==
  {Len(rows)} \union
  IF data # <<>> /\ Len(data) < options.take THEN {Skip(options) + Len(data)} ELSE {}

(* The client receives the page and asks for the next. *)
ReturnPage ==
  /\ asked
  /\ got' = got \o data
  /\ asked' = FALSE
  /\ \E itemCount \in ItemCount :
       /\ done' = ~HasNextPage(options, itemCount)
       /\ options' = [options EXCEPT !.page =
                        IF HasNextPage(options, itemCount) THEN @ + 1 ELSE @]
  /\ data' = <<>>
  /\ UNCHANGED <<rows, stayed, ever, inserts, deletes>>

Insert ==
  /\ ~done /\ inserts < MaxInserts
  /\ \E i \in Items \ ToSet(rows), k \in 1..Len(rows) + 1 :
       /\ rows' = InsertAt(rows, k, i)
       /\ OldestFirst(rows')
       /\ ever' = ever \union {i}
  /\ inserts' = inserts + 1
  /\ UNCHANGED <<stayed, deletes, options, data, asked, got, done>>

Delete ==
  /\ ~done /\ deletes < MaxDeletes
  /\ \E k \in DOMAIN rows :
       /\ rows' = RemoveAt(rows, k)
       /\ stayed' = stayed \ {rows[k]}
  /\ deletes' = deletes + 1
  /\ UNCHANGED <<ever, inserts, options, data, asked, got, done>>

Next == FindPage \/ ReturnPage \/ Insert \/ Delete

Spec == Init /\ [][Next]_vars

-----------------------------------------------------------------------------

(* A walk through all the pages misses no item that was there all the time,  *)
(* except one for every item that disappeared meanwhile                      *)
(* (page-options.dto.ts:38, page-meta.dto.ts:33).                            *)
MissedForDeletes == done => Cardinality(stayed \ ToSet(got)) <= deletes

(* A walk lists no item twice, except one for every item that appeared, the  *)
(* same one come back or another that pushed it to the next page, in either  *)
(* order (document.service.ts:123-130).                                      *)
RepeatedForInserts == Len(got) - Cardinality(ToSet(got)) <= inserts

(* A walk asks for no more pages than everything that was ever listed fills: *)
(* it ends, although items keep appearing (page-meta.dto.ts:35).             *)
WalkIsShort ==
  options.page = 1 \/ options.page <= PageCount(Cardinality(ever), options.take)
=============================================================================
