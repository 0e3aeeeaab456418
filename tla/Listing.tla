-------------------------------- MODULE Listing --------------------------------
(***************************************************************************)
(* GET /blob: one client walks the pages of a filtered listing             *)
(* (controllers/list.go, BlobService.List, BlobRepository.List) while       *)
(* blobs are uploaded, edited and deleted.                                  *)
(*                                                                          *)
(* Rows are numbered in the order of created_at, so that "created_at DESC"  *)
(* lists the larger number first.  A row is in the listing when it exists   *)
(* and the filters match it; an Edit of its bucket or filename can take it  *)
(* out and bring it back at its old place.                                  *)
(***************************************************************************)
EXTENDS Naturals, FiniteSets

CONSTANTS
    MaxRows,          \* bound on uploads
    MaxChanges,       \* bound on rows that enter or leave during the walk
    MaxPageSize,      \* 100 in BlobRepository.List
    DefaultPageSize,  \* 20 in ListBlobsController
    AskedSizes,       \* the page_size parameters the client may send
    Rules             \* when it stops: at an "empty" page, or after "pages"

ListingAssumption ==
    /\ MaxRows \in Nat /\ MaxChanges \in Nat /\ AskedSizes \subseteq Nat
    /\ MaxPageSize \in Nat \ {0} /\ DefaultPageSize \in 1..MaxPageSize
    /\ Rules \subseteq {"empty", "pages"}

VARIABLES
    created,   \* how many rows have been made
    listed,    \* the rows the filters match
    asked,     \* page_size, the same for the whole walk
    rule,      \* when the client stops
    page,      \* the page it asks for
    total,     \* what Count returned
    pc,        \* the next step of the walk
    seen,      \* the rows it has received
    stayed,    \* history: in the listing since the walk began
    entered,   \* history: rows that came into the listing during the walk
    left,      \* history: rows that left it
    repeated   \* history: rows received again

client == <<asked, rule, page, total, pc, seen, repeated>>
vars == <<created, listed, client, stayed, entered, left>>

Ids == 1..MaxRows
InWalk == pc # "idle"
MaxPages == MaxRows + 1

TypeOK ==
    /\ created \in 0..MaxRows /\ listed \subseteq 1..created
    /\ asked \in AskedSizes /\ rule \in Rules
    /\ page \in 1..MaxPages /\ total \in 0..MaxRows
    /\ pc \in {"idle", "count", "rows", "done"}
    /\ seen \subseteq Ids /\ stayed \subseteq listed
    /\ entered \in 0..MaxChanges /\ left \in 0..MaxChanges
    /\ repeated \in Nat

-----------------------------------------------------------------------------
(* ListBlobsController replaces a page_size below 1; the repository cuts    *)
(* what is too large, in its own copy of the filter.                        *)
PageSize == IF asked < 1 THEN DefaultPageSize ELSE asked
Limit == IF PageSize > MaxPageSize THEN MaxPageSize ELSE PageSize

Offset_Bug(p) == (p - 1) * PageSize
Offset(p) == (p - 1) * Limit

\* The place of a row in the order created_at DESC, from 1.
Place(i) == Cardinality({j \in listed : j >= i})

Rows_Bug(p) == {i \in listed : Place(i) \in Offset(p)..(Offset(p) + Limit)}
Rows(p) == {i \in listed : Place(i) \in (Offset(p) + 1)..(Offset(p) + Limit)}

\* BlobService.List divides by the page size that was asked for.
Pages == IF total = 0 THEN 1 ELSE (total + PageSize - 1) \div PageSize

-----------------------------------------------------------------------------
Init ==
    /\ created = 0 /\ listed = {}
    /\ asked \in AskedSizes /\ rule \in Rules
    /\ page = 1 /\ total = 0 /\ pc = "idle"
    /\ seen = {} /\ stayed = {} /\ entered = 0 /\ left = 0 /\ repeated = 0

Begin ==
    /\ pc = "idle"
    /\ pc' = "count" /\ stayed' = listed
    /\ UNCHANGED <<created, listed, asked, rule, page, total, seen, entered, left, repeated>>

\* The first query of BlobRepository.List ...
Count ==
    /\ pc = "count"
    /\ total' = Cardinality(listed)
    /\ pc' = "rows"
    /\ UNCHANGED <<created, listed, asked, rule, page, seen, stayed, entered, left, repeated>>

LastPage == IF rule = "empty" THEN Rows(page) = {} ELSE page >= Pages

\* ... and the second, with the reply and what the client does of it.
Find ==
    /\ pc = "rows"
    /\ seen' = seen \cup Rows(page)
    /\ repeated' = repeated + Cardinality(Rows(page) \cap seen)
    /\ IF LastPage THEN pc' = "done" /\ UNCHANGED page
                   ELSE pc' = "count" /\ page' = page + 1
    /\ UNCHANGED <<created, listed, asked, rule, total, stayed, entered, left>>

Enters(i) ==
    /\ InWalk => entered < MaxChanges
    /\ listed' = listed \cup {i}
    /\ entered' = IF InWalk THEN entered + 1 ELSE entered

\* CreateWithFile, of a blob that the filters match.
Upload ==
    /\ pc # "done" /\ created < MaxRows
    /\ created' = created + 1
    /\ Enters(created + 1)
    /\ UNCHANGED <<client, stayed, left>>

\* Delete, PurgeExpired, or an Edit after which the filters do not match.
Leave(i) ==
    /\ pc # "done" /\ i \in listed
    /\ InWalk => left < MaxChanges
    /\ listed' = listed \ {i} /\ stayed' = stayed \ {i}
    /\ left' = IF InWalk THEN left + 1 ELSE left
    /\ UNCHANGED <<created, client, entered>>

\* An Edit after which they match again.
Return(i) ==
    /\ pc # "done" /\ i \in (1..created) \ listed
    /\ Enters(i)
    /\ UNCHANGED <<created, client, stayed, left>>

Done == pc = "done" /\ UNCHANGED vars

Next == Begin \/ Count \/ Find \/ Upload \/ Done
        \/ \E i \in Ids : Leave(i) \/ Return(i)

Spec == Init /\ [][Next]_vars

-----------------------------------------------------------------------------
Missed == stayed \ seen

(* Pages are offsets into a listing that moves.  A client that walks to an  *)
(* empty page misses at most one row for each row that left meanwhile; one  *)
(* that trusts "pages" can also be cut short by rows that entered after the *)
(* Count.  Nothing is missed in a listing nobody changes.  (Of a page_size  *)
(* within the repository's maximum, when the client trusts "pages".)        *)
MissesBounded ==
    pc = "done" =>
        CASE rule = "empty" -> Cardinality(Missed) <= left
          [] rule = "pages" /\ PageSize <= MaxPageSize -> Cardinality(Missed) <= left + entered
          [] OTHER -> TRUE

(* A row is received again only because rows entered in front of it.        *)
RepeatsBounded == repeated <= entered

(* README.md:295, "page_size: Items per page", with the reply's per_page    *)
(* and pages: in a listing nobody changes, a client that reads that many    *)
(* pages has every row.                                                     *)
PagesReachAll == pc = "done" /\ entered = 0 /\ left = 0 => Missed = {}
================================================================================
