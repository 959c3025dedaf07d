----------------------------- MODULE AssetQueries -----------------------------
(***************************************************************************)
(* How a client pages through GET /v1/assets while assets are created and  *)
(* change their status.  A query counts the matching assets and then finds *)
(* one page of them, newest first, in two database calls; the page is      *)
(* sorted by createdAt alone, which CreateAsset stamps before it inserts.  *)
(*                                                                         *)
(* A client of the API walks: it asks for one page after another, moving   *)
(* the offset by the limit of the answer, until a page is shorter than     *)
(* that.  An operator of the TUI asks for one page, of any size.           *)
(***************************************************************************)
EXTENDS Naturals, FiniteSets

CONSTANTS
    Assets,        \* the assets of one tenant that may come to exist
    Clients,       \* clients of GET /v1/assets and operators of the TUI
    Classes,       \* office, category, type and acquisition date: what never changes
    Statuses,      \* what does
    Active,        \* the status of a new asset
    Blank,         \* a filter field that is not given
    Filters,       \* the filters asked with
    Times,         \* values of createdAt
    Numbers,       \* limits asked for
    DefaultLimit,  \* 20
    MaxLimit       \* 100, the largest limit the handler accepts

ASSUME AssetsAssumption == IsFiniteSet(Assets)
ASSUME NumbersAssumption ==
    /\ Times \subseteq Nat
    /\ Numbers \subseteq Nat
    /\ DefaultLimit \in Nat \ {0}
    /\ MaxLimit \in Nat \ {0}
ASSUME StatusAssumption == Active \in Statuses

Filter == [class: Classes \cup {Blank}, status: Statuses \cup {Blank}]
NoFilter == [class |-> Blank, status |-> Blank]

ASSUME FiltersAssumption == Filters \subseteq Filter

VARIABLES
    assets,     \* the assets collection
    class,      \* class[a]: fields of a no handler changes
    createdAt,  \* createdAt[a]: the time stamped on a
    status,     \* status[a]
    pc,         \* pc[c]: where the client is
    walks,      \* walks[c]: whether it is a client of the API
    filter,     \* filter[c]: the filter of its query
    limit,      \* limit[c]: the limit in force
    offset,     \* offset[c]
    total,      \* total[c]: the count of the query under way
    page,       \* page[c]: the assets of the last page
    start,      \* start[c]: history, what matched when it began
    shown       \* shown[c]: history, what it has been shown

stored == <<assets, class, createdAt, status>>
query == <<pc, walks, filter, limit, offset, total, page, start, shown>>
vars == <<stored, query>>

Matching(f) ==
    {a \in assets : f.class \in {Blank, class[a]} /\ f.status \in {Blank, status[a]}}

\* Fault: the handler takes any limit, 0 too.
EffectiveLimitUnchecked(api, n) == n

\* What the handler makes of a limit: outside 1..100 it is dropped without a
\* word.  The TUI takes any.
EffectiveLimit(api, n) == IF api => n \in 1..MaxLimit THEN n ELSE DefaultLimit

AtMost(m, n) == IF m <= n THEN m ELSE n

TypeOK ==
    /\ assets \subseteq Assets
    /\ class \in [Assets -> Classes]
    /\ createdAt \in [Assets -> Times]
    /\ status \in [Assets -> Statuses]
    /\ pc \in [Clients -> {"idle", "ask", "find", "page"}]
    /\ walks \in [Clients -> BOOLEAN]
    /\ filter \in [Clients -> Filter]
    /\ limit \in [Clients -> Nat]
    /\ offset \in [Clients -> Nat]
    /\ total \in [Clients -> Nat]
    /\ page \in [Clients -> SUBSET assets]
    /\ start \in [Clients -> SUBSET assets]
    /\ shown \in [Clients -> SUBSET assets]
    /\ \A c \in Clients :
         /\ walks[c] => pc[c] # "idle" /\ limit[c] \in 1..MaxLimit \cup {DefaultLimit}
         /\ ~walks[c] => offset[c] = 0 /\ (pc[c] # "idle" => limit[c] > 0)

Init ==
    /\ assets = {}
    /\ class \in [Assets -> Classes]
    /\ createdAt \in [Assets -> Times]
    /\ status = [a \in Assets |-> Active]
    /\ pc = [c \in Clients |-> "idle"]
    /\ walks = [c \in Clients |-> FALSE]
    /\ filter = [c \in Clients |-> NoFilter]
    /\ limit = [c \in Clients |-> 0]
    /\ offset = [c \in Clients |-> 0]
    /\ total = [c \in Clients |-> 0]
    /\ page = [c \in Clients |-> {}]
    /\ start = [c \in Clients |-> {}]
    /\ shown = [c \in Clients |-> {}]

-----------------------------------------------------------------------------
\* Assets are created in any order of their times: the time is stamped first.
CreateAsset(a) ==
    /\ a \in Assets \ assets
    /\ assets' = assets \cup {a}
    /\ UNCHANGED <<class, createdAt, status, query>>

UpdateAsset(a) ==
    /\ a \in assets
    /\ \E s \in Statuses : status' = [status EXCEPT ![a] = s]
    /\ UNCHANGED <<assets, class, createdAt, query>>

\* A client begins with offset 0.  The TUI refuses a limit of 0.
QueryAssets(c) ==
    /\ pc[c] = "idle"
    /\ \E f \in Filters, api \in BOOLEAN, n \in Numbers :
         /\ ~api => n > 0
         /\ walks' = [walks EXCEPT ![c] = api]
         /\ filter' = [filter EXCEPT ![c] = f]
         /\ limit' = [limit EXCEPT ![c] = EffectiveLimit(api, n)]
         /\ start' = [start EXCEPT ![c] = Matching(f)]
    /\ pc' = [pc EXCEPT ![c] = "ask"]
    /\ UNCHANGED <<stored, offset, total, page, shown>>

\* Fault: the count leaves the filter out.
CountAll(c) ==
    /\ pc[c] = "ask"
    /\ total' = [total EXCEPT ![c] = Cardinality(assets)]
    /\ pc' = [pc EXCEPT ![c] = "find"]
    /\ UNCHANGED <<stored, walks, filter, limit, offset, page, start, shown>>

CountDocuments(c) ==
    /\ pc[c] = "ask"
    /\ total' = [total EXCEPT ![c] = Cardinality(Matching(filter[c]))]
    /\ pc' = [pc EXCEPT ![c] = "find"]
    /\ UNCHANGED <<stored, walks, filter, limit, offset, page, start, shown>>

\* Fault: the page is not sorted.
IsPageUnsorted(M, skipped, P, n, k) ==
    /\ Cardinality(skipped) = AtMost(k, Cardinality(M))
    /\ Cardinality(P) = AtMost(n, Cardinality(M \ skipped))

\* Fault: an offset of 1 is not passed on to the database.
IsPageOffByOne(M, skipped, P, n, k) ==
    /\ Cardinality(skipped) = IF k > 1 THEN AtMost(k, Cardinality(M)) ELSE 0
    /\ Cardinality(P) = AtMost(n, Cardinality(M \ skipped))
    /\ \A a \in skipped, b \in M \ skipped : createdAt[a] >= createdAt[b]
    /\ \A a \in P, b \in (M \ skipped) \ P : createdAt[a] >= createdAt[b]

\* P is the page of at most n assets that follows the first k of M, newest
\* first.  Assets of one time come in any order.
IsPage(M, skipped, P, n, k) ==
    /\ Cardinality(skipped) = AtMost(k, Cardinality(M))
    /\ Cardinality(P) = AtMost(n, Cardinality(M \ skipped))
    /\ \A a \in skipped, b \in M \ skipped : createdAt[a] >= createdAt[b]
    /\ \A a \in P, b \in (M \ skipped) \ P : createdAt[a] >= createdAt[b]

FindPage(c) ==
    /\ pc[c] = "find"
    /\ LET M == Matching(filter[c])
       IN  \E skipped \in SUBSET M : \E P \in SUBSET (M \ skipped) :
             /\ IsPage(M, skipped, P, limit[c], offset[c])
             /\ page' = [page EXCEPT ![c] = P]
             /\ shown' = [shown EXCEPT ![c] = @ \cup P]
    /\ pc' = [pc EXCEPT ![c] = "page"]
    /\ UNCHANGED <<stored, walks, filter, limit, offset, total, start>>

\* A database call fails: the answer is an error and the client asks again.
QueryFailed(c) ==
    /\ pc[c] = "find"
    /\ pc' = [pc EXCEPT ![c] = "ask"]
    /\ UNCHANGED <<stored, walks, filter, limit, offset, total, page, start, shown>>

ShortPage(c) == pc[c] = "page" /\ Cardinality(page[c]) < limit[c]

NextPage(c) ==
    /\ walks[c]
    /\ pc[c] = "page"
    /\ ~ShortPage(c)
    /\ offset' = [offset EXCEPT ![c] = @ + limit[c]]
    /\ pc' = [pc EXCEPT ![c] = "ask"]
    /\ UNCHANGED <<stored, walks, filter, limit, total, page, start, shown>>

\* The client has what it wants, or gives up.
Leave(c) ==
    /\ pc[c] \in {"ask", "page"}
    /\ pc' = [pc EXCEPT ![c] = "idle"]
    /\ walks' = [walks EXCEPT ![c] = FALSE]
    /\ filter' = [filter EXCEPT ![c] = NoFilter]
    /\ limit' = [limit EXCEPT ![c] = 0]
    /\ offset' = [offset EXCEPT ![c] = 0]
    /\ total' = [total EXCEPT ![c] = 0]
    /\ page' = [page EXCEPT ![c] = {}]
    /\ start' = [start EXCEPT ![c] = {}]
    /\ shown' = [shown EXCEPT ![c] = {}]
    /\ UNCHANGED stored

ClientStep(c) ==
    \/ QueryAssets(c)
    \/ CountDocuments(c)
    \/ FindPage(c)
    \/ QueryFailed(c)
    \/ NextPage(c)
    \/ Leave(c)

Next ==
    \/ \E a \in Assets : CreateAsset(a)
    \/ \E a \in Assets : UpdateAsset(a)
    \/ \E c \in Clients : ClientStep(c)

Spec == Init /\ [][Next]_vars

-----------------------------------------------------------------------------
(***************************************************************************)
(* Safety.  Disposals take assets out of a query for active ones, so these *)
(* are about queries that leave the status blank; and paging rests on      *)
(* creation times that differ.                                             *)
(***************************************************************************)
NoTies == \A a, b \in Assets : createdAt[a] = createdAt[b] => a = b

AnyStatus(c) == filter[c].status = Blank

\* However many assets are created while a client walks the pages, in
\* whatever order of their times, a client that has come to a short page has
\* been shown every asset that matched when it began.
PagesMissNothing ==
    NoTies => \A c \in Clients : AnyStatus(c) /\ ShortPage(c) => start[c] \subseteq shown[c]

\* The rows of all the pages a client has been given.
Rows(c) == IF pc[c] = "page" THEN offset[c] + Cardinality(page[c]) ELSE offset[c]

\* However the creations fall between its requests, a client that walks the
\* pages is shown assets over again no more often than assets that match were
\* created meanwhile.
RepeatsFollowCreations ==
    NoTies => \A c \in Clients :
        AnyStatus(c) =>
            Rows(c) <= Cardinality(shown[c]) + Cardinality(Matching(filter[c]) \ start[c])

\* The total of an answer is counted before its page is found: the page has
\* at least the assets that the total and the offset promise.
PageFitsTotal ==
    \A c \in Clients :
        AnyStatus(c) /\ ShortPage(c) => offset[c] + Cardinality(page[c]) >= total[c]
=============================================================================
