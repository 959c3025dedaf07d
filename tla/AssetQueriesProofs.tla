-------------------------- MODULE AssetQueriesProofs --------------------------
(***************************************************************************)
(* What holds of AssetQueries for any finite set of assets, any number of  *)
(* clients and every limit.                                                *)
(***************************************************************************)
EXTENDS AssetQueries, FiniteSetTheorems, TLAPS

\* How many assets of M are newer than a.
Rank(M, a) == Cardinality({b \in M : createdAt[b] > createdAt[a]})

-----------------------------------------------------------------------------
(***************************************************************************)
(* Type correctness.                                                       *)
(***************************************************************************)

\* Whatever limit is asked for, the limit in force is a number, and not 0
\* unless an operator asked for that.
LEMMA EffectiveLimitType ==
    ASSUME NEW api \in BOOLEAN, NEW n \in Numbers, ~api => n > 0
    PROVE  /\ EffectiveLimit(api, n) \in Nat
           /\ EffectiveLimit(api, n) > 0
           /\ api => EffectiveLimit(api, n) \in 1..MaxLimit \cup {DefaultLimit}
BY NumbersAssumption DEF EffectiveLimit

\* The assets that match a filter are a finite set of existing ones.
LEMMA MatchingFinite ==
    ASSUME TypeOK, NEW f
    PROVE  /\ Matching(f) \subseteq assets
           /\ IsFiniteSet(Matching(f))
           /\ Cardinality(Matching(f)) \in Nat
<1>1. Matching(f) \in SUBSET Assets
    BY DEF Matching, TypeOK
<1>2. IsFiniteSet(Matching(f))
    BY <1>1, FS_Subset, AssetsAssumption
<1>3. QED BY <1>2, FS_CardinalityType DEF Matching

\* TypeOK is inductive.
LEMMA TypeStep == TypeOK /\ [Next]_vars => TypeOK'
<1> SUFFICES ASSUME TypeOK, [Next]_vars PROVE TypeOK'
    OBVIOUS
<1> USE DEF TypeOK
<1>1. CASE UNCHANGED vars
    BY <1>1 DEF vars, stored, query
<1>2. ASSUME NEW a \in Assets, CreateAsset(a) PROVE TypeOK'
    BY <1>2 DEF CreateAsset, query
<1>3. ASSUME NEW a \in Assets, UpdateAsset(a) PROVE TypeOK'
    BY <1>3 DEF UpdateAsset, query
<1>4. ASSUME NEW c \in Clients, QueryAssets(c) PROVE TypeOK'
    <2>1. PICK f \in Filters, api \in BOOLEAN, n \in Numbers :
              /\ ~api => n > 0
              /\ walks' = [walks EXCEPT ![c] = api]
              /\ filter' = [filter EXCEPT ![c] = f]
              /\ limit' = [limit EXCEPT ![c] = EffectiveLimit(api, n)]
              /\ start' = [start EXCEPT ![c] = Matching(f)]
        BY <1>4 DEF QueryAssets
    <2>2. f \in Filter /\ Matching(f) \in SUBSET assets
        BY FiltersAssumption DEF Matching
    <2>3. DEFINE e == EffectiveLimit(api, n)
    <2>4. /\ e \in Nat /\ e > 0
          /\ api => e \in 1..MaxLimit \cup {DefaultLimit}
        BY <2>1, EffectiveLimitType
    <2> QED
        BY <1>4, <2>1, <2>2, <2>4 DEF QueryAssets, stored
<1>5. ASSUME NEW c \in Clients, CountDocuments(c) PROVE TypeOK'
    BY <1>5, MatchingFinite DEF CountDocuments, stored
<1>6. ASSUME NEW c \in Clients, FindPage(c) PROVE TypeOK'
    <2>1. PICK P \in SUBSET Matching(filter[c]) :
              /\ page' = [page EXCEPT ![c] = P]
              /\ shown' = [shown EXCEPT ![c] = @ \cup P]
        BY <1>6 DEF FindPage
    <2>2. P \in SUBSET assets
        BY DEF Matching
    <2> QED
        BY <1>6, <2>1, <2>2 DEF FindPage, stored
<1>7. ASSUME NEW c \in Clients, QueryFailed(c) PROVE TypeOK'
    BY <1>7 DEF QueryFailed, stored
<1>8. ASSUME NEW c \in Clients, NextPage(c) PROVE TypeOK'
    BY <1>8 DEF NextPage, stored
<1>9. ASSUME NEW c \in Clients, Leave(c) PROVE TypeOK'
    BY <1>9 DEF Leave, stored, NoFilter, Filter
<1> QED
    BY <1>1, <1>2, <1>3, <1>4, <1>5, <1>6, <1>7, <1>8, <1>9 DEF Next, ClientStep

\* Every state of a query has its type: the limit in force is never 0, and
\* exceeds MaxLimit in the TUI only (or as the default).
THEOREM QueryTypes == Spec => []TypeOK
<1>1. Init => TypeOK
    BY StatusAssumption DEF Init, TypeOK, NoFilter, Filter
<1>2. QED BY <1>1, TypeStep, PTL DEF Spec

-----------------------------------------------------------------------------
(***************************************************************************)
(* Pages.  When creation times differ, the page after the first k assets   *)
(* holds exactly those with k to k+n-1 newer ones.                         *)
(***************************************************************************)

\* A rank is a number, and can only grow as assets are added.
LEMMA RankGrows ==
    ASSUME NEW N, IsFiniteSet(N), NEW M \in SUBSET N, NEW a
    PROVE  /\ Rank(M, a) \in Nat
           /\ Rank(N, a) \in Nat
           /\ Rank(M, a) <= Rank(N, a)
<1> DEFINE above(S) == {b \in S : createdAt[b] > createdAt[a]}
<1>1. above(N) \in SUBSET N /\ above(M) \in SUBSET above(N)
    OBVIOUS
<1>2. IsFiniteSet(above(N)) /\ IsFiniteSet(above(M))
    BY <1>1, FS_Subset
<1>3. Cardinality(above(M)) <= Cardinality(above(N))
    BY <1>1, <1>2, FS_Subset
<1>4. QED BY <1>2, <1>3, FS_CardinalityType DEF Rank

\* The sizes of a page and of what it skips.  A page shorter than the limit
\* is the last one.
PageSizes(M, skipped, P, n, k) ==
    /\ IsFiniteSet(skipped) /\ IsFiniteSet(P) /\ IsFiniteSet(skipped \cup P)
    /\ Cardinality(skipped) \in Nat /\ Cardinality(skipped) <= k
    /\ Cardinality(P) \in Nat /\ Cardinality(P) <= n
    /\ Cardinality(M) \in Nat
    /\ Cardinality(skipped \cup P) = Cardinality(skipped) + Cardinality(P)
    /\ Cardinality(skipped) = k \/ P = {}
    /\ Cardinality(P) = n \/ skipped \cup P = M
    /\ Cardinality(skipped) = k \/ skipped = M
    /\ Cardinality(P) < n => k + Cardinality(P) >= Cardinality(M)

\* The page that IsPage describes has these sizes.
LEMMA PageSize ==
    ASSUME NEW M, IsFiniteSet(M), NEW n \in Nat, NEW k \in Nat,
           NEW skipped, skipped \subseteq M, NEW P, P \subseteq M \ skipped,
           IsPage(M, skipped, P, n, k)
    PROVE  PageSizes(M, skipped, P, n, k)
<1> USE DEF AtMost
<1>1. /\ IsFiniteSet(skipped) /\ IsFiniteSet(M \ skipped)
      /\ P \in SUBSET M /\ skipped \cup P \in SUBSET M
    BY FS_Subset
<1>2. IsFiniteSet(P) /\ IsFiniteSet(skipped \cup P)
    BY <1>1, FS_Subset
<1>3. /\ Cardinality(skipped) \in Nat /\ Cardinality(P) \in Nat
      /\ Cardinality(M) \in Nat /\ Cardinality(M \ skipped) \in Nat
    BY <1>1, <1>2, FS_CardinalityType
<1>4. Cardinality(skipped \cup P) = Cardinality(skipped) + Cardinality(P)
    <2>1. skipped \cap P = {}
        OBVIOUS
    <2>2. Cardinality(skipped \cap P) = 0
        BY <2>1, FS_EmptySet
    <2>3. Cardinality(skipped \cup P)
              = Cardinality(skipped) + Cardinality(P) - Cardinality(skipped \cap P)
        BY <1>1, <1>2, FS_Union
    <2> QED
        BY <1>3, <2>2, <2>3
<1>5. Cardinality(M \ skipped) = Cardinality(M) - Cardinality(skipped)
    <2>1. M \cap skipped = skipped
        OBVIOUS
    <2> QED
        BY <2>1, FS_Difference
<1>6. /\ Cardinality(skipped) = IF k <= Cardinality(M) THEN k ELSE Cardinality(M)
      /\ Cardinality(P) = IF n <= Cardinality(M \ skipped) THEN n
                          ELSE Cardinality(M \ skipped)
    BY DEF IsPage
<1>7. Cardinality(skipped) = k \/ skipped = M
    BY <1>6, FS_Subset
<1>8. Cardinality(P) = n \/ P = M \ skipped
    BY <1>1, <1>6, FS_Subset
<1>9. QED BY <1>1, <1>2, <1>3, <1>4, <1>5, <1>6, <1>7, <1>8 DEF PageSizes

\* A set of newer assets bounds the rank from below, and a set that holds all
\* the newer ones bounds it from above.
LEMMA RankBounds ==
    ASSUME NEW M, IsFiniteSet(M), NEW a, NEW S \in SUBSET M
    PROVE  /\ (\A b \in S : createdAt[b] > createdAt[a]) => Cardinality(S) <= Rank(M, a)
           /\ (\A b \in M : createdAt[b] > createdAt[a] => b \in S)
                  => Rank(M, a) <= Cardinality(S)
<1> DEFINE above == {b \in M : createdAt[b] > createdAt[a]}
<1>1. above \in SUBSET M
    OBVIOUS
<1>2. IsFiniteSet(above) /\ IsFiniteSet(S)
    BY <1>1, FS_Subset
<1>3. S \in SUBSET above => Cardinality(S) <= Cardinality(above)
    BY <1>2, FS_Subset
<1>4. above \in SUBSET S => Cardinality(above) <= Cardinality(S)
    BY <1>2, FS_Subset
<1>5. QED BY <1>3, <1>4 DEF Rank

\* When the times in M differ, an asset before the page has fewer than k newer
\* ones, one on the page has between k and k+n-1, and one after it has k+n.
LEMMA PageRanks ==
    ASSUME NEW M, IsFiniteSet(M), NEW n \in Nat, NEW k \in Nat,
           \A a \in M : createdAt[a] \in Nat,
           \A a, b \in M : createdAt[a] = createdAt[b] => a = b,
           NEW skipped, skipped \subseteq M, NEW P, P \subseteq M \ skipped,
           IsPage(M, skipped, P, n, k)
    PROVE  /\ \A a \in skipped : Rank(M, a) < k
           /\ \A a \in P : Rank(M, a) >= k /\ Rank(M, a) < k + n
           /\ \A a \in M \ P : Rank(M, a) >= k =>
                  Cardinality(P) = n /\ Rank(M, a) >= k + n
<1>0. PageSizes(M, skipped, P, n, k)
    BY PageSize
<1> DEFINE S == Cardinality(skipped)
           p == Cardinality(P)
           U == skipped \cup P
<1>1. /\ \A a \in skipped, b \in M \ skipped : createdAt[a] >= createdAt[b]
      /\ \A a \in P, b \in (M \ skipped) \ P : createdAt[a] >= createdAt[b]
    BY DEF IsPage
<1>2. /\ IsFiniteSet(skipped) /\ IsFiniteSet(U)
      /\ S \in Nat /\ S <= k /\ p \in Nat /\ p <= n
      /\ Cardinality(U) = S + p
      /\ S = k \/ P = {}
      /\ p = n \/ U = M
      /\ S = k \/ skipped = M
    BY <1>0 DEF PageSizes
<1>3. \A a \in M : Rank(M, a) \in Nat
    BY RankGrows
<1> HIDE DEF S, p, U
<1>4. ASSUME NEW a \in P PROVE Rank(M, a) >= k /\ Rank(M, a) < k + n
    <2>1. \A b \in skipped : createdAt[b] > createdAt[a]
        BY <1>1
    <2>2. S <= Rank(M, a)
        BY <2>1, RankBounds DEF S
    <2>3. U \ {a} \in SUBSET M
        BY DEF U
    <2>4. \A b \in M : createdAt[b] > createdAt[a] => b \in U \ {a}
        BY <1>1 DEF U
    <2>5. Rank(M, a) <= Cardinality(U \ {a})
        BY <2>3, <2>4, RankBounds
    <2>6. Cardinality(U \ {a}) = Cardinality(U) - 1
        BY <1>2, FS_RemoveElement DEF U
    <2> QED
        BY <1>2, <1>3, <2>2, <2>5, <2>6
<1>5. ASSUME NEW a \in skipped PROVE Rank(M, a) < k
    <2>1. \A b \in M : createdAt[b] > createdAt[a] => b \in skipped \ {a}
        BY <1>1
    <2>2. Rank(M, a) <= Cardinality(skipped \ {a})
        BY <2>1, RankBounds
    <2>3. Cardinality(skipped \ {a}) = S - 1
        BY <1>2, FS_RemoveElement DEF S
    <2> QED
        BY <1>2, <1>3, <2>2, <2>3
<1>6. ASSUME NEW a \in M \ P, Rank(M, a) >= k PROVE p = n /\ Rank(M, a) >= k + n
    <2>1. a \notin skipped
        BY <1>3, <1>5, <1>6
    <2>2. p = n /\ S = k
        BY <1>2, <2>1 DEF U
    <2>3. U \in SUBSET M /\ \A b \in U : createdAt[b] > createdAt[a]
        BY <1>1, <2>1 DEF U
    <2>4. Cardinality(U) <= Rank(M, a)
        BY <2>3, RankBounds
    <2> QED
        BY <1>2, <1>3, <2>2, <2>4
<1>7. QED BY <1>4, <1>5, <1>6 DEF p

\* Two sets together have no more elements than one and the other.
LEMMA UnionBound ==
    ASSUME NEW A, NEW B, IsFiniteSet(A), IsFiniteSet(B), NEW U \in SUBSET (A \cup B)
    PROVE  Cardinality(U) <= Cardinality(A) + Cardinality(B)
<1>1. /\ IsFiniteSet(A \cup B) /\ IsFiniteSet(A \cap B)
      /\ Cardinality(A \cup B)
             = Cardinality(A) + Cardinality(B) - Cardinality(A \cap B)
    BY FS_Union, FS_Intersection
<1>2. /\ Cardinality(A) \in Nat /\ Cardinality(B) \in Nat
      /\ Cardinality(A \cap B) \in Nat
    BY <1>1, FS_CardinalityType
<1>3. IsFiniteSet(U) /\ Cardinality(U) <= Cardinality(A \cup B)
    BY <1>1, FS_Subset
<1>4. Cardinality(U) \in Nat
    BY <1>3, FS_CardinalityType
<1>5. QED BY <1>1, <1>2, <1>3, <1>4

-----------------------------------------------------------------------------
(***************************************************************************)
(* The walk.  Of the assets that matched at the start, those not shown yet *)
(* have at least as many newer ones as the client has gone past; so of the *)
(* rows it was given, all but those created meanwhile are different.       *)
(***************************************************************************)

\* How far the client has gone, counting the page it holds.
Passed(c) == IF pc[c] = "page" THEN offset[c] + limit[c] ELSE offset[c]

WalkInv(c) ==
    AnyStatus(c) =>
        /\ start[c] \subseteq Matching(filter[c])
        /\ NoTies => \A a \in start[c] \ shown[c] :
              /\ Rank(Matching(filter[c]), a) >= Passed(c)
              /\ ~ShortPage(c)

Created(c) == Matching(filter[c]) \ start[c]

RowsInv(c) ==
    /\ pc[c] = "page" => Cardinality(page[c]) <= limit[c]
    /\ AnyStatus(c) => Rows(c) <= Cardinality(Matching(filter[c]))
    /\ AnyStatus(c) /\ NoTies =>
           Rows(c) <= Cardinality(shown[c]) + Cardinality(Created(c))

CountInv(c) ==
    AnyStatus(c) =>
        /\ pc[c] = "find" => total[c] <= Cardinality(Matching(filter[c]))
        /\ ShortPage(c) => offset[c] + Cardinality(page[c]) >= total[c]

IdleInv(c) == pc[c] = "idle" => start[c] = {} /\ shown[c] = {}

QueryInv(c) == IdleInv(c) /\ WalkInv(c) /\ RowsInv(c) /\ CountInv(c)

Inv == TypeOK /\ \A c \in Clients : QueryInv(c)

\* What a client has been shown is finite, and its rows are a number.
LEMMA OwnSizes ==
    ASSUME TypeOK, NEW c \in Clients
    PROVE  /\ IsFiniteSet(shown[c]) /\ IsFiniteSet(page[c])
           /\ Cardinality(shown[c]) \in Nat /\ Cardinality(page[c]) \in Nat
           /\ Rows(c) \in Nat
<1>1. shown[c] \in SUBSET Assets /\ page[c] \in SUBSET Assets
    BY DEF TypeOK
<1>2. IsFiniteSet(shown[c]) /\ IsFiniteSet(page[c])
    BY <1>1, FS_Subset, AssetsAssumption
<1>3. Cardinality(shown[c]) \in Nat /\ Cardinality(page[c]) \in Nat
    BY <1>2, FS_CardinalityType
<1>4. offset[c] \in Nat
    BY DEF TypeOK
<1>5. QED BY <1>2, <1>3, <1>4 DEF Rows

\* While nothing of a client changes and no asset that matches for it is lost,
\* its invariant holds on.
LEMMA OthersStep ==
    ASSUME TypeOK, TypeOK', NEW c \in Clients, QueryInv(c),
           pc'[c] = pc[c], filter'[c] = filter[c], limit'[c] = limit[c],
           offset'[c] = offset[c], total'[c] = total[c], page'[c] = page[c],
           start'[c] = start[c], shown'[c] = shown[c], createdAt' = createdAt,
           AnyStatus(c) => Matching(filter[c]) \subseteq Matching(filter[c])'
    PROVE  QueryInv(c)'
<1> DEFINE M == Matching(filter[c])
           N == Matching(filter[c])'
<1>1. /\ AnyStatus(c)' <=> AnyStatus(c)
      /\ ShortPage(c)' <=> ShortPage(c)
      /\ Passed(c)' = Passed(c)
      /\ Rows(c)' = Rows(c)
      /\ NoTies' <=> NoTies
    BY DEF AnyStatus, ShortPage, Passed, Rows, NoTies
<1>2. IsFiniteSet(M) /\ IsFiniteSet(N)
    <2>1. N \in SUBSET Assets
        BY DEF Matching, TypeOK
    <2> QED
        BY <2>1, MatchingFinite, FS_Subset, AssetsAssumption
<1>3. \A a : Rank(Matching(filter[c]), a)' = Rank(N, a)
    BY DEF Rank
<1>4. ASSUME AnyStatus(c), NEW a
      PROVE  /\ Rank(M, a) \in Nat /\ Rank(N, a) \in Nat
             /\ Rank(M, a) <= Rank(N, a)
    BY <1>2, <1>4, RankGrows
<1>5. AnyStatus(c) => Cardinality(M) <= Cardinality(N)
    BY <1>2, FS_Subset
<1>6. Cardinality(M) \in Nat /\ Cardinality(N) \in Nat /\ total[c] \in Nat
      /\ Passed(c) \in Nat
    BY <1>2, FS_CardinalityType DEF TypeOK, Passed
<1> HIDE DEF M, N
<1>7. WalkInv(c)'
    <2> SUFFICES ASSUME AnyStatus(c)
                 PROVE  /\ start[c] \subseteq N
                        /\ NoTies => \A a \in start[c] \ shown[c] :
                              Rank(N, a) >= Passed(c) /\ ~ShortPage(c)
        BY <1>1, <1>3 DEF WalkInv, N
    <2>1. /\ start[c] \subseteq M /\ M \subseteq N
          /\ NoTies => \A a \in start[c] \ shown[c] :
                Rank(M, a) >= Passed(c) /\ ~ShortPage(c)
        BY DEF QueryInv, WalkInv, M, N
    <2> QED
        BY <1>4, <1>6, <2>1
<1>8. CountInv(c)'
    BY <1>1, <1>5, <1>6 DEF QueryInv, CountInv, M, N
<1>9. IdleInv(c)'
    BY DEF QueryInv, IdleInv
<1>10. RowsInv(c)'
    <2>1. IsFiniteSet(M \ start[c]) /\ IsFiniteSet(N \ start[c])
        BY <1>2, FS_Difference
    <2>2. AnyStatus(c) => Cardinality(M \ start[c]) <= Cardinality(N \ start[c])
        <3> SUFFICES ASSUME AnyStatus(c)
                     PROVE  M \ start[c] \in SUBSET (N \ start[c])
            BY <2>1, FS_Subset
        <3> QED
            BY DEF M, N
    <2>3. /\ Cardinality(M \ start[c]) \in Nat /\ Cardinality(N \ start[c]) \in Nat
          /\ Cardinality(shown[c]) \in Nat /\ Rows(c) \in Nat
        BY <2>1, OwnSizes, FS_CardinalityType
    <2>4. /\ Created(c) = M \ start[c]
          /\ Created(c)' = N \ start[c]
        BY DEF Created, M, N
    <2> QED
        BY <1>1, <1>5, <1>6, <2>2, <2>3, <2>4 DEF QueryInv, RowsInv, M, N
<1> QED
    BY <1>7, <1>8, <1>9, <1>10 DEF QueryInv

\* The facts about a client's query that its own steps start from.
LEMMA OwnFacts ==
    ASSUME TypeOK, NEW c \in Clients
    PROVE  /\ IsFiniteSet(Matching(filter[c]))
           /\ Cardinality(Matching(filter[c])) \in Nat
           /\ limit[c] \in Nat /\ offset[c] \in Nat /\ total[c] \in Nat
           /\ \A a \in Matching(filter[c]) : createdAt[a] \in Nat
           /\ \A a : Rank(Matching(filter[c]), a) \in Nat
<1>1. Matching(filter[c]) \subseteq Assets
    BY DEF Matching, TypeOK
<1>2. IsFiniteSet(Matching(filter[c]))
    BY MatchingFinite
<1>3. \A a : Rank(Matching(filter[c]), a) \in Nat
    BY <1>2, RankGrows
<1>4. \A a \in Assets : createdAt[a] \in Nat
    BY NumbersAssumption DEF TypeOK
<1>5. QED BY <1>1, <1>2, <1>3, <1>4, MatchingFinite DEF TypeOK

\* A client's step that stores nothing and leaves the filter: matching sets
\* and ranks stay.
LEMMA StoredSame ==
    ASSUME UNCHANGED stored, NEW c \in Clients, filter'[c] = filter[c]
    PROVE  /\ Matching(filter[c])' = Matching(filter[c])
           /\ \A a : Rank(Matching(filter[c]), a)' = Rank(Matching(filter[c]), a)
           /\ start'[c] = start[c] => Created(c)' = Created(c)
           /\ NoTies' <=> NoTies
           /\ AnyStatus(c)' <=> AnyStatus(c)
BY DEF stored, Matching, Created, Rank, NoTies, AnyStatus

\* A client that has not begun has no rows.
LEMMA NoRows ==
    ASSUME TypeOK', NEW c \in Clients, pc'[c] # "page", offset'[c] = 0
    PROVE  RowsInv(c)'
<1> DEFINE M == Matching(filter[c])'
<1>1. M \in SUBSET Assets /\ shown'[c] \in SUBSET Assets
    BY DEF Matching, TypeOK
<1>2. M \ start'[c] \in SUBSET Assets
    BY <1>1
<1>3. /\ Cardinality(M) \in Nat /\ Cardinality(shown'[c]) \in Nat
      /\ Cardinality(M \ start'[c]) \in Nat
    BY <1>1, <1>2, FS_Subset, FS_CardinalityType, AssetsAssumption
<1> QED
    BY <1>3 DEF RowsInv, Rows, Created

\* The first request of a walk: nothing is shown, and no rank is below 0.
LEMMA QueryStep ==
    ASSUME TypeOK, TypeOK', NEW c \in Clients, QueryInv(c), QueryAssets(c)
    PROVE  QueryInv(c)'
<1>1. PICK f \in Filters, api \in BOOLEAN :
          /\ walks' = [walks EXCEPT ![c] = api]
          /\ filter' = [filter EXCEPT ![c] = f]
          /\ start' = [start EXCEPT ![c] = Matching(f)]
    BY DEF QueryAssets
<1>2. /\ shown'[c] = {} /\ offset'[c] = 0 /\ pc'[c] = "ask" /\ filter'[c] = f
      /\ start'[c] = Matching(f)
    <2>1. pc[c] = "idle" /\ shown[c] = {}
        BY DEF QueryAssets, QueryInv, IdleInv
    <2>2. offset[c] = 0
        BY <2>1 DEF TypeOK
    <2> QED
        BY <1>1, <2>1, <2>2 DEF QueryAssets, TypeOK
<1>3. Matching(filter[c])' = Matching(f)
    BY <1>2 DEF Matching, QueryAssets, stored
<1>4. \A a : Rank(Matching(filter[c]), a)' \in Nat
    <2>1. \A a : Rank(Matching(filter[c]), a)' = Rank(Matching(f), a)
        BY <1>3 DEF Rank, QueryAssets, stored
    <2> QED
        BY <2>1, MatchingFinite, RankGrows
<1>5. WalkInv(c)'
    BY <1>2, <1>3, <1>4 DEF WalkInv, Passed, ShortPage
<1>6. CountInv(c)' /\ IdleInv(c)'
    BY <1>2 DEF CountInv, IdleInv, ShortPage
<1>7. RowsInv(c)'
    BY <1>2, NoRows
<1> QED
    BY <1>5, <1>6, <1>7 DEF QueryInv

\* Counting.
LEMMA CountStep ==
    ASSUME TypeOK, TypeOK', NEW c \in Clients, QueryInv(c), CountDocuments(c)
    PROVE  QueryInv(c)'
<1>1. /\ pc[c] = "ask" /\ pc'[c] = "find" /\ filter'[c] = filter[c]
      /\ UNCHANGED <<stored, limit, offset, start, shown>>
      /\ total'[c] = Cardinality(Matching(filter[c]))
    BY DEF CountDocuments, TypeOK
<1>2. WalkInv(c)'
    BY <1>1, StoredSame DEF QueryInv, WalkInv, Passed, ShortPage
<1>3. CountInv(c)' /\ IdleInv(c)'
    BY <1>1, StoredSame, OwnFacts DEF CountInv, IdleInv, ShortPage
<1>4. RowsInv(c)'
    BY <1>1, StoredSame DEF QueryInv, RowsInv, Rows
<1> QED
    BY <1>2, <1>3, <1>4 DEF QueryInv

\* A failed answer: the same request is made again.
LEMMA FailedStep ==
    ASSUME TypeOK, TypeOK', NEW c \in Clients, QueryInv(c), QueryFailed(c)
    PROVE  QueryInv(c)'
<1>1. /\ pc[c] = "find" /\ pc'[c] = "ask" /\ filter'[c] = filter[c]
      /\ UNCHANGED <<stored, limit, offset, start, shown>>
    BY DEF QueryFailed, TypeOK
<1>2. WalkInv(c)'
    BY <1>1, StoredSame DEF QueryInv, WalkInv, Passed, ShortPage
<1>3. CountInv(c)' /\ IdleInv(c)'
    BY <1>1 DEF CountInv, IdleInv, ShortPage
<1>4. RowsInv(c)'
    BY <1>1, StoredSame DEF QueryInv, RowsInv, Rows
<1> QED
    BY <1>2, <1>3, <1>4 DEF QueryInv

\* The page: it holds the assets of the ranks just passed, and if it is short
\* it holds all that were left.
LEMMA FindStep ==
    ASSUME TypeOK, TypeOK', NEW c \in Clients, QueryInv(c), FindPage(c)
    PROVE  QueryInv(c)'
<1> DEFINE M == Matching(filter[c])
<1>1. PICK skipped \in SUBSET M : \E P \in SUBSET (M \ skipped) :
          /\ IsPage(M, skipped, P, limit[c], offset[c])
          /\ page' = [page EXCEPT ![c] = P]
          /\ shown' = [shown EXCEPT ![c] = @ \cup P]
    BY DEF FindPage
<1>2. PICK P \in SUBSET (M \ skipped) :
          /\ IsPage(M, skipped, P, limit[c], offset[c])
          /\ page' = [page EXCEPT ![c] = P]
          /\ shown' = [shown EXCEPT ![c] = @ \cup P]
    BY <1>1
<1>3. /\ pc[c] = "find" /\ pc'[c] = "page" /\ filter'[c] = filter[c]
      /\ UNCHANGED <<stored, limit, offset, total, start>>
      /\ page'[c] = P /\ shown'[c] = shown[c] \cup P
    BY <1>2 DEF FindPage, TypeOK
<1>4. PageSizes(M, skipped, P, limit[c], offset[c])
    BY <1>1, <1>2, OwnFacts, PageSize
<1>5. /\ Passed(c) = offset[c] /\ Passed(c)' = offset[c] + limit[c]
      /\ ShortPage(c)' <=> Cardinality(P) < limit[c]
    BY <1>3 DEF Passed, ShortPage
<1>6. ASSUME NoTies
      PROVE  /\ \A a \in skipped : Rank(M, a) < offset[c]
             /\ \A a \in P : Rank(M, a) >= offset[c] /\ Rank(M, a) < offset[c] + limit[c]
             /\ \A a \in M \ P : Rank(M, a) >= offset[c] =>
                    Cardinality(P) = limit[c] /\ Rank(M, a) >= offset[c] + limit[c]
    <2>1. \A a, b \in M : createdAt[a] = createdAt[b] => a = b
        BY <1>6 DEF NoTies, Matching, TypeOK
    <2>2. /\ IsFiniteSet(M) /\ limit[c] \in Nat /\ offset[c] \in Nat
          /\ \A a \in M : createdAt[a] \in Nat
        BY OwnFacts
    <2>3. IsPage(M, skipped, P, limit[c], offset[c])
        BY <1>2
    <2> HIDE DEF M
    <2> QED
        BY <2>1, <2>2, <2>3, PageRanks
<1>7. \A a : Rank(M, a) \in Nat
    BY OwnFacts
<1>8. /\ Matching(filter[c])' = M /\ (AnyStatus(c)' <=> AnyStatus(c))
      /\ \A a : Rank(Matching(filter[c]), a)' = Rank(M, a)
      /\ NoTies' <=> NoTies
    BY <1>3, StoredSame
<1>9. limit[c] \in Nat /\ offset[c] \in Nat /\ total[c] \in Nat
    BY DEF TypeOK
<1>10. AnyStatus(c) =>
          /\ start[c] \subseteq M
          /\ NoTies => \A a \in start[c] \ shown[c] : Rank(M, a) >= offset[c]
          /\ total[c] <= Cardinality(M)
          /\ offset[c] <= Cardinality(M)
    BY <1>3, <1>5 DEF QueryInv, WalkInv, CountInv, RowsInv, Rows
<1>11. IsFiniteSet(M) /\ IsFiniteSet(shown'[c])
    <2>1. IsFiniteSet(M) /\ IsFiniteSet(shown[c]) /\ IsFiniteSet(P)
        BY <1>4, OwnFacts, OwnSizes DEF PageSizes
    <2>2. IsFiniteSet(shown[c] \cup P)
        BY <2>1, FS_Union
    <2>3. shown'[c] = shown[c] \cup P
        BY <1>3
    <2> QED
        BY <2>1, <2>2, <2>3
<1> HIDE DEF M
<1>12. WalkInv(c)'
    <2> SUFFICES ASSUME AnyStatus(c)
                 PROVE  /\ start[c] \subseteq M
                        /\ NoTies => \A a \in start[c] \ (shown[c] \cup P) :
                              /\ Rank(M, a) >= offset[c] + limit[c]
                              /\ ~(Cardinality(P) < limit[c])
        BY <1>3, <1>5, <1>8 DEF WalkInv
    <2> QED
        BY <1>6, <1>7, <1>9, <1>10
<1>13. CountInv(c)'
    BY <1>3, <1>4, <1>5, <1>8, <1>9, <1>10 DEF CountInv, PageSizes
<1>14. IdleInv(c)'
    BY <1>3 DEF IdleInv
<1>15. RowsInv(c)'
    <2>1. /\ Rows(c)' = offset[c] + Cardinality(P)
          /\ Created(c)' = M \ start[c]
        BY <1>3, <1>8 DEF Rows, Created
    <2>2. AnyStatus(c) => Cardinality(skipped \cup P) = offset[c] + Cardinality(P)
        BY <1>4, <1>9, <1>10 DEF PageSizes
    <2>3. Cardinality(P) <= limit[c] /\ Cardinality(skipped \cup P) <= Cardinality(M)
        <3>1. skipped \cup P \in SUBSET M
            OBVIOUS
        <3> QED
            BY <1>4, <1>11, <3>1, FS_Subset DEF PageSizes
    <2>4. ASSUME AnyStatus(c), NoTies
          PROVE  skipped \cup P \in SUBSET (shown'[c] \cup (M \ start[c]))
        <3>1. \A a \in skipped \cap start[c] : a \in shown[c]
            BY <1>6, <1>7, <1>9, <1>10, <2>4
        <3> QED
            BY <1>3, <3>1
    <2>5. ASSUME AnyStatus(c), NoTies
          PROVE  Cardinality(skipped \cup P)
                     <= Cardinality(shown'[c]) + Cardinality(M \ start[c])
        <3>1. IsFiniteSet(M \ start[c])
            BY <1>11, FS_Difference
        <3> QED
            BY <1>11, <2>4, <2>5, <3>1, UnionBound
    <2> QED
        BY <1>3, <1>8, <2>1, <2>2, <2>3, <2>5 DEF RowsInv
<1> QED
    BY <1>12, <1>13, <1>14, <1>15 DEF QueryInv

\* A full page: the next request begins where the page ends.
LEMMA NextStep ==
    ASSUME TypeOK, TypeOK', NEW c \in Clients, QueryInv(c), NextPage(c)
    PROVE  QueryInv(c)'
<1>1. /\ pc[c] = "page" /\ pc'[c] = "ask" /\ filter'[c] = filter[c]
      /\ UNCHANGED <<stored, limit, start, shown>>
      /\ offset'[c] = offset[c] + limit[c]
    BY DEF NextPage, TypeOK
<1>2. Passed(c)' = Passed(c) /\ ~ShortPage(c)'
    BY <1>1 DEF Passed, ShortPage
<1>3. WalkInv(c)'
    BY <1>1, <1>2, StoredSame DEF QueryInv, WalkInv
<1>4. CountInv(c)' /\ IdleInv(c)'
    BY <1>1, <1>2 DEF CountInv, IdleInv
<1>5. Cardinality(page[c]) = limit[c]
    BY <1>1, OwnFacts, OwnSizes DEF NextPage, ShortPage, QueryInv, RowsInv
<1>6. RowsInv(c)'
    BY <1>1, <1>5, StoredSame DEF QueryInv, RowsInv, Rows
<1> QED
    BY <1>3, <1>4, <1>6 DEF QueryInv

\* Leaving forgets the query.
LEMMA LeaveStep ==
    ASSUME TypeOK, TypeOK', NEW c \in Clients, Leave(c)
    PROVE  QueryInv(c)'
<1>1. pc'[c] = "idle" /\ start'[c] = {} /\ shown'[c] = {} /\ offset'[c] = 0
    BY DEF Leave, TypeOK
<1>2. RowsInv(c)'
    BY <1>1, NoRows
<1> QED
    BY <1>1, <1>2 DEF QueryInv, IdleInv, WalkInv, CountInv, ShortPage, Passed

-----------------------------------------------------------------------------
\* Inv is inductive.
LEMMA InvStep == Inv /\ [Next]_vars => Inv'
<1> SUFFICES ASSUME Inv, [Next]_vars PROVE Inv'
    OBVIOUS
<1>1. TypeOK /\ TypeOK' /\ \A c \in Clients : QueryInv(c)
    BY TypeStep DEF Inv
<1>2. CASE UNCHANGED vars
    <2>1. SUFFICES ASSUME NEW c \in Clients PROVE QueryInv(c)'
        BY <1>1 DEF Inv
    <2>2. Matching(filter[c])' = Matching(filter[c])
        BY <1>2 DEF Matching, vars, stored, query
    <2> QED
        BY <1>1, <1>2, <2>2, OthersStep DEF vars, stored, query
<1>3. ASSUME NEW a \in Assets, CreateAsset(a) \/ UpdateAsset(a) PROVE Inv'
    <2>1. SUFFICES ASSUME NEW c \in Clients PROVE QueryInv(c)'
        BY <1>1 DEF Inv
    <2>2. UNCHANGED query /\ createdAt' = createdAt
        BY <1>3 DEF CreateAsset, UpdateAsset
    <2>3. AnyStatus(c) => Matching(filter[c]) \subseteq Matching(filter[c])'
        BY <1>3, <2>2 DEF AnyStatus, Matching, CreateAsset, UpdateAsset, query
    <2> QED
        BY <1>1, <2>2, <2>3, OthersStep DEF query
<1>4. ASSUME NEW d \in Clients, ClientStep(d) PROVE Inv'
    <2>1. SUFFICES ASSUME NEW c \in Clients PROVE QueryInv(c)'
        BY <1>1 DEF Inv
    <2>2. CASE c = d
        BY <1>1, <1>4, <2>2, QueryStep, CountStep, FindStep, FailedStep, NextStep,
           LeaveStep DEF ClientStep
    <2>3. CASE c # d
        <3>1. /\ UNCHANGED stored
              /\ pc'[c] = pc[c] /\ filter'[c] = filter[c] /\ limit'[c] = limit[c]
              /\ offset'[c] = offset[c] /\ total'[c] = total[c]
              /\ page'[c] = page[c] /\ start'[c] = start[c] /\ shown'[c] = shown[c]
            BY <1>1, <1>4, <2>3 DEF ClientStep, QueryAssets, CountDocuments, FindPage,
               QueryFailed, NextPage, Leave, TypeOK, stored
        <3>2. Matching(filter[c])' = Matching(filter[c])
            BY <3>1, StoredSame
        <3> QED
            BY <1>1, <3>1, <3>2, OthersStep DEF stored
    <2> QED
        BY <2>2, <2>3
<1> QED
    BY <1>2, <1>3, <1>4 DEF Next

\* The invariant holds from the start on.
LEMMA InvHolds == Spec => []Inv
<1>1. Init => Inv
    <2> SUFFICES ASSUME Init PROVE Inv
        OBVIOUS
    <2>1. TypeOK
        BY StatusAssumption DEF Init, TypeOK, NoFilter, Filter
    <2>2. ASSUME NEW c \in Clients PROVE QueryInv(c)
        <3>1. pc[c] = "idle" /\ offset[c] = 0 /\ shown[c] = {} /\ start[c] = {}
            BY DEF Init
        <3>2. Matching(filter[c]) = {} /\ Created(c) = {} /\ Rows(c) = 0
            BY <3>1 DEF Init, Matching, Created, Rows
        <3>3. Cardinality({}) = 0
            BY FS_EmptySet
        <3>4. RowsInv(c)
            BY <3>1, <3>2, <3>3 DEF RowsInv
        <3> QED
            BY <3>1, <3>4 DEF QueryInv, IdleInv, WalkInv, CountInv, ShortPage, Passed
    <2> QED
        BY <2>1, <2>2 DEF Inv
<1>2. QED BY <1>1, InvStep, PTL DEF Spec

\* A walk of GET /v1/assets that has come to a short page has shown every
\* asset that matched when it began, whatever is created meanwhile.
THEOREM PagesMissNothingHolds == Spec => []PagesMissNothing
<1>1. Inv => PagesMissNothing
    BY DEF Inv, QueryInv, WalkInv, PagesMissNothing
<1>2. QED BY <1>1, InvHolds, PTL

\* The page of an answer has all that the total, counted before, promises.
THEOREM PageFitsTotalHolds == Spec => []PageFitsTotal
<1>1. Inv => PageFitsTotal
    BY DEF Inv, QueryInv, CountInv, PageFitsTotal
<1>2. QED BY <1>1, InvHolds, PTL

\* Over the pages of one walk of GET /v1/assets no more rows are shown again
\* than matching assets were created since it began.
THEOREM RepeatsFollowCreationsHolds == Spec => []RepeatsFollowCreations
<1>1. Inv => RepeatsFollowCreations
    BY DEF Inv, QueryInv, RowsInv, Created, RepeatsFollowCreations
<1>2. QED BY <1>1, InvHolds, PTL
=============================================================================
