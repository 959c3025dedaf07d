------------------------- MODULE AssetLifecycleProofs -------------------------
(***************************************************************************)
(* AssetLifecycle for any number of calls and locations: the audit trail   *)
(* accounts for the asset, and a disposal that no transfer overlaps stays. *)
(***************************************************************************)
EXTENDS AssetLifecycle, FiniteSetTheorems, TLAPS

\* The initial state is well-typed.
LEMMA TypeInit == Init => TypeOK
<1> SUFFICES ASSUME Init PROVE TypeOK
    OBVIOUS
<1>1. Ingested \in Asset /\ NoRequest \in Requests
    BY OriginAssumption DEF Ingested, NoRequest, Asset, Requests
<1> QED
    BY <1>1, BoundAssumption DEF Init, TypeOK, PCs

\* What a call writes and records is of the right kind.
LEMMA ChangedType ==
    ASSUME TypeOK, NEW w \in Calls
    PROVE  Changed(w) \in Asset /\ Event(w) \in Events
<1>1. request[w] \in Requests /\ copy[w] \in Asset
    BY DEF TypeOK
<1>2. Changed(w) \in Asset
    BY <1>1 DEF Changed, Asset, Requests
<1>3. Event(w) \in Events
  <2>1. CASE request[w].event = "dispose"
    BY <2>1 DEF Event, Events
  <2>2. CASE request[w].event # "dispose"
    <3>1. Event(w) = [event |-> "transfer", from |-> copy[w].location,
                      to |-> request[w].to]
      BY <2>2 DEF Event
    <3>2. copy[w].location \in Locations /\ request[w].to \in Locations
      BY <1>1 DEF Asset, Requests
    <3> QED
      BY <3>1, <3>2 DEF Events
  <2> QED
    BY <2>1, <2>2
<1> QED
    BY <1>2, <1>3

\* Every step keeps the types.
LEMMA TypeStep == TypeOK /\ [Next]_vars => TypeOK'
<1> SUFFICES ASSUME TypeOK, [Next]_vars PROVE TypeOK'
    OBVIOUS
<1> USE DEF PCs
<1>a. Ingested \in Asset /\ NoRequest \in Requests
    BY OriginAssumption DEF Ingested, NoRequest, Asset, Requests
<1>b. ASSUME NEW w \in Calls, ClearCall(w), asset' = asset, trail' = trail,
             calls' = calls, failures' \in 0..MaxFailures
      PROVE  TypeOK'
    BY <1>a, <1>b DEF TypeOK, ClearCall, GoTo
<1>c. ASSUME failures < MaxFailures PROVE failures + 1 \in 0..MaxFailures
    BY <1>c, BoundAssumption DEF TypeOK
<1>d. ASSUME calls < MaxCalls PROVE calls + 1 \in 0..MaxCalls
    BY <1>d, BoundAssumption DEF TypeOK
<1>1. CASE CreateAsset
    BY <1>a, <1>1 DEF TypeOK, CreateAsset
<1>2. ASSUME NEW w \in Calls, TransferAsset(w) PROVE TypeOK'
  <2>1. PICK to \in Locations :
           request' = [request EXCEPT ![w] = [event |-> "transfer", to |-> to]]
    BY <1>2 DEF TransferAsset
  <2>2. [event |-> "transfer", to |-> to] \in Requests
    BY DEF Requests
  <2> QED
    BY <1>2, <1>d, <2>1, <2>2 DEF TypeOK, TransferAsset, GoTo
<1>3. ASSUME NEW w \in Calls, DisposeAsset(w) PROVE TypeOK'
  <2>1. [request[w] EXCEPT !.event = "dispose"] \in Requests
    BY DEF TypeOK, Requests
  <2>2. request' \in [Calls -> Requests]
    BY <1>3, <2>1 DEF TypeOK, DisposeAsset
  <2> QED
    BY <1>3, <1>d, <2>2 DEF TypeOK, DisposeAsset, GoTo
<1>4. ASSUME NEW w \in Calls, GetAsset(w) PROVE TypeOK'
    BY <1>4 DEF TypeOK, GetAsset, GoTo
<1>5. ASSUME NEW w \in Calls, AssetNotFound(w) PROVE TypeOK'
    BY <1>5, <1>b DEF AssetNotFound, TypeOK
<1>6. ASSUME NEW w \in Calls, UpdateAsset(w) PROVE TypeOK'
    BY <1>6, ChangedType DEF TypeOK, UpdateAsset, GoTo
<1>7. ASSUME NEW w \in Calls, CreateAssetHistory(w) PROVE TypeOK'
    BY <1>7, ChangedType DEF TypeOK, CreateAssetHistory, GoTo
<1>8. ASSUME NEW w \in Calls, Return(w) PROVE TypeOK'
    BY <1>8, <1>b DEF Return, TypeOK
<1>9. ASSUME NEW w \in Calls, DatabaseError(w) PROVE TypeOK'
  <2>1. CASE ClearCall(w)
    BY <1>9, <1>b, <1>c, <2>1 DEF DatabaseError
  <2>2. CASE GoTo(w, "done") /\ UNCHANGED <<request, copy>>
    BY <1>9, <1>c, <2>2 DEF TypeOK, DatabaseError, GoTo
  <2> QED
    BY <1>9, <2>1, <2>2 DEF DatabaseError
<1>10. ASSUME NEW w \in Calls, Stop(w) PROVE TypeOK'
    BY <1>10, <1>b, <1>c DEF Stop
<1>11. CASE UNCHANGED vars
    BY <1>11 DEF TypeOK, vars
<1> QED
    BY <1>1, <1>2, <1>3, <1>4, <1>5, <1>6, <1>7, <1>8, <1>9, <1>10, <1>11
    DEF Next, CallStep

\* The asset, the trail and every copy in a call's hands are what the types
\* say, whatever calls overlap or fail.
THEOREM TypeCorrect == Spec => []TypeOK
<1> QED
    BY TypeInit, TypeStep, PTL DEF Spec

-----------------------------------------------------------------------------
(***************************************************************************)
(* The audit trail.  A call may write or record what it has read a long    *)
(* time ago, so the copies have to be accounted for as well.               *)
(***************************************************************************)
Known == Shown \cup UNION {Facts(copy[w]) : w \in Calls}

Unexplained == {f \in Known : ~LedTo(f)}

TrailInv == IsFiniteSet(Unexplained) /\ Cardinality(Unexplained) <= failures

\* A copy's facts are known, the asset's too, and no others but what the
\* trail's transfers left.
LEMMA KnownFacts ==
    ASSUME NEW f
    PROVE  f \in Known <=>
              \/ asset # None /\ f \in Facts(asset)
              \/ \E w \in Calls : f \in Facts(copy[w])
              \/ \E e \in trail : e.event = "transfer" /\ f = <<"location", e.from>>
BY DEF Known, Shown

\* Initially there is nothing but the copies calls have before they read.
LEMMA TrailInit == Init => TrailInv
<1> SUFFICES ASSUME Init PROVE TrailInv
    OBVIOUS
<1>1. ASSUME NEW f \in Known PROVE LedTo(f)
    BY <1>1, KnownFacts DEF Init, LedTo
<1>2. Unexplained = {}
    BY <1>1 DEF Unexplained
<1> QED
    BY <1>2, FS_EmptySet DEF TrailInv, Init

\* What is led to stays so as long as the trail's events stay, and the writes
\* that await their event turn into events or go on waiting, but for those lost.
LEMMA LeadsStand ==
    ASSUME trail \subseteq trail', NEW lost,
           \A w \in Recording : \/ w \in Recording' /\ request'[w] = request[w]
                                \/ Event(w) \in trail'
                                \/ Outcome(request[w]) \in lost
    PROVE  \A f : LedTo(f) => LedTo(f)' \/ f \in lost
<1> SUFFICES ASSUME NEW f, LedTo(f), f \notin lost PROVE LedTo(f)'
    OBVIOUS
<1>1. CASE f \in Facts(Ingested)
    BY <1>1 DEF LedTo, Facts, Ingested
<1>2. CASE \E e \in trail : Outcome(e) = f
    BY <1>2 DEF LedTo, Outcome
<1>3. CASE \E w \in Recording : Outcome(request[w]) = f
  <2>1. PICK w \in Recording : Outcome(request[w]) = f
    BY <1>3
  <2>2. CASE w \in Recording' /\ request'[w] = request[w]
    BY <2>1, <2>2 DEF LedTo, Outcome
  <2>3. CASE Event(w) \in trail'
    <3>1. Outcome(Event(w)) = f
      BY <2>1 DEF Outcome, Event
    <3> QED
      BY <2>3, <3>1 DEF LedTo, Outcome
  <2> QED
    BY <2>1, <2>2, <2>3
<1> QED
    BY <1>1, <1>2, <1>3 DEF LedTo

\* A step that loses none of them leads to all it led to.
LEMMA AllLeadsStand ==
    ASSUME trail \subseteq trail',
           \A w \in Recording : \/ w \in Recording' /\ request'[w] = request[w]
                                \/ Event(w) \in trail'
    PROVE  \A f : LedTo(f) => LedTo(f)'
<1> DEFINE lost == {}
<1>1. \A f : f \notin lost
    OBVIOUS
<1> HIDE DEF lost
<1>2. \A f : LedTo(f) => LedTo(f)' \/ f \in lost
    BY LeadsStand
<1> QED
    BY <1>1, <1>2

\* A step that loses no event keeps the invariant.
LEMMA NothingLost ==
    ASSUME TrailInv, failures' = failures, failures \in Nat,
           \A f : LedTo(f) => LedTo(f)',
           \A f : f \in Known' => f \in Known \/ LedTo(f)'
    PROVE  TrailInv'
<1>1. Unexplained' \subseteq Unexplained
    BY DEF Unexplained
<1>2. /\ IsFiniteSet(Unexplained') /\ Cardinality(Unexplained') <= Cardinality(Unexplained)
      /\ Cardinality(Unexplained') \in Nat /\ Cardinality(Unexplained) \in Nat
    BY <1>1, FS_Subset, FS_CardinalityType DEF TrailInv
<1> QED
    BY <1>2 DEF TrailInv

\* A failure loses one event at most.
LEMMA OneLost ==
    ASSUME TrailInv, failures' = failures + 1, failures \in Nat, NEW g,
           \A f : LedTo(f) => LedTo(f)' \/ f \in {g},
           \A f : f \in Known' => f \in Known \/ LedTo(f)'
    PROVE  TrailInv'
<1>1. Unexplained' \subseteq Unexplained \cup {g}
    BY DEF Unexplained
<1>2. IsFiniteSet(Unexplained) /\ Cardinality(Unexplained) \in Nat
      /\ Cardinality(Unexplained) <= failures
    BY FS_CardinalityType DEF TrailInv
<1>3. /\ IsFiniteSet(Unexplained \cup {g})
      /\ Cardinality(Unexplained \cup {g}) \in {Cardinality(Unexplained),
                                                Cardinality(Unexplained) + 1}
  <2>1. CASE g \in Unexplained
    BY <1>2, <2>1, Unexplained \cup {g} = Unexplained
  <2>2. CASE g \notin Unexplained
    BY <1>2, <2>2, FS_AddElement
  <2> QED
    BY <2>1, <2>2
<1>4. /\ IsFiniteSet(Unexplained')
      /\ Cardinality(Unexplained') <= Cardinality(Unexplained \cup {g})
      /\ Cardinality(Unexplained') \in Nat
    BY <1>1, <1>3, FS_Subset, FS_CardinalityType
<1> QED
    BY <1>2, <1>3, <1>4 DEF TrailInv

\* Every step keeps what is unexplained below the failures.
LEMMA TrailStep == TypeOK /\ TrailInv /\ [Next]_vars => TrailInv'
<1> SUFFICES ASSUME TypeOK, TrailInv, [Next]_vars PROVE TrailInv'
    OBVIOUS
<1>a. failures \in Nat
    BY BoundAssumption DEF TypeOK
<1>b. \A f : f \in Facts(Ingested) => LedTo(f)'
    BY DEF LedTo, Facts, Ingested
\* What a step that leaves the trail alone makes known.
<1>c. ASSUME trail' = trail,
             asset' = asset \/ \A f : f \in Facts(asset') => f \in Known \/ LedTo(f)',
             \A w \in Calls : \/ copy'[w] = copy[w] \/ copy'[w] = Ingested
                              \/ asset # None /\ copy'[w] = asset
      PROVE  \A f : f \in Known' => f \in Known \/ LedTo(f)'
  <2> SUFFICES ASSUME NEW f, f \in Known' PROVE f \in Known \/ LedTo(f)'
      OBVIOUS
  <2>1. \/ asset' # None /\ f \in Facts(asset')
        \/ \E w \in Calls : f \in Facts(copy'[w])
        \/ \E e \in trail : e.event = "transfer" /\ f = <<"location", e.from>>
      BY <1>c DEF Known, Shown, Facts
  <2>2. CASE asset' # None /\ f \in Facts(asset')
      BY <1>c, <2>2, KnownFacts
  <2>3. ASSUME NEW w \in Calls, f \in Facts(copy'[w]) PROVE f \in Known \/ LedTo(f)'
      BY <1>b, <1>c, <2>3, KnownFacts
  <2>4. CASE \E e \in trail : e.event = "transfer" /\ f = <<"location", e.from>>
      BY <2>4, KnownFacts
  <2> QED
      BY <2>1, <2>2, <2>3, <2>4
\* A step that neither fails nor records, nor ends a call that records.
<1>d. ASSUME trail' = trail, failures' = failures,
             \A w \in Recording : w \in Recording' /\ request'[w] = request[w],
             \A f : f \in Known' => f \in Known \/ LedTo(f)'
      PROVE  TrailInv'
  <2>1. \A f : LedTo(f) => LedTo(f)'
      BY <1>d, AllLeadsStand
  <2> QED
      BY <1>a, <1>d, <2>1, NothingLost
<1>1. CASE CreateAsset
    BY <1>1, <1>b, <1>c, <1>d DEF CreateAsset, Recording
<1>2. ASSUME NEW w \in Calls, TransferAsset(w) PROVE TrailInv'
    BY <1>2, <1>c, <1>d DEF TransferAsset, Recording, GoTo, TypeOK
<1>3. ASSUME NEW w \in Calls, DisposeAsset(w) PROVE TrailInv'
    BY <1>3, <1>c, <1>d DEF DisposeAsset, Recording, GoTo, TypeOK
<1>4. ASSUME NEW w \in Calls, GetAsset(w) PROVE TrailInv'
    BY <1>4, <1>c, <1>d DEF GetAsset, Recording, GoTo, TypeOK
<1>5. ASSUME NEW w \in Calls, AssetNotFound(w) PROVE TrailInv'
    BY <1>5, <1>c, <1>d DEF AssetNotFound, ClearCall, Recording, GoTo, TypeOK
<1>6. ASSUME NEW w \in Calls, UpdateAsset(w) PROVE TrailInv'
  <2>1. w \in Recording' /\ request' = request /\ trail' = trail /\ copy' = copy
        /\ failures' = failures
    BY <1>6 DEF UpdateAsset, Recording, GoTo, TypeOK
  <2>2. \A v \in Recording : v \in Recording'
    BY <1>6 DEF UpdateAsset, Recording, GoTo, TypeOK
  <2>3. copy[w] \in Asset /\ request[w] \in Requests
    BY DEF TypeOK
  <2>4. asset' = Changed(w)
    BY <1>6 DEF UpdateAsset
  <2>5. Facts(Changed(w)) \subseteq Facts(copy[w]) \cup {Outcome(request[w])}
    BY <2>3 DEF Changed, Facts, Outcome, Asset, Requests
  <2>6. \A f : f = Outcome(request[w]) => LedTo(f)'
    BY <2>1 DEF LedTo, Outcome
  <2>7. Facts(copy[w]) \subseteq Known
    BY KnownFacts
  <2>8. \A f : f \in Facts(asset') => f \in Known \/ LedTo(f)'
    BY <2>4, <2>5, <2>6, <2>7
  <2> QED
    BY <1>c, <1>d, <2>1, <2>2, <2>8
<1>7. ASSUME NEW w \in Calls, CreateAssetHistory(w) PROVE TrailInv'
  <2>1. trail' = trail \cup {Event(w)} /\ UNCHANGED <<asset, copy, failures, request>>
    BY <1>7 DEF CreateAssetHistory
  <2>2. \A v \in Recording : v = w \/ v \in Recording'
    BY <1>7 DEF CreateAssetHistory, Recording, GoTo, TypeOK
  <2>3. \A f : LedTo(f) => LedTo(f)'
    BY <2>1, <2>2, AllLeadsStand
  <2>4. \A f : f \in Known' => f \in Known \/ LedTo(f)'
    <3> SUFFICES ASSUME NEW f, f \in Known' PROVE f \in Known
        OBVIOUS
    <3>1. \/ asset # None /\ f \in Facts(asset)
          \/ \E v \in Calls : f \in Facts(copy[v])
          \/ \E e \in trail' : e.event = "transfer" /\ f = <<"location", e.from>>
        BY <2>1 DEF Known, Shown, Facts
    <3>2. Event(w).event = "transfer" => <<"location", Event(w).from>> \in Facts(copy[w])
        BY DEF Event, Facts
    <3> QED
        BY <2>1, <3>1, <3>2, KnownFacts
  <2> QED
    BY <1>a, <2>1, <2>3, <2>4, NothingLost
<1>8. ASSUME NEW w \in Calls, Return(w) PROVE TrailInv'
    BY <1>8, <1>c, <1>d DEF Return, ClearCall, Recording, GoTo, TypeOK
<1>9. ASSUME NEW w \in Calls, DatabaseError(w) \/ Stop(w) PROVE TrailInv'
  <2>1. /\ trail' = trail /\ asset' = asset /\ failures' = failures + 1
        /\ \A v \in Calls : copy'[v] = copy[v] \/ copy'[v] = Ingested
        /\ \A v \in Calls : v # w => pc'[v] = pc[v] /\ request'[v] = request[v]
    BY <1>9 DEF DatabaseError, Stop, ClearCall, GoTo, TypeOK
  <2>2. \A v \in Recording : \/ v \in Recording' /\ request'[v] = request[v]
                             \/ Outcome(request[v]) \in {Outcome(request[w])}
    BY <2>1 DEF Recording
  <2>3. \A f : LedTo(f) => LedTo(f)' \/ f \in {Outcome(request[w])}
    BY <2>1, <2>2, LeadsStand
  <2>4. \A f : f \in Known' => f \in Known \/ LedTo(f)'
    BY <1>c, <2>1
  <2> QED
    BY <1>a, <2>1, <2>3, <2>4, OneLost
<1>10. CASE UNCHANGED vars
    BY <1>10, <1>c, <1>d DEF vars, Recording
<1> QED
    BY <1>1, <1>2, <1>3, <1>4, <1>5, <1>6, <1>7, <1>8, <1>9, <1>10
    DEF Next, CallStep

\* The audit trail accounts for where an asset is and for its disposal, but for
\* one thing a failure, for any number of overlapping transfers and disposals.
THEOREM TrailExplains == Spec => []TrailExplainsAsset
<1>1. TypeOK /\ TrailInv => TrailExplainsAsset
  <2> SUFFICES ASSUME TypeOK, TrailInv PROVE TrailExplainsAsset
      OBVIOUS
  <2> DEFINE U == {f \in Shown : ~LedTo(f)}
  <2>1. U \subseteq Unexplained
      BY DEF Unexplained, Known
  <2>2. /\ Cardinality(U) <= Cardinality(Unexplained)
        /\ Cardinality(U) \in Nat /\ Cardinality(Unexplained) \in Nat
      BY <2>1, FS_Subset, FS_CardinalityType DEF TrailInv
  <2>3. failures \in Nat /\ Cardinality(Unexplained) <= failures
      BY BoundAssumption DEF TypeOK, TrailInv
  <2> HIDE DEF U
  <2>4. Cardinality(U) <= failures
      BY <2>2, <2>3
  <2> QED
      BY <2>4 DEF U, TrailExplainsAsset
<1> QED
    BY TypeInit, TypeStep, TrailInit, TrailStep, <1>1, PTL DEF Spec

-----------------------------------------------------------------------------
(***************************************************************************)
(* Disposals.                                                              *)
(***************************************************************************)
\* A disposal that no older call overlaps is never undone.
LEMMA SettledStays == TypeOK /\ [Next]_vars /\ Settled => Settled'
<1> SUFFICES ASSUME TypeOK, [Next]_vars, Settled PROVE Settled'
    OBVIOUS
<1>a. /\ asset # None /\ asset.status = "disposed"
      /\ \A w \in Calls : pc[w] = "update" /\ request[w].event = "transfer"
                              => copy[w].status = "disposed"
    BY DEF Settled
\* A step that leaves the asset alone and brings no older copy into play.
<1>b. ASSUME NEW w \in Calls, asset' = asset, pc' = [pc EXCEPT ![w] = pc'[w]],
             request' = [request EXCEPT ![w] = request'[w]],
             copy' = [copy EXCEPT ![w] = copy'[w]],
             pc'[w] # "update"
      PROVE  Settled'
    BY <1>a, <1>b DEF Settled, TypeOK
<1>1. CASE CreateAsset
    BY <1>1, <1>a DEF CreateAsset
<1>2. ASSUME NEW w \in Calls, TransferAsset(w) PROVE Settled'
    BY <1>2, <1>b DEF TransferAsset, GoTo, TypeOK
<1>3. ASSUME NEW w \in Calls, DisposeAsset(w) PROVE Settled'
    BY <1>3, <1>b DEF DisposeAsset, GoTo, TypeOK
<1>4. ASSUME NEW w \in Calls, GetAsset(w) PROVE Settled'
    BY <1>4, <1>a DEF Settled, GetAsset, GoTo, TypeOK
<1>5. ASSUME NEW w \in Calls, AssetNotFound(w) PROVE Settled'
    BY <1>5, <1>a DEF AssetNotFound
<1>6. ASSUME NEW w \in Calls, UpdateAsset(w) PROVE Settled'
  <2>1. Changed(w) \in Asset
    BY ChangedType
  <2>2. copy[w] \in Asset /\ request[w] \in Requests
    BY DEF TypeOK
  <2>3. Changed(w).status = "disposed"
    BY <1>6, <1>a, <2>2 DEF Changed, UpdateAsset, Asset, Requests
  <2>4. asset' # None /\ asset'.status = "disposed"
    BY <1>6, <2>1, <2>3, NoneAssumption DEF UpdateAsset
  <2>5. ASSUME NEW v \in Calls, pc'[v] = "update", request'[v].event = "transfer"
        PROVE  copy'[v].status = "disposed"
    BY <1>6, <1>a, <2>5 DEF UpdateAsset, GoTo, TypeOK
  <2> QED
    BY <2>4, <2>5 DEF Settled
<1>7. ASSUME NEW w \in Calls, CreateAssetHistory(w) PROVE Settled'
    BY <1>7, <1>b DEF CreateAssetHistory, GoTo, TypeOK
<1>8. ASSUME NEW w \in Calls, Return(w) PROVE Settled'
    BY <1>8, <1>b DEF Return, ClearCall, GoTo, TypeOK
<1>9. ASSUME NEW w \in Calls, DatabaseError(w) PROVE Settled'
    BY <1>9, <1>b DEF DatabaseError, ClearCall, GoTo, TypeOK
<1>10. ASSUME NEW w \in Calls, Stop(w) PROVE Settled'
    BY <1>10, <1>b DEF Stop, ClearCall, GoTo, TypeOK
<1>11. CASE UNCHANGED vars
    BY <1>11, <1>a DEF Settled, vars
<1> QED
    BY <1>1, <1>2, <1>3, <1>4, <1>5, <1>6, <1>7, <1>8, <1>9, <1>10, <1>11
    DEF Next, CallStep

\* Once no transfer holds a copy older than the disposal, a disposed asset stays
\* disposed through every later transfer, disposal and failure.
THEOREM DisposalsSettle == Spec => DisposalSettles
<1>1. TypeOK /\ [Next]_vars => [Settled => Settled']_vars
    BY SettledStays
<1> QED
    BY TypeCorrect, <1>1, PTL DEF Spec, DisposalSettles
=============================================================================
