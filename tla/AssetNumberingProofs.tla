------------------------- MODULE AssetNumberingProofs -------------------------
(***************************************************************************)
(* What holds of AssetNumbering for every number of tenants, series and    *)
(* overlapping calls, and every SerialModulus.                             *)
(***************************************************************************)
EXTENDS AssetNumbering, FiniteSetTheorems, TLAPS

\* The steps at which a call is busy with the first of its units.
Busy == {"count", "insert", "link", "event"}

-----------------------------------------------------------------------------
(***************************************************************************)
(* Type correctness: a busy call has a unit of some series and a serial.   *)
(***************************************************************************)
AtWork ==
    \A w \in Calls : pc[w] \in Busy =>
        /\ units[w] # <<>>
        /\ Head(units[w]) \in Series
        /\ serial[w] # 0

TypeInv == TypeOK /\ AtWork

\* The asset a call is about to insert carries the call's tenant, series and serial.
LEMMA CurrentType ==
    ASSUME TypeInv, NEW w \in Calls, pc[w] \in Busy
    PROVE  /\ Current(w) \in Asset
           /\ Current(w).tenant = tenant[w]
           /\ Current(w).series = Head(units[w])
           /\ Current(w).number = serial[w]
BY DEF TypeInv, TypeOK, AtWork, Current, Asset

\* serialIncrement is the number itself up to the modulus, and then zero.
LEMMA SerialIncrementType ==
    ASSUME NEW x \in Asset
    PROVE  /\ SerialIncrement(x) \in Nat
           /\ SerialIncrement(x) < SerialModulus
           /\ x.number < SerialModulus => SerialIncrement(x) = x.number
           /\ x.number = SerialModulus => SerialIncrement(x) = 0
<1>1. x.number \in Nat
    BY DEF Asset
<1>2. QED BY <1>1, ModulusAssumption DEF SerialIncrement

\* What remains of a request after its first unit is a request.
LEMMA TailType ==
    ASSUME TypeOK, NEW w \in Calls, units[w] # <<>>
    PROVE  Tail(units[w]) \in Seq(Series \cup {Invalid})
BY DEF TypeOK

\* Giving a unit up, or clearing a call, keeps the types.
LEMMA GiveUpType ==
    ASSUME TypeInv, NEW w \in Calls, GiveUpUnit(w) \/ ClearCall(w),
           GiveUpUnit(w) => units[w] # <<>>,
           UNCHANGED <<collections, calls>>, failures' \in 0..MaxFailures
    PROVE  TypeInv'
<1>1. CASE GiveUpUnit(w)
    <2>1. PICK u \in Seq(Series \cup {Invalid}) : units' = [units EXCEPT ![w] = u]
        BY <1>1, TailType DEF TypeInv, GiveUpUnit
    <2>2. errors' \in [Calls -> Nat]
        BY <1>1 DEF TypeInv, TypeOK, GiveUpUnit
    <2>3. QED
        BY <1>1, <2>1, <2>2
           DEF TypeInv, TypeOK, AtWork, Busy, GiveUpUnit, GoTo, PCs, collections
<1>2. CASE ClearCall(w)
    <2>1. PICK u \in Seq(Series \cup {Invalid}) : units' = [units EXCEPT ![w] = u]
        <3>1. <<>> \in Seq(Series \cup {Invalid})
            OBVIOUS
        <3>2. QED BY <1>2, <3>1 DEF ClearCall
    <2>2. QED
        BY <1>2, <2>1
           DEF TypeInv, TypeOK, AtWork, Busy, ClearCall, GoTo, PCs, collections
<1>3. QED BY <1>1, <1>2

\* Reporting a unit keeps the types.
LEMMA ReportType ==
    ASSUME TypeInv, NEW w \in Calls, pc[w] = "event", ReportUnit(w),
           assets' = assets, links' = links, events' \subseteq Asset,
           UNCHANGED calls, failures' \in 0..MaxFailures
    PROVE  TypeInv'
<1>1. units[w] # <<>> /\ Current(w) \in Asset
    BY CurrentType DEF TypeInv, AtWork, Busy
<1>2. units' \in [Calls -> Seq(Series \cup {Invalid})]
    BY <1>1, TailType DEF TypeInv, TypeOK, ReportUnit
<1>3. reported' \in [Calls -> SUBSET Asset]
    BY <1>1 DEF TypeInv, TypeOK, ReportUnit
<1>4. QED
    BY <1>2, <1>3 DEF TypeInv, TypeOK, AtWork, Busy, ReportUnit, GoTo, PCs

\* Every step keeps the types.
LEMMA NextTypeInv == TypeInv /\ [Next]_vars => TypeInv'
<1> SUFFICES ASSUME TypeInv, [Next]_vars PROVE TypeInv'
    OBVIOUS
<1> USE DEF GoTo, collections
<1>1. ASSUME NEW w \in Calls, IngestAssets(w) PROVE TypeInv'
    <2>1. PICK t \in Tenants, n \in 1..MaxUnits :
             \E q \in [1..n -> Series \cup {Invalid}] :
                /\ tenant' = [tenant EXCEPT ![w] = t]
                /\ units' = [units EXCEPT ![w] = q]
        BY <1>1 DEF IngestAssets
    <2>2. PICK q \in [1..n -> Series \cup {Invalid}] :
             /\ tenant' = [tenant EXCEPT ![w] = t]
             /\ units' = [units EXCEPT ![w] = q]
        BY <2>1
    <2>3. q \in Seq(Series \cup {Invalid})
        BY BoundAssumption
    <2>4. calls' \in 0..MaxCalls
        BY <1>1, BoundAssumption DEF IngestAssets, TypeInv, TypeOK
    <2>5. QED
        BY <1>1, <2>2, <2>3, <2>4 DEF IngestAssets, TypeInv, TypeOK, AtWork, Busy, PCs
<1>2. ASSUME NEW w \in Calls,
             RejectRecord(w) \/ Refuse(w) \/ InsertConflict(w) \/ Return(w)
      PROVE  TypeInv'
    <2>1. /\ GiveUpUnit(w) \/ ClearCall(w)
          /\ UNCHANGED <<collections, calls, failures>>
        BY <1>2 DEF RejectRecord, Refuse, InsertConflict, Return
    <2>2. GiveUpUnit(w) => units[w] # <<>>
        BY <1>2 DEF RejectRecord, Refuse, InsertConflict, Return, GiveUpUnit, ClearCall,
                    TypeInv, TypeOK, AtWork, Busy
    <2>3. failures' \in 0..MaxFailures
        BY <2>1 DEF TypeInv, TypeOK
    <2>4. QED BY <2>1, <2>2, <2>3, GiveUpType
<1>3. ASSUME NEW w \in Calls, FindLast(w) PROVE TypeInv'
    <2>1. Head(units[w]) \in Series /\ units[w] # <<>>
        BY <1>3 DEF FindLast, AtUnit, TypeInv, TypeOK
    <2>2. PICK n \in Nat \ {0} : serial' = [serial EXCEPT ![w] = n]
        BY <1>3, SerialIncrementType DEF FindLast, OwnAssets, TypeInv, TypeOK
    <2>3. QED BY <1>3, <2>1, <2>2 DEF FindLast, TypeInv, TypeOK, AtWork, Busy, PCs
<1>4. ASSUME NEW w \in Calls, CheckFree(w) PROVE TypeInv'
    BY <1>4 DEF CheckFree, TypeInv, TypeOK, AtWork, Busy, PCs
<1>5. ASSUME NEW w \in Calls, InsertAsset(w) \/ CreateLink(w) PROVE TypeInv'
    <2>1. Current(w) \in Asset
        BY <1>5, CurrentType DEF InsertAsset, CreateLink, Busy
    <2>2. QED BY <1>5, <2>1 DEF InsertAsset, CreateLink, TypeInv, TypeOK, AtWork, Busy, PCs
<1>6. ASSUME NEW w \in Calls, CreateHistory(w) PROVE TypeInv'
    <2>1. Current(w) \in Asset
        BY <1>6, CurrentType DEF CreateHistory, Busy
    <2>2. events' \subseteq Asset /\ failures' \in 0..MaxFailures
        BY <1>6, <2>1 DEF CreateHistory, TypeInv, TypeOK
    <2>3. QED BY <1>6, <2>2, ReportType DEF CreateHistory
<1>7. ASSUME NEW w \in Calls, Finish(w) PROVE TypeInv'
    BY <1>7 DEF Finish, TypeInv, TypeOK, AtWork, Busy, PCs
<1>8. ASSUME NEW w \in Calls, DatabaseError(w) PROVE TypeInv'
    <2>1. failures' \in 0..MaxFailures
        BY <1>8, BoundAssumption DEF DatabaseError, TypeInv, TypeOK
    <2>2. CASE GiveUpUnit(w) /\ (AtUnit(w) \/ pc[w] \in {"count", "insert"})
        <3>1. units[w] # <<>>
            BY <2>2 DEF AtUnit, TypeInv, AtWork, Busy
        <3>2. QED BY <1>8, <2>1, <2>2, <3>1, GiveUpType DEF DatabaseError
    <2>3. CASE pc[w] = "link" /\ GoTo(w, "event") /\ UNCHANGED <<tenant, units, serial, reported, errors>>
        BY <1>8, <2>1, <2>3 DEF DatabaseError, TypeInv, TypeOK, AtWork, Busy, PCs
    <2>4. CASE pc[w] = "event" /\ ReportUnit(w)
        BY <1>8, <2>1, <2>4, ReportType DEF DatabaseError, TypeInv, TypeOK
    <2>5. QED BY <1>8, <2>2, <2>3, <2>4 DEF DatabaseError
<1>9. ASSUME NEW w \in Calls, Stop(w) PROVE TypeInv'
    <2>1. failures' \in 0..MaxFailures
        BY <1>9, BoundAssumption DEF Stop, TypeInv, TypeOK
    <2>2. ~GiveUpUnit(w)
        BY <1>9 DEF Stop, ClearCall, GiveUpUnit, TypeInv, TypeOK
    <2>3. QED BY <1>9, <2>1, <2>2, GiveUpType DEF Stop
<1>10. CASE UNCHANGED vars
    BY <1>10 DEF vars, TypeInv, TypeOK, AtWork
<1>11. QED
    BY <1>1, <1>2, <1>3, <1>4, <1>5, <1>6, <1>7, <1>8, <1>9, <1>10 DEF Next, CallStep

\* The types hold in every reachable state.
LEMMA TypeInvariant == Spec => []TypeInv
<1>1. Init => TypeInv
    BY BoundAssumption DEF Init, TypeInv, TypeOK, AtWork, Busy, PCs
<1>2. QED BY <1>1, NextTypeInv, PTL DEF Spec

\* The collections and every call's locals keep their types.
THEOREM TypeCorrect == Spec => []TypeOK
<1>1. TypeInv => TypeOK
    BY DEF TypeInv
<1>2. QED BY <1>1, TypeInvariant, PTL

-----------------------------------------------------------------------------
(***************************************************************************)
(* Numbers.  A serial that is not the first of its series is one more than *)
(* that of an asset of the same tenant, and it fits into the modulus or is *)
(* the number that wraps; assets are never removed, so this still holds    *)
(* when the asset is inserted.                                             *)
(***************************************************************************)
SerialFollows ==
    \A w \in Calls : pc[w] \in {"count", "insert"} =>
        /\ serial[w] <= SerialModulus
        /\ \/ serial[w] = 1
           \/ \E x \in assets : /\ x.tenant = tenant[w]
                                /\ x.series = Head(units[w])
                                /\ x.number = serial[w] - 1

NumberInv ==
    NumbersContiguous /\ NumbersBounded /\ SeriesHasOneTenant /\ SerialFollows

\* A step that inserts no asset and puts no call at "count" or "insert" keeps
\* the invariant.
LEMMA NumbersKept ==
    ASSUME NumberInv, assets' = assets,
           \A w \in Calls : pc'[w] \in {"count", "insert"} =>
               /\ pc[w] \in {"count", "insert"}
               /\ tenant'[w] = tenant[w] /\ units'[w] = units[w] /\ serial'[w] = serial[w]
    PROVE  NumberInv'
BY DEF NumberInv, NumbersContiguous, NumbersBounded, SeriesHasOneTenant,
       SerialFollows

\* A serial computed from the last one follows a number in use.
LEMMA FindLastFollows ==
    ASSUME TypeInv, NumberInv, NEW w \in Calls, FindLast(w)
    PROVE  NumberInv'
<1> DEFINE Follows(n) ==
        /\ n <= SerialModulus
        /\ \/ n = 1
           \/ \E x \in assets : /\ x.tenant = tenant[w]
                                /\ x.series = Head(units[w])
                                /\ x.number = n - 1
<1>1. PICK n \in {1} \cup {SerialIncrement(last) + 1 : last \in OwnAssets(w)} :
         serial' = [serial EXCEPT ![w] = n]
    BY DEF FindLast
<1>2. ASSUME NEW last \in OwnAssets(w) PROVE Follows(SerialIncrement(last) + 1)
    <2>1. last \in Asset /\ last \in assets /\ last.number \in Nat /\ last.number <= SerialModulus
        BY DEF OwnAssets, TypeInv, TypeOK, Asset, NumberInv, NumbersBounded
    <2>2. CASE last.number = SerialModulus
        <3>1. SerialIncrement(last) + 1 = 1
            BY <2>1, <2>2, SerialIncrementType
        <3>2. QED BY <3>1, ModulusAssumption
    <2>3. CASE last.number < SerialModulus
        <3>1. SerialIncrement(last) = last.number
            BY <2>1, <2>3, SerialIncrementType
        <3>2. Follows(last.number + 1)
            BY <2>1, <2>3, ModulusAssumption DEF OwnAssets
        <3>3. QED BY <3>1, <3>2
    <2>4. QED BY <2>1, <2>2, <2>3, ModulusAssumption
<1>3. Follows(n)
    BY <1>1, <1>2, ModulusAssumption
<1>4. /\ assets' = assets /\ tenant' = tenant /\ units' = units
      /\ serial'[w] = n
      /\ \A v \in Calls : v # w => pc'[v] = pc[v] /\ serial'[v] = serial[v]
    BY <1>1 DEF FindLast, GoTo, collections, TypeInv, TypeOK
<1>5. SerialFollows'
    BY <1>3, <1>4 DEF SerialFollows, NumberInv
<1>6. QED
    BY <1>4, <1>5
       DEF NumberInv, NumbersContiguous, NumbersBounded, SeriesHasOneTenant

\* Inserting an asset leaves no gap below its number.
LEMMA InsertAssetFollows ==
    ASSUME TypeInv, NumberInv, NEW w \in Calls, InsertAsset(w)
    PROVE  NumberInv'
<1>1. PICK a \in Asset : a = Current(w)
    BY CurrentType DEF InsertAsset, Busy
<1>2. /\ a.tenant = tenant[w] /\ a.series = Head(units[w]) /\ a.number = serial[w]
      /\ a.number \in Nat \ {0}
      /\ assets' = assets \cup {a} /\ assets \subseteq Asset
      /\ \A x \in assets : x.number \in Nat \ {0}
    BY <1>1, CurrentType DEF InsertAsset, Busy, Asset, TypeInv, TypeOK
<1>3. \A x \in assets : ~(x.series = a.series /\ x.number = a.number)
    BY <1>1 DEF InsertAsset, Taken
<1>4. /\ a.number <= SerialModulus
      /\ \/ a.number = 1
         \/ \E x \in assets : /\ x.tenant = a.tenant /\ x.series = a.series
                              /\ x.number = a.number - 1
    BY <1>2 DEF InsertAsset, NumberInv, SerialFollows
<1>5. NumbersBounded'
    BY <1>2, <1>4 DEF NumberInv, NumbersBounded
<1>6. \A n \in 1..a.number : \E y \in assets' : y.series = a.series /\ y.number = n
    <2> SUFFICES ASSUME NEW n \in 1..a.number
                 PROVE  \E y \in assets' : y.series = a.series /\ y.number = n
        OBVIOUS
    <2>1. CASE n = a.number
        BY <1>2, <2>1
    <2>2. CASE n # a.number
        <3>1. PICK x \in assets : x.series = a.series /\ x.number = a.number - 1
            BY <1>2, <1>4, <2>2
        <3>2. n \in 1..x.number
            BY <1>2, <2>2, <3>1
        <3>3. PICK y \in assets : y.series = x.series /\ y.number = n
            BY <3>2 DEF NumberInv, NumbersContiguous
        <3>4. QED BY <1>2, <3>1, <3>3
    <2>3. QED BY <2>1, <2>2
<1>7. NumbersContiguous'
    BY <1>2, <1>6 DEF NumberInv, NumbersContiguous
<1>8. \A x \in assets : x.series = a.series => x.tenant = a.tenant
    <2> SUFFICES ASSUME NEW x \in assets, x.series = a.series
                 PROVE  x.tenant = a.tenant
        OBVIOUS
    <2>1. PICK y \in assets : y.series = x.series /\ y.number = 1
        <3>1. 1 \in 1..x.number
            BY <1>2
        <3>2. QED BY <3>1 DEF NumberInv, NumbersContiguous
    <2>2. a.number # 1
        BY <1>3, <2>1
    <2>3. PICK z \in assets : z.tenant = a.tenant /\ z.series = a.series
        BY <1>4, <2>2
    <2>4. QED BY <2>3 DEF NumberInv, SeriesHasOneTenant
<1>9. SeriesHasOneTenant'
    BY <1>2, <1>8 DEF NumberInv, SeriesHasOneTenant
<1>10. SerialFollows'
    <2>1. UNCHANGED <<tenant, units, serial>> /\ assets \subseteq assets'
        BY <1>2 DEF InsertAsset
    <2>2. \A v \in Calls : pc'[v] \in {"count", "insert"} => pc[v] \in {"count", "insert"}
        BY DEF InsertAsset, GoTo, TypeInv, TypeOK
    <2>3. QED BY <2>1, <2>2 DEF NumberInv, SerialFollows
<1>11. QED BY <1>5, <1>7, <1>9, <1>10 DEF NumberInv

\* Every step keeps the numbers contiguous.
LEMMA NextNumberInv == TypeInv /\ NumberInv /\ [Next]_vars => NumberInv'
<1> SUFFICES ASSUME TypeInv, NumberInv, [Next]_vars PROVE NumberInv'
    OBVIOUS
<1>1. ASSUME NEW w \in Calls, FindLast(w) PROVE NumberInv'
    BY <1>1, FindLastFollows
<1>2. ASSUME NEW w \in Calls, InsertAsset(w) PROVE NumberInv'
    BY <1>2, InsertAssetFollows
<1> USE DEF GoTo, GiveUpUnit, ClearCall, ReportUnit, collections
<1>3. ASSUME NEW w \in Calls,
             \/ IngestAssets(w) \/ RejectRecord(w) \/ CheckFree(w) \/ Refuse(w)
             \/ InsertConflict(w) \/ Return(w) \/ Stop(w)
      PROVE  NumberInv'
    BY <1>3, NumbersKept
       DEF IngestAssets, RejectRecord, CheckFree, Refuse, InsertConflict, Return, Stop,
           TypeInv, TypeOK
<1>4. ASSUME NEW w \in Calls,
             \/ CreateLink(w) \/ CreateHistory(w) \/ Finish(w) \/ DatabaseError(w)
      PROVE  NumberInv'
    BY <1>4, NumbersKept DEF CreateLink, CreateHistory, Finish, DatabaseError, TypeInv, TypeOK
<1>5. CASE UNCHANGED vars
    BY <1>5, NumbersKept DEF vars
<1>6. QED BY <1>1, <1>2, <1>3, <1>4, <1>5 DEF Next, CallStep

\* The number invariant holds in every reachable state.
LEMMA NumberInvariant == Spec => []NumberInv
<1>1. Init => NumberInv
    BY DEF Init, NumberInv, NumbersContiguous, NumbersBounded,
           SeriesHasOneTenant, SerialFollows
<1>2. TypeInv /\ NumberInv /\ [Next]_vars => NumberInv'
    BY NextNumberInv
<1>3. QED BY <1>1, <1>2, TypeInvariant, PTL DEF Spec

\* Failed, refused and overlapping units leave no gap in a series.
THEOREM AssetNumbersAreContiguous == Spec => []NumbersContiguous
<1>1. NumberInv => NumbersContiguous
    BY DEF NumberInv
<1>2. QED BY <1>1, NumberInvariant, PTL

\* A series ends with the number that wraps.
THEOREM AssetNumbersAreBounded == Spec => []NumbersBounded
<1>1. NumberInv => NumbersBounded
    BY DEF NumberInv
<1>2. QED BY <1>1, NumberInvariant, PTL

\* Whoever gets the first number of a series gets all of them.
THEOREM OneTenantPerSeries == Spec => []SeriesHasOneTenant
<1>1. NumberInv => SeriesHasOneTenant
    BY DEF NumberInv
<1>2. QED BY <1>1, NumberInvariant, PTL

-----------------------------------------------------------------------------
(***************************************************************************)
(* Reports and traces.  An asset that a call has inserted and not yet      *)
(* reported is that call's alone.                                          *)
(***************************************************************************)
Tracing == {"link", "event"}

\* ReportedOnce, asset by asset.
OwnReport ==
    \A w \in Calls : \A x \in reported[w] :
        /\ x \in assets
        /\ x.tenant = tenant[w]
        /\ \A v \in Calls : v # w => x \notin reported[v]

OwnCreation ==
    \A w \in Calls : pc[w] \in Tracing =>
        /\ Current(w) \in assets
        /\ \A v \in Calls : /\ Current(w) \notin reported[v]
                            /\ v # w /\ pc[v] \in Tracing => Current(v) # Current(w)

IdleReportsNothing == \A w \in Calls : pc[w] = "idle" => reported[w] = {}

ReportInv == OwnReport /\ OwnCreation /\ IdleReportsNothing

\* A step that neither inserts nor reports, and takes no call into "link",
\* keeps the invariant.
LEMMA ReportsKept ==
    ASSUME ReportInv, assets \subseteq assets',
           \A v \in Calls : /\ reported'[v] \subseteq reported[v]
                            /\ pc'[v] = "idle" => reported'[v] = {}
                            /\ tenant'[v] = tenant[v] \/ reported'[v] = {}
                            /\ pc'[v] \in Tracing => pc[v] \in Tracing /\ Current(v)' = Current(v)
    PROVE  ReportInv'
<1>1. OwnReport'
    BY DEF ReportInv, OwnReport
<1>2. OwnCreation'
    BY DEF ReportInv, OwnCreation
<1>3. QED BY <1>1, <1>2 DEF ReportInv, IdleReportsNothing

\* An inserted asset belongs to the one call that inserted it.
LEMMA InsertAssetIsOwn ==
    ASSUME TypeInv, ReportInv, NEW w \in Calls, InsertAsset(w)
    PROVE  ReportInv'
<1>1. PICK a \in Asset : a = Current(w)
    BY CurrentType DEF InsertAsset, Busy
<1>2. /\ assets' = assets \cup {a}
      /\ UNCHANGED <<tenant, units, serial, reported>>
      /\ pc[w] = "insert" /\ pc' = [pc EXCEPT ![w] = "link"]
      /\ a \notin assets
    BY <1>1 DEF InsertAsset, GoTo, Taken
<1>3. \A v \in Calls : Current(v)' = Current(v)
    BY <1>2 DEF Current
<1>4. \A v \in Calls : /\ pc'[v] \in Tracing <=> (pc[v] \in Tracing \/ v = w)
                       /\ pc'[v] = "idle" => pc[v] = "idle"
    BY <1>2 DEF Tracing, TypeInv, TypeOK
<1>5. \A v \in Calls : a \notin reported[v] /\ (pc[v] \in Tracing => Current(v) # a)
    BY <1>2 DEF ReportInv, OwnReport, OwnCreation
<1>6. OwnReport'
    BY <1>2 DEF ReportInv, OwnReport
<1>7. OwnCreation'
    <2> SUFFICES ASSUME NEW v \in Calls, pc'[v] \in Tracing
                 PROVE  /\ Current(v)' \in assets'
                        /\ \A u \in Calls : /\ Current(v)' \notin reported'[u]
                                            /\ u # v /\ pc'[u] \in Tracing => Current(u)' # Current(v)'
        BY DEF OwnCreation
    <2>1. CASE v = w
        BY <1>1, <1>2, <1>3, <1>4, <1>5, <2>1
    <2>2. CASE v # w
        <3>1. pc[v] \in Tracing /\ Current(v)' = Current(v) /\ Current(v) # a
            BY <1>3, <1>4, <1>5, <2>2
        <3>2. QED BY <1>1, <1>2, <1>3, <1>4, <3>1 DEF ReportInv, OwnCreation
    <2>3. QED BY <2>1, <2>2
<1>8. IdleReportsNothing'
    BY <1>2, <1>4 DEF ReportInv, IdleReportsNothing
<1>9. QED BY <1>6, <1>7, <1>8 DEF ReportInv

\* A unit reported is reported by its own call and by no other.
LEMMA ReportUnitIsOnce ==
    ASSUME TypeInv, ReportInv, NEW w \in Calls, pc[w] = "event", ReportUnit(w),
           assets' = assets
    PROVE  ReportInv'
<1>1. PICK a \in Asset : a = Current(w) /\ a.tenant = tenant[w]
    BY CurrentType DEF Busy
<1>2. /\ tenant' = tenant
      /\ \A v \in Calls : reported'[v] = IF v = w THEN reported[v] \cup {a} ELSE reported[v]
      /\ \A v \in Calls : v # w => pc'[v] = pc[v] /\ Current(v)' = Current(v)
      /\ pc'[w] = "next"
    BY <1>1 DEF ReportUnit, GoTo, Current, TypeInv, TypeOK
<1>3. /\ a \in assets
      /\ \A v \in Calls : a \notin reported[v] /\ (v # w /\ pc[v] \in Tracing => Current(v) # a)
    BY <1>1 DEF ReportInv, OwnCreation, Tracing
<1>4. OwnReport'
    <2> SUFFICES ASSUME NEW v \in Calls, NEW x \in reported'[v]
                 PROVE  /\ x \in assets /\ x.tenant = tenant[v]
                        /\ \A u \in Calls : u # v => x \notin reported'[u]
        BY <1>2 DEF OwnReport
    <2>1. CASE x = a
        <3>1. v = w
            BY <1>2, <1>3, <2>1
        <3>2. QED BY <1>1, <1>2, <1>3, <2>1, <3>1
    <2>2. CASE x # a
        <3>1. x \in reported[v]
            BY <1>2, <2>2
        <3>2. /\ x \in assets /\ x.tenant = tenant[v]
              /\ \A u \in Calls : u # v => x \notin reported[u]
            BY <3>1 DEF ReportInv, OwnReport
        <3>3. \A u \in Calls : x \in reported'[u] => x \in reported[u]
            BY <1>2, <2>2
        <3>4. QED BY <3>2, <3>3
    <2>3. QED BY <2>1, <2>2
<1>5. \A v \in Calls : pc'[v] \in Tracing => v # w /\ pc[v] \in Tracing /\ Current(v)' = Current(v)
    BY <1>2 DEF Tracing
<1>6. OwnCreation'
    <2> SUFFICES ASSUME NEW v \in Calls, pc'[v] \in Tracing
                 PROVE  /\ Current(v)' \in assets'
                        /\ \A u \in Calls :
                              /\ Current(v)' \notin reported'[u]
                              /\ u # v /\ pc'[u] \in Tracing => Current(u)' # Current(v)'
        BY DEF OwnCreation
    <2>1. /\ v # w /\ pc[v] \in Tracing /\ Current(v)' = Current(v)
          /\ Current(v) # a
        BY <1>3, <1>5
    <2>2. /\ Current(v) \in assets
          /\ \A u \in Calls :
                /\ Current(v) \notin reported[u]
                /\ u # v /\ pc[u] \in Tracing => Current(u) # Current(v)
        BY <2>1 DEF ReportInv, OwnCreation
    <2>3. \A u \in Calls : Current(v) \notin reported'[u]
        BY <1>2, <2>1, <2>2
    <2>4. QED BY <1>5, <2>1, <2>2, <2>3
<1>7. IdleReportsNothing'
    BY <1>2 DEF ReportInv, IdleReportsNothing
<1>8. QED BY <1>4, <1>6, <1>7 DEF ReportInv

\* Every step keeps each asset with the call that created it.
LEMMA NextReportInv == TypeInv /\ ReportInv /\ [Next]_vars => ReportInv'
<1> SUFFICES ASSUME TypeInv, ReportInv, [Next]_vars PROVE ReportInv'
    OBVIOUS
<1>1. ASSUME NEW w \in Calls, InsertAsset(w) PROVE ReportInv'
    BY <1>1, InsertAssetIsOwn
<1>2. ASSUME NEW w \in Calls, pc[w] = "event", ReportUnit(w), assets' = assets
      PROVE  ReportInv'
    BY <1>2, ReportUnitIsOnce
<1>3. ASSUME NEW w \in Calls, IngestAssets(w) PROVE ReportInv'
    <2>1. /\ reported' = reported /\ reported[w] = {} /\ assets' = assets
          /\ pc'[w] = "next"
          /\ \A v \in Calls : v # w => /\ pc'[v] = pc[v] /\ tenant'[v] = tenant[v]
                                       /\ Current(v)' = Current(v)
        BY <1>3 DEF IngestAssets, GoTo, ReportInv, IdleReportsNothing, TypeInv, TypeOK, Current,
                    collections
    <2>2. QED BY <2>1, ReportsKept DEF ReportInv, IdleReportsNothing, Tracing
<1>4. ASSUME NEW w \in Calls, GiveUpUnit(w) \/ ClearCall(w), assets' = assets
      PROVE  ReportInv'
    <2>1. /\ tenant' = tenant
          /\ \A v \in Calls : v # w => /\ pc'[v] = pc[v] /\ reported'[v] = reported[v]
                                       /\ Current(v)' = Current(v)
          /\ \/ pc'[w] = "next" /\ reported'[w] = reported[w]
             \/ pc'[w] = "idle" /\ reported'[w] = {}
        BY <1>4 DEF GiveUpUnit, ClearCall, GoTo, TypeInv, TypeOK, Current
    <2>2. QED BY <1>4, <2>1, ReportsKept DEF ReportInv, IdleReportsNothing, Tracing
<1>5. ASSUME NEW w \in Calls,
             \/ FindLast(w) \/ CheckFree(w) \/ CreateLink(w) \/ Finish(w)
             \/ /\ pc[w] = "link" /\ GoTo(w, "event")
                /\ UNCHANGED <<assets, tenant, units, serial, reported>>
      PROVE  ReportInv'
    <2>1. /\ UNCHANGED <<assets, tenant, units, reported>>
          /\ \A v \in Calls : v # w => pc'[v] = pc[v] /\ serial'[v] = serial[v]
          /\ pc'[w] # "idle"
          /\ pc'[w] \in Tracing => pc[w] \in Tracing /\ serial'[w] = serial[w]
        BY <1>5 DEF FindLast, CheckFree, CreateLink, Finish, GoTo, TypeInv, TypeOK, Tracing,
                    collections
    <2>2. QED BY <2>1, ReportsKept DEF ReportInv, IdleReportsNothing, Tracing, Current
<1>6. CASE UNCHANGED vars
    BY <1>6, ReportsKept DEF vars, collections, ReportInv, IdleReportsNothing, Tracing,
                             Current
<1>7. ASSUME NEW w \in Calls,
             \/ RejectRecord(w) \/ Refuse(w) \/ InsertConflict(w) \/ Return(w)
             \/ CreateHistory(w) \/ DatabaseError(w) \/ Stop(w)
      PROVE  ReportInv'
    BY <1>2, <1>4, <1>5, <1>7
       DEF RejectRecord, Refuse, InsertConflict, Return, CreateHistory, DatabaseError, Stop,
           collections
<1>8. QED BY <1>1, <1>3, <1>5, <1>6, <1>7 DEF Next, CallStep

\* What a call reports exists, belongs to its tenant, and is reported by no
\* other call.
THEOREM AssetsAreReportedOnce == Spec => []ReportedOnce
<1>1. Init => ReportInv
    BY DEF Init, ReportInv, OwnReport, OwnCreation, IdleReportsNothing, Tracing
<1>2. TypeInv /\ ReportInv /\ [Next]_vars => ReportInv'
    BY NextReportInv
<1>3. ReportInv => ReportedOnce
    BY DEF ReportInv, OwnReport, ReportedOnce
<1>4. QED BY <1>1, <1>2, <1>3, TypeInvariant, PTL DEF Spec

\* The assets that have lost their link or their event: it is not there, and no
\* call is on its way to writing it.
LostAssets ==
    {x \in assets :
        \/ /\ x \notin links
           /\ \A w \in Calls : pc[w] = "link" => Current(w) # x
        \/ /\ x \notin events
           /\ \A w \in Calls : pc[w] \in Tracing => Current(w) # x}

TraceInv == IsFiniteSet(assets) /\ Cardinality(LostAssets) <= failures

\* No asset but a is lost in a step that leaves every other asset to the call
\* that is tracing it.
LEMMA LosesOnly ==
    ASSUME NEW a, assets' = assets, links \subseteq links', events \subseteq events',
           \A v \in Calls : pc[v] \in Tracing /\ Current(v) # a =>
               pc'[v] = pc[v] /\ Current(v)' = Current(v)
    PROVE  LostAssets' \subseteq LostAssets \cup {a}
BY DEF LostAssets, Tracing

\* A failure may cost one asset its trace.
LEMMA FailureLosesOne ==
    ASSUME TypeInv, TraceInv, NEW a, assets' = assets, failures' = failures + 1,
           LostAssets' \subseteq LostAssets \cup {a}
    PROVE  TraceInv'
<1>1. IsFiniteSet(LostAssets)
    BY FS_Subset DEF TraceInv, LostAssets
<1>2. /\ IsFiniteSet(LostAssets \cup {a})
      /\ Cardinality(LostAssets \cup {a})
            = IF a \in LostAssets THEN Cardinality(LostAssets) ELSE Cardinality(LostAssets) + 1
    BY <1>1, FS_AddElement
<1>3. /\ Cardinality(LostAssets') <= Cardinality(LostAssets \cup {a})
      /\ Cardinality(LostAssets') \in Nat /\ Cardinality(LostAssets) \in Nat
    BY <1>1, <1>2, FS_Subset, FS_CardinalityType
<1>4. failures \in Nat
    BY BoundAssumption DEF TypeInv, TypeOK
<1>5. QED BY <1>2, <1>3, <1>4 DEF TraceInv

\* Any other step loses none.
LEMMA NothingLost ==
    ASSUME TypeInv, TraceInv, IsFiniteSet(assets'), failures' = failures,
           LostAssets' \subseteq LostAssets
    PROVE  TraceInv'
<1>1. IsFiniteSet(LostAssets)
    BY FS_Subset DEF TraceInv, LostAssets
<1>2. /\ Cardinality(LostAssets') <= Cardinality(LostAssets)
      /\ Cardinality(LostAssets') \in Nat /\ Cardinality(LostAssets) \in Nat
    BY <1>1, FS_Subset, FS_CardinalityType
<1>3. failures \in Nat
    BY BoundAssumption DEF TypeInv, TypeOK
<1>4. QED BY <1>2, <1>3 DEF TraceInv

\* Every step keeps the assets that lack a trace within the failures.
LEMMA NextTraceInv == TypeInv /\ TraceInv /\ [Next]_vars => TraceInv'
<1> SUFFICES ASSUME TypeInv, TraceInv, [Next]_vars PROVE TraceInv'
    OBVIOUS
<1>1. ASSUME NEW w \in Calls, DatabaseError(w) \/ Stop(w) PROVE TraceInv'
    <2>1. /\ failures' = failures + 1 /\ UNCHANGED collections
          /\ \A v \in Calls : v # w =>
                /\ pc'[v] = pc[v] /\ tenant'[v] = tenant[v]
                /\ units'[v] = units[v] /\ serial'[v] = serial[v]
        BY <1>1 DEF DatabaseError, Stop, GiveUpUnit, ReportUnit, ClearCall, GoTo, TypeInv,
                    TypeOK, collections
    <2>2. \A v \in Calls : v # w => Current(v)' = Current(v)
        BY <2>1 DEF Current
    <2>3. LostAssets' \subseteq LostAssets \cup {Current(w)}
        BY <2>1, <2>2, LosesOnly DEF collections
    <2>4. QED BY <2>1, <2>3, FailureLosesOne DEF collections
<1>2. ASSUME NEW w \in Calls,
             \/ IngestAssets(w) \/ RejectRecord(w) \/ FindLast(w) \/ CheckFree(w)
             \/ Refuse(w) \/ InsertConflict(w) \/ Finish(w) \/ Return(w)
      PROVE  TraceInv'
    <2>1. /\ UNCHANGED <<collections, failures>>
          /\ pc[w] \notin Tracing
          /\ \A v \in Calls : v # w =>
                /\ pc'[v] = pc[v] /\ tenant'[v] = tenant[v]
                /\ units'[v] = units[v] /\ serial'[v] = serial[v]
        BY <1>2
           DEF IngestAssets, RejectRecord, FindLast, CheckFree, Refuse, InsertConflict,
               Finish, Return, GiveUpUnit, ClearCall, GoTo, AtUnit, Tracing, TypeInv, TypeOK,
               collections
    <2>2. \A v \in Calls : v # w => Current(v)' = Current(v)
        BY <2>1 DEF Current
    <2>3. LostAssets' \subseteq LostAssets
        BY <2>1, <2>2 DEF LostAssets, Tracing, collections
    <2>4. QED BY <2>1, <2>3, NothingLost DEF TraceInv, collections
<1>3. ASSUME NEW w \in Calls, InsertAsset(w) PROVE TraceInv'
    <2>1. /\ assets' = assets \cup {Current(w)} /\ pc'[w] = "link" /\ pc[w] = "insert"
          /\ UNCHANGED <<links, events, tenant, units, serial, failures>>
          /\ \A v \in Calls : v # w => pc'[v] = pc[v]
        BY <1>3 DEF InsertAsset, GoTo, TypeInv, TypeOK
    <2>2. \A v \in Calls : Current(v)' = Current(v)
        BY <2>1 DEF Current
    <2>3. LostAssets' \subseteq LostAssets
        BY <2>1, <2>2 DEF LostAssets, Tracing
    <2>4. IsFiniteSet(assets')
        BY <2>1, FS_AddElement DEF TraceInv
    <2>5. QED BY <2>1, <2>3, <2>4, NothingLost
<1>4. ASSUME NEW w \in Calls, CreateLink(w) \/ CreateHistory(w) PROVE TraceInv'
    <2>1. /\ \/ /\ pc[w] = "link" /\ pc'[w] = "event" /\ Current(w)' = Current(w)
                /\ links' = links \cup {Current(w)} /\ events' = events
             \/ /\ pc[w] = "event" /\ pc'[w] = "next"
                /\ links' = links /\ events' = events \cup {Current(w)}
          /\ UNCHANGED <<assets, failures>>
          /\ \A v \in Calls : v # w => /\ pc'[v] = pc[v] /\ tenant'[v] = tenant[v]
                                       /\ units'[v] = units[v] /\ serial'[v] = serial[v]
        BY <1>4 DEF CreateLink, CreateHistory, ReportUnit, GoTo, TypeInv, TypeOK, Current
    <2>2. \A v \in Calls : v # w => Current(v)' = Current(v)
        BY <2>1 DEF Current
    <2>3. LostAssets' \subseteq LostAssets
        BY <2>1, <2>2 DEF LostAssets, Tracing
    <2>4. QED BY <2>1, <2>3, NothingLost DEF TraceInv
<1>5. CASE UNCHANGED vars
    <2>1. LostAssets' = LostAssets
        BY <1>5 DEF vars, collections, LostAssets, Current
    <2>2. QED BY <1>5, <2>1, NothingLost DEF TraceInv, vars, collections
<1>6. QED BY <1>1, <1>2, <1>3, <1>4, <1>5 DEF Next, CallStep

\* The assets that no call is working on and that lack their link or their
\* event are never more than the failures.
THEOREM CreatedAssetsAreTraced == Spec => []CreatedIsTraced
<1>1. Init => TraceInv
    <2> SUFFICES ASSUME Init PROVE TraceInv
        OBVIOUS
    <2>1. assets = {} /\ failures = 0 /\ LostAssets = {}
        BY DEF Init, LostAssets
    <2>2. QED BY <2>1, FS_EmptySet DEF TraceInv
<1>2. TypeInv /\ TraceInv /\ [Next]_vars => TraceInv'
    BY NextTraceInv
<1>3. TypeInv /\ TraceInv => CreatedIsTraced
    <2> SUFFICES ASSUME TypeInv, TraceInv PROVE CreatedIsTraced
        OBVIOUS
    <2> DEFINE Untraced ==
            {x \in assets : /\ x \notin links \cap events
                            /\ \A w \in Calls : pc[w] \in {"link", "event"} => Current(w) # x}
    <2>1. Untraced \subseteq LostAssets /\ IsFiniteSet(LostAssets)
        BY FS_Subset DEF LostAssets, Tracing, TraceInv
    <2>2. /\ Cardinality(Untraced) <= Cardinality(LostAssets)
          /\ Cardinality(Untraced) \in Nat /\ Cardinality(LostAssets) \in Nat
        BY <2>1, FS_Subset, FS_CardinalityType
    <2>3. failures \in Nat
        BY BoundAssumption DEF TypeInv, TypeOK
    <2>4. Cardinality(Untraced) <= failures
        BY <2>2, <2>3 DEF TraceInv
    <2>5. QED BY <2>4 DEF CreatedIsTraced
<1>4. QED BY <1>1, <1>2, <1>3, TypeInvariant, PTL DEF Spec

-----------------------------------------------------------------------------
(***************************************************************************)
(* Refinement.  Only InsertAsset changes what the ledger sees.             *)
(***************************************************************************)

\* The numbers below one that is about to be inserted are exactly those in use.
LEMMA NumbersInUse ==
    ASSUME TypeInv, NumberInv, NEW w \in Calls, InsertAsset(w)
    PROVE  {x.number : x \in AssetsOf(Current(w).series)} = 1..(Current(w).number - 1)
<1>1. PICK a \in Asset : a = Current(w)
    BY CurrentType DEF InsertAsset, Busy
<1>2. /\ a.series = Head(units[w]) /\ a.number = serial[w] /\ a.number \in Nat \ {0}
      /\ \A x \in assets : x.number \in Nat \ {0}
      /\ \A x \in assets : ~(x.series = a.series /\ x.number = a.number)
    BY <1>1, CurrentType DEF InsertAsset, Busy, Asset, TypeInv, TypeOK, Taken
<1>3. ASSUME NEW x \in AssetsOf(a.series) PROVE x.number \in 1..(a.number - 1)
    <2>1. x \in assets /\ x.series = a.series /\ x.number \in Nat \ {0}
        BY <1>2, <1>3 DEF AssetsOf
    <2>2. CASE a.number \in 1..x.number
        <3>1. \E y \in assets : y.series = x.series /\ y.number = a.number
            BY <2>1, <2>2 DEF NumberInv, NumbersContiguous
        <3>2. QED BY <1>2, <2>1, <3>1
    <2>3. QED BY <1>2, <2>1, <2>2
<1>4. ASSUME NEW n \in 1..(a.number - 1)
      PROVE  \E x \in AssetsOf(a.series) : x.number = n
    <2>1. PICK x \in assets : x.series = a.series /\ x.number = a.number - 1
        BY <1>2 DEF InsertAsset, NumberInv, SerialFollows
    <2>2. n \in 1..x.number
        BY <1>2, <2>1
    <2>3. PICK y \in assets : y.series = x.series /\ y.number = n
        BY <2>2 DEF NumberInv, NumbersContiguous
    <2>4. QED BY <2>1, <2>3 DEF AssetsOf
<1>5. {x.number : x \in AssetsOf(a.series)} = 1..(a.number - 1)
    BY <1>3, <1>4
<1>6. QED BY <1>1, <1>5

\* Inserting an asset issues the next number of its series to the tenant that
\* holds the series, or that opens it.
LEMMA InsertAssetIssues ==
    ASSUME TypeInv, NumberInv, NEW w \in Calls, InsertAsset(w)
    PROVE  Numbers!Next
<1>1. PICK a \in Asset : a = Current(w)
    BY CurrentType DEF InsertAsset, Busy
<1>2. /\ a.series \in Series /\ a.tenant \in Tenants /\ a.number \in Nat \ {0}
      /\ assets' = assets \cup {a}
      /\ a.number <= SerialModulus
    BY <1>1, CurrentType DEF InsertAsset, Asset, NumberInv, SerialFollows, Busy
<1>3. a.number \in 1..(SerialModulus - 1) \/ a.number = (SerialModulus - 1) + 1
    BY <1>2, ModulusAssumption
<1>4. {x.number : x \in AssetsOf(a.series)} = 1..(a.number - 1)
    BY <1>1, NumbersInUse
<1>5. /\ AssetsOf(a.series)' = AssetsOf(a.series) \cup {a}
      /\ \A s \in Series \ {a.series} : AssetsOf(s)' = AssetsOf(s)
    BY <1>2 DEF AssetsOf
<1>6. {x.number : x \in AssetsOf(a.series)'} = 1..a.number
    <2>1. {x.number : x \in AssetsOf(a.series)'}
            = {x.number : x \in AssetsOf(a.series)} \cup {a.number}
        BY <1>5
    <2>2. 1..a.number = (1..(a.number - 1)) \cup {a.number}
        BY <1>2
    <2>3. QED BY <1>4, <2>1, <2>2
<1>7. \A x \in AssetsOf(a.series)' : x.tenant = a.tenant
    <2>1. SeriesHasOneTenant'
        BY InsertAssetFollows DEF NumberInv
    <2>2. QED BY <1>2, <2>1 DEF SeriesHasOneTenant, AssetsOf
<1>8. /\ {x.tenant : x \in AssetsOf(a.series)} \subseteq {a.tenant}
      /\ {x.tenant : x \in AssetsOf(a.series)'} = {a.tenant}
    BY <1>5, <1>7
<1>9. CASE a.number \in 1..(SerialModulus - 1)
    <2>1. Numbers!Issue(a.series, a.tenant, a.number)
        BY <1>2, <1>4, <1>5, <1>6, <1>8 DEF Numbers!Issue
    <2>2. QED BY <1>2, <1>9, <2>1 DEF Numbers!Next
<1>10. CASE a.number = (SerialModulus - 1) + 1
    <2>1. a.number - 1 = SerialModulus - 1
        BY <1>10, ModulusAssumption
    <2>2. Numbers!Overrun(a.series, a.tenant)
        BY <1>2, <1>4, <1>5, <1>6, <1>8, <1>10, <2>1 DEF Numbers!Overrun
    <2>3. QED BY <1>2, <2>2 DEF Numbers!Next
<1>11. QED BY <1>3, <1>9, <1>10

\* Every other step leaves the collection, and with it the ledger, alone.
LEMMA OthersIssueNothing ==
    ASSUME [Next]_vars, \A w \in Calls : ~InsertAsset(w)
    PROVE  UNCHANGED Numbers!vars
<1>1. assets' = assets
    BY DEF Next, CallStep, IngestAssets, RejectRecord, FindLast, CheckFree, Refuse,
           InsertConflict, CreateLink, CreateHistory, Finish, Return, DatabaseError, Stop,
           vars, collections
<1>2. \A s \in Series : AssetsOf(s)' = AssetsOf(s)
    BY <1>1 DEF AssetsOf
<1>3. QED BY <1>2 DEF Numbers!vars

\* However calls of several tenants overlap, are refused, fail or stop, the
\* numbers of a series are given out one after the other, to one tenant.
THEOREM NumberingImplementsLedger == Spec => ImplementsLedger
<1>1. Init => Numbers!Init
    BY DEF Init, Numbers!Init, AssetsOf
<1>2. TypeInv /\ NumberInv /\ [Next]_vars => [Numbers!Next]_Numbers!vars
    BY InsertAssetIssues, OthersIssueNothing
<1>3. QED
    BY <1>1, <1>2, TypeInvariant, NumberInvariant, PTL
       DEF Spec, ImplementsLedger, Numbers!Spec
=============================================================================
