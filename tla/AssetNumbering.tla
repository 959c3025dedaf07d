---------------------------- MODULE AssetNumbering ----------------------------
(***************************************************************************)
(* How AssetService.IngestAssets numbers and creates assets, for several   *)
(* tenants at once.  A number is {office}-{year}-{category}-{type}-{n}; the *)
(* first four parts are a series here.  The assets collection is shared:    *)
(* the search for the last serial looks at one tenant's assets, while the   *)
(* check for a taken number and the unique index look at everybody's.      *)
(*                                                                         *)
(* A call works through its units (a record of quantity k is k units) and  *)
(* goes on to the next one when a unit fails.  Each database call is one   *)
(* atomic step and may fail; the process may also stop between two steps.  *)
(*                                                                         *)
(* Definitions marked "Fault" are wrong variants of the definition after   *)
(* them, used only to show that a property notices.                        *)
(***************************************************************************)
EXTENDS Naturals, Sequences, FiniteSets

CONSTANTS
    Tenants,
    Series,         \* office, year, category and type of an asset number
    Calls,          \* calls of IngestAssets that may be under way at once
    SerialModulus,  \* 10000: serialIncrement is the number's last four digits
    MaxUnits,       \* units of one call (bound)
    MaxCalls,       \* calls made (bound)
    MaxFailures,    \* database calls that fail and processes that stop (bound)
    Invalid         \* a record that validateAssetRecord rejects

ASSUME ModulusAssumption == SerialModulus \in Nat /\ SerialModulus > 1
ASSUME BoundAssumption ==
    MaxUnits \in Nat /\ MaxCalls \in Nat /\ MaxFailures \in Nat
ASSUME InvalidAssumption == Invalid \notin Series

VARIABLES
    assets,    \* the assets collection
    links,     \* assets that have their asset_links document
    events,    \* assets that have their "created" event in asset_history
    pc,        \* pc[w]: what call w does next
    tenant,    \* tenant[w]: the tenant it is made for
    units,     \* units[w]: the units it still has to create
    serial,    \* serial[w]: nextSerial of the current unit
    reported,  \* reported[w]: result.AssetNumbers
    errors,    \* errors[w]: units and records it has given up
    calls,     \* calls made so far
    failures   \* failures so far

collections == <<assets, links, events>>
vars == <<collections, pc, tenant, units, serial, reported, errors, calls, failures>>

Asset == [tenant: Tenants, series: Series, number: Nat \ {0}]
PCs == {"idle", "next", "count", "insert", "link", "event", "done"}

\* serialIncrement, the last four characters of the number as it is printed.
SerialIncrement(asset) == asset.number % SerialModulus

Current(w) == [tenant |-> tenant[w], series |-> Head(units[w]), number |-> serial[w]]

OwnAssets(w) == {x \in assets : x.tenant = tenant[w] /\ x.series = Head(units[w])}

\* Fault: the uniqueness check and the index look at the tenant's own assets.
TakenInTenant(asset) == asset \in assets

\* Numbers carry no tenant: an asset of any tenant takes its number.
Taken(asset) ==
    \E x \in assets : x.series = asset.series /\ x.number = asset.number

TypeOK ==
    /\ assets \subseteq Asset
    /\ links \subseteq Asset
    /\ events \subseteq Asset
    /\ pc \in [Calls -> PCs]
    /\ tenant \in [Calls -> Tenants]
    /\ units \in [Calls -> Seq(Series \cup {Invalid})]
    /\ serial \in [Calls -> Nat]
    /\ reported \in [Calls -> SUBSET Asset]
    /\ errors \in [Calls -> Nat]
    /\ calls \in 0..MaxCalls
    /\ failures \in 0..MaxFailures

Init ==
    /\ assets = {} /\ links = {} /\ events = {}
    /\ pc = [w \in Calls |-> "idle"]
    /\ tenant \in [Calls -> Tenants]
    /\ units = [w \in Calls |-> <<>>]
    /\ serial = [w \in Calls |-> 0]
    /\ reported = [w \in Calls |-> {}]
    /\ errors = [w \in Calls |-> 0]
    /\ calls = 0
    /\ failures = 0

-----------------------------------------------------------------------------
GoTo(w, label) == pc' = [pc EXCEPT ![w] = label]

ClearCall(w) ==
    /\ GoTo(w, "idle")
    /\ units' = [units EXCEPT ![w] = <<>>]
    /\ serial' = [serial EXCEPT ![w] = 0]
    /\ reported' = [reported EXCEPT ![w] = {}]
    /\ errors' = [errors EXCEPT ![w] = 0]
    /\ UNCHANGED tenant

\* The unit is given up with an entry in result.Errors.
GiveUpUnit(w) ==
    /\ GoTo(w, "next")
    /\ units' = [units EXCEPT ![w] = Tail(@)]
    /\ serial' = [serial EXCEPT ![w] = 0]
    /\ errors' = [errors EXCEPT ![w] = @ + 1]
    /\ UNCHANGED <<tenant, reported>>

\* The unit is created and reported.
ReportUnit(w) ==
    /\ GoTo(w, "next")
    /\ units' = [units EXCEPT ![w] = Tail(@)]
    /\ serial' = [serial EXCEPT ![w] = 0]
    /\ reported' = [reported EXCEPT ![w] = @ \cup {Current(w)}]
    /\ UNCHANGED <<tenant, errors>>

IngestAssets(w) ==
    /\ pc[w] = "idle"
    /\ calls < MaxCalls
    /\ calls' = calls + 1
    /\ \E t \in Tenants, n \in 1..MaxUnits :
         \E q \in [1..n -> Series \cup {Invalid}] :
            /\ tenant' = [tenant EXCEPT ![w] = t]
            /\ units' = [units EXCEPT ![w] = q]
    /\ GoTo(w, "next")
    /\ UNCHANGED <<collections, serial, reported, errors, failures>>

RejectRecord(w) ==
    /\ pc[w] = "next"
    /\ units[w] # <<>>
    /\ Head(units[w]) = Invalid
    /\ GiveUpUnit(w)
    /\ UNCHANGED <<collections, calls, failures>>

AtUnit(w) == pc[w] = "next" /\ units[w] # <<>> /\ Head(units[w]) # Invalid

\* Fault: the first serial of a series is zero.
FindLastFromZero(w) ==
    /\ AtUnit(w)
    /\ serial' = [serial EXCEPT ![w] = Cardinality(OwnAssets(w))]
    /\ GoTo(w, "count")
    /\ UNCHANGED <<collections, tenant, units, reported, errors, calls, failures>>

\* Fault: the serial after the number of assets the tenant has, plus one.
FindLastOffByOne(w) ==
    /\ AtUnit(w)
    /\ serial' = [serial EXCEPT ![w] = Cardinality(OwnAssets(w)) + 2]
    /\ GoTo(w, "count")
    /\ UNCHANGED <<collections, tenant, units, reported, errors, calls, failures>>

\* Fault: the serial after the greatest number, without the four-digit field.
FindLastByNumber(w) ==
    /\ AtUnit(w)
    /\ \/ /\ OwnAssets(w) = {}
          /\ serial' = [serial EXCEPT ![w] = 1]
       \/ \E last \in OwnAssets(w) :
             /\ \A x \in OwnAssets(w) : x.number <= last.number
             /\ serial' = [serial EXCEPT ![w] = last.number + 1]
    /\ GoTo(w, "count")
    /\ UNCHANGED <<collections, tenant, units, reported, errors, calls, failures>>

\* The serial after the greatest serialIncrement among the tenant's assets of
\* the series.
FindLast(w) ==
    /\ AtUnit(w)
    /\ \/ /\ OwnAssets(w) = {}
          /\ serial' = [serial EXCEPT ![w] = 1]
       \/ \E last \in OwnAssets(w) :
             /\ \A x \in OwnAssets(w) : SerialIncrement(x) <= SerialIncrement(last)
             /\ serial' = [serial EXCEPT ![w] = SerialIncrement(last) + 1]
    /\ GoTo(w, "count")
    /\ UNCHANGED <<collections, tenant, units, reported, errors, calls, failures>>

CheckFree(w) ==
    /\ pc[w] = "count"
    /\ ~Taken(Current(w))
    /\ GoTo(w, "insert")
    /\ UNCHANGED <<collections, tenant, units, serial, reported, errors, calls,
                   failures>>

Refuse(w) ==
    /\ pc[w] = "count"
    /\ Taken(Current(w))
    /\ GiveUpUnit(w)
    /\ UNCHANGED <<collections, calls, failures>>

InsertAsset(w) ==
    /\ pc[w] = "insert"
    /\ ~Taken(Current(w))
    /\ assets' = assets \cup {Current(w)}
    /\ GoTo(w, "link")
    /\ UNCHANGED <<links, events, tenant, units, serial, reported, errors, calls,
                   failures>>

\* Fault: an insert that the index refuses counts as created.
InsertConflictReported(w) ==
    /\ pc[w] = "insert"
    /\ Taken(Current(w))
    /\ ReportUnit(w)
    /\ UNCHANGED <<collections, calls, failures>>

\* Another call has inserted the number since CheckFree: the index refuses.
InsertConflict(w) ==
    /\ pc[w] = "insert"
    /\ Taken(Current(w))
    /\ GiveUpUnit(w)
    /\ UNCHANGED <<collections, calls, failures>>

CreateLink(w) ==
    /\ pc[w] = "link"
    /\ links' = links \cup {Current(w)}
    /\ GoTo(w, "event")
    /\ UNCHANGED <<assets, events, tenant, units, serial, reported, errors, calls,
                   failures>>

\* Fault: the "created" event is left to somebody else.
CreateNoHistory(w) ==
    /\ pc[w] = "event"
    /\ ReportUnit(w)
    /\ UNCHANGED <<collections, calls, failures>>

CreateHistory(w) ==
    /\ pc[w] = "event"
    /\ events' = events \cup {Current(w)}
    /\ ReportUnit(w)
    /\ UNCHANGED <<assets, links, calls, failures>>

Finish(w) ==
    /\ pc[w] = "next"
    /\ units[w] = <<>>
    /\ GoTo(w, "done")
    /\ UNCHANGED <<collections, tenant, units, serial, reported, errors, calls,
                   failures>>

Return(w) ==
    /\ pc[w] = "done"
    /\ ClearCall(w)
    /\ UNCHANGED <<collections, calls, failures>>

\* A database call fails.  Up to the insert that costs the unit; a failing
\* link or event is ignored.
DatabaseError(w) ==
    /\ failures < MaxFailures
    /\ failures' = failures + 1
    /\ \/ AtUnit(w) /\ GiveUpUnit(w)
       \/ pc[w] \in {"count", "insert"} /\ GiveUpUnit(w)
       \/ pc[w] = "link" /\ GoTo(w, "event")
             /\ UNCHANGED <<tenant, units, serial, reported, errors>>
       \/ pc[w] = "event" /\ ReportUnit(w)
    /\ UNCHANGED <<collections, calls>>

\* The process ends with the call under way.
Stop(w) ==
    /\ pc[w] \notin {"idle", "done"}
    /\ failures < MaxFailures
    /\ failures' = failures + 1
    /\ ClearCall(w)
    /\ UNCHANGED <<collections, calls>>

CallStep(w) ==
    \/ IngestAssets(w)
    \/ RejectRecord(w)
    \/ FindLast(w)
    \/ CheckFree(w)
    \/ Refuse(w)
    \/ InsertAsset(w)
    \/ InsertConflict(w)
    \/ CreateLink(w)
    \/ CreateHistory(w)
    \/ Finish(w)
    \/ Return(w)
    \/ DatabaseError(w)
    \/ Stop(w)

Next == \E w \in Calls : CallStep(w)

Spec == Init /\ [][Next]_vars

-----------------------------------------------------------------------------
(***************************************************************************)
(* Safety.                                                                 *)
(***************************************************************************)

\* Whatever calls overlap, fail or stop, the numbers of a series have no gap:
\* an asset follows the one with the number before it.
NumbersContiguous ==
    \A x \in assets : \A n \in 1..x.number :
        \E y \in assets : y.series = x.series /\ y.number = n

\* The last four digits hold the series down to SerialModulus numbers, one more
\* than the 9999 of the documents; the number that wraps to 0000 is the last one.
NumbersBounded == \A x \in assets : x.number <= SerialModulus

\* A series belongs to the tenant that got its first number.
SeriesHasOneTenant == \A x, y \in assets : x.series = y.series => x.tenant = y.tenant

\* What a call reports exists, is its tenant's, and no other call reports it.
ReportedOnce ==
    \A w \in Calls :
        /\ reported[w] \subseteq {x \in assets : x.tenant = tenant[w]}
        /\ \A v \in Calls : v # w => reported[v] \cap reported[w] = {}

\* Every asset that no call is still working on has its link and its "created"
\* event, but for one asset at most for each database call that failed and each
\* process that stopped.
CreatedIsTraced ==
    Cardinality({x \in assets :
        /\ x \notin links \cap events
        /\ \A w \in Calls : pc[w] \in {"link", "event"} => Current(w) # x}) <= failures

(***************************************************************************)
(* Refinement.                                                             *)
(***************************************************************************)
AssetsOf(s) == {x \in assets : x.series = s}

Numbers == INSTANCE Ledger WITH
    Capacity <- SerialModulus - 1,
    issued <- [s \in Series |-> {x.number : x \in AssetsOf(s)}],
    holder <- [s \in Series |-> {x.tenant : x \in AssetsOf(s)}]

\* Overlapping, refused and failing calls of all tenants give out the numbers
\* of a series as one ledger would, the documented ones and one beyond them.
ImplementsLedger == Numbers!Spec
=============================================================================
