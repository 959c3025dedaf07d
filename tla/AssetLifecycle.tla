---------------------------- MODULE AssetLifecycle ----------------------------
(***************************************************************************)
(* One asset after its creation: overlapping calls of TransferAsset and    *)
(* DisposeAsset, from HTTP clients and from the TUI.  A call reads the     *)
(* whole asset, changes its copy, writes the whole copy back and appends   *)
(* an event to asset_history.  Other calls run between these steps, and    *)
(* each step may fail.  Assets of different numbers do not interact here.  *)
(*                                                                         *)
(* Definitions marked "Fault" are wrong variants of the definition after   *)
(* them, used only to show that a property notices.                        *)
(***************************************************************************)
EXTENDS Naturals, FiniteSets

CONSTANTS
    Locations,
    Origin,       \* where the asset is when it is ingested
    Calls,        \* calls that may be under way at once
    MaxCalls,     \* calls made (bound)
    MaxFailures,  \* steps that fail (bound)
    None          \* no asset of that number

ASSUME OriginAssumption == Origin \in Locations
ASSUME BoundAssumption == MaxCalls \in Nat /\ MaxFailures \in Nat

VARIABLES
    asset,     \* the document in the assets collection
    trail,     \* what asset_history says of it after its creation
    pc,        \* pc[w]: the next database call of w
    request,   \* request[w]: what w was asked to do
    copy,      \* copy[w]: the asset as w read it
    calls,     \* calls made so far
    failures   \* steps that have failed so far

vars == <<asset, trail, pc, request, copy, calls, failures>>

\* The part of an asset that these calls change.
Asset == [location: Locations, status: {"active", "disposed"}]

ASSUME NoneAssumption == None \notin Asset

Requests == [event: {"transfer", "dispose"}, to: Locations]
Events == [event: {"transfer"}, from: Locations, to: Locations] \cup [event: {"dispose"}]
PCs == {"idle", "get", "update", "record", "done"}

Ingested == [location |-> Origin, status |-> "active"]
NoRequest == [event |-> "transfer", to |-> Origin]

TypeOK ==
    /\ asset \in Asset \/ asset = None
    /\ trail \subseteq Events
    /\ pc \in [Calls -> PCs]
    /\ request \in [Calls -> Requests]
    /\ copy \in [Calls -> Asset]
    /\ calls \in 0..MaxCalls
    /\ failures \in 0..MaxFailures

Init ==
    /\ asset = None
    /\ trail = {}
    /\ pc = [w \in Calls |-> "idle"]
    /\ request = [w \in Calls |-> NoRequest]
    /\ copy = [w \in Calls |-> Ingested]
    /\ calls = 0
    /\ failures = 0

-----------------------------------------------------------------------------
GoTo(w, label) == pc' = [pc EXCEPT ![w] = label]

ClearCall(w) ==
    /\ GoTo(w, "idle")
    /\ request' = [request EXCEPT ![w] = NoRequest]
    /\ copy' = [copy EXCEPT ![w] = Ingested]

CreateAsset ==
    /\ asset = None
    /\ asset' = Ingested
    /\ UNCHANGED <<trail, pc, request, copy, calls, failures>>

TransferAsset(w) ==
    /\ pc[w] = "idle"
    /\ calls < MaxCalls
    /\ calls' = calls + 1
    /\ \E to \in Locations :
          request' = [request EXCEPT ![w] = [event |-> "transfer", to |-> to]]
    /\ GoTo(w, "get")
    /\ UNCHANGED <<asset, trail, copy, failures>>

DisposeAsset(w) ==
    /\ pc[w] = "idle"
    /\ calls < MaxCalls
    /\ calls' = calls + 1
    /\ request' = [request EXCEPT ![w].event = "dispose"]
    /\ GoTo(w, "get")
    /\ UNCHANGED <<asset, trail, copy, failures>>

\* Neither call looks at the status: a disposed asset may be moved, or be
\* disposed of again.
GetAsset(w) ==
    /\ pc[w] = "get"
    /\ asset # None
    /\ copy' = [copy EXCEPT ![w] = asset]
    /\ GoTo(w, "update")
    /\ UNCHANGED <<asset, trail, request, calls, failures>>

AssetNotFound(w) ==
    /\ pc[w] = "get"
    /\ asset = None
    /\ ClearCall(w)
    /\ UNCHANGED <<asset, trail, calls, failures>>

\* Fault: a transfer sets the status too.
Reactivated(w) ==
    IF request[w].event = "dispose"
    THEN [copy[w] EXCEPT !.status = "disposed"]
    ELSE [copy[w] EXCEPT !.location = request[w].to, !.status = "active"]

\* Fault: the request's word is stored as the status.
Unmapped(w) ==
    IF request[w].event = "dispose"
    THEN [copy[w] EXCEPT !.status = "dispose"]
    ELSE [copy[w] EXCEPT !.location = request[w].to]

\* The caller's copy with the one field it changes.
Changed(w) ==
    IF request[w].event = "dispose"
    THEN [copy[w] EXCEPT !.status = "disposed"]
    ELSE [copy[w] EXCEPT !.location = request[w].to]

\* $set of the whole document, under a filter that names only the number.
UpdateAsset(w) ==
    /\ pc[w] = "update"
    /\ asset' = Changed(w)
    /\ GoTo(w, "record")
    /\ UNCHANGED <<trail, request, copy, calls, failures>>

\* Fault: the two locations are recorded the wrong way round.
EventSwapped(w) ==
    IF request[w].event = "dispose"
    THEN [event |-> "dispose"]
    ELSE [event |-> "transfer", from |-> request[w].to, to |-> copy[w].location]

Event(w) ==
    IF request[w].event = "dispose"
    THEN [event |-> "dispose"]
    ELSE [event |-> "transfer", from |-> copy[w].location, to |-> request[w].to]

CreateAssetHistory(w) ==
    /\ pc[w] = "record"
    /\ trail' = trail \cup {Event(w)}
    /\ GoTo(w, "done")
    /\ UNCHANGED <<asset, request, copy, calls, failures>>

Return(w) ==
    /\ pc[w] = "done"
    /\ ClearCall(w)
    /\ UNCHANGED <<asset, trail, calls, failures>>

\* A read or a write that fails ends the call; a failing event is ignored.
DatabaseError(w) ==
    /\ failures < MaxFailures
    /\ failures' = failures + 1
    /\ \/ pc[w] \in {"get", "update"} /\ ClearCall(w)
       \/ pc[w] = "record" /\ GoTo(w, "done") /\ UNCHANGED <<request, copy>>
    /\ UNCHANGED <<asset, trail, calls>>

\* The process ends with the call under way.
Stop(w) ==
    /\ pc[w] \notin {"idle", "done"}
    /\ failures < MaxFailures
    /\ failures' = failures + 1
    /\ ClearCall(w)
    /\ UNCHANGED <<asset, trail, calls>>

CallStep(w) ==
    \/ TransferAsset(w)
    \/ DisposeAsset(w)
    \/ GetAsset(w)
    \/ AssetNotFound(w)
    \/ UpdateAsset(w)
    \/ CreateAssetHistory(w)
    \/ Return(w)
    \/ DatabaseError(w)
    \/ Stop(w)

Next == CreateAsset \/ \E w \in Calls : CallStep(w)

Spec == Init /\ [][Next]_vars

-----------------------------------------------------------------------------
(***************************************************************************)
(* Safety.                                                                 *)
(***************************************************************************)

\* The calls that have written the asset and not yet their event.
Recording == {w \in Calls : pc[w] = "record"}

\* What an asset shows, and what a transfer or a disposal makes it show.
Facts(a) == {<<"location", a.location>>, <<"status", a.status>>}
Outcome(e) == IF e.event = "dispose" THEN <<"status", "disposed">> ELSE <<"location", e.to>>

\* What ingest, the trail, or an event about to be appended leads to.
LedTo(f) ==
    \/ f \in Facts(Ingested)
    \/ \E e \in trail : Outcome(e) = f
    \/ \E w \in Recording : Outcome(request[w]) = f

\* What the asset shows now, and every location the trail says it has left.
Shown ==
    (IF asset = None THEN {} ELSE Facts(asset))
        \cup {<<"location", e.from>> : e \in {x \in trail : x.event = "transfer"}}

\* The audit trail accounts for what the asset shows, however calls overlap: a
\* transfer led to its location and to every location another one left, and a
\* disposal stands behind its status.  What it cannot account for is no more
\* than the steps that failed.
TrailExplainsAsset == Cardinality({f \in Shown : ~LedTo(f)}) <= failures

\* Disposed, and no transfer under way has read it before the disposal.
Settled ==
    /\ asset # None
    /\ asset.status = "disposed"
    /\ \A w \in Calls : pc[w] = "update" /\ request[w].event = "transfer"
                            => copy[w].status = "disposed"

\* A disposal is final from the moment the transfers that overlap it are over:
\* none that starts later, and no failure, puts the asset back in service.
DisposalSettles == [][Settled => Settled']_vars

\* A transfer moves an asset and leaves its status as it is.
TransferKeepsStatus ==
    [][\A w \in Calls :
          pc[w] = "update" /\ pc'[w] = "record" /\ request[w].event = "transfer"
              => asset'.status = asset.status]_vars
=============================================================================
