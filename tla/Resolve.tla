------------------------------- MODULE Resolve -------------------------------
(***************************************************************************)
(* Raw records of one tenant, from ingest to a person: what SaveBatch      *)
(* leaves in the raw collection, the resolve runs that turn pending        *)
(* records into people and links, and the review queue.                    *)
(*                                                                         *)
(* Every resolve run is one call of ResolveService.Resolve.  Runs overlap: *)
(* the HTTP handler and the TUI may each start one while others are under  *)
(* way, and nothing in the code serialises them.  Each database call of a  *)
(* run is one atomic step; between two calls anything else may happen, and *)
(* any call may fail, which ends the run where it stands.                  *)
(*                                                                         *)
(* Definitions marked "Fault" are wrong variants of the definition after   *)
(* them.  Nothing uses them; they stand in for it to show that a property  *)
(* notices.                                                                *)
(***************************************************************************)
EXTENDS Naturals, Sequences, FiniteSets

CONSTANTS
    Raws,         \* documents of the raw collection, present or to come
    Persons,      \* person ids that CreatePerson may draw (bound)
    Resolvers,    \* resolve runs that may be under way at once
    Fields,       \* identifier fields, e.g. nationalId, email, phone
    Values,       \* identifier values, already trimmed and lower-cased
    Refs,         \* <<source slug, external id>> pairs that payloads name
    Payloads,     \* the payloads clients may send
    Times,        \* values of createdAt
    BatchSize,    \* opts.BatchSize after defaulting
    MaxFailures,  \* how many database calls may fail (bound)
    None          \* an absent field

\* A payload is what extractIdentifiers and the external-id rule read of it.
PayloadType == [ids: [Fields -> Values \cup {None}], ref: Refs \cup {None}]

ASSUME RawsAssumption == IsFiniteSet(Raws)
ASSUME NoneAssumption == None \notin (Values \cup Persons \cup Raws \cup Refs)
ASSUME PayloadAssumption == Payloads \subseteq PayloadType
ASSUME TimesAssumption == Times \subseteq Nat
ASSUME BoundAssumption == BatchSize \in Nat \ {0} /\ MaxFailures \in Nat

VARIABLES
    payload,      \* payload[r]: what raw record r carries, fixed before it is sent
    createdAt,    \* createdAt[r]: the SaveBatch time it is stamped with
    status,       \* status[r]: "absent" until SaveBatch inserts it
    owner,        \* owner[r]: raw.personId
    people,       \* person ids in the people collection
    identifiers,  \* identifiers[p]: the identifier fields of person p
    links,        \* documents of the links collection: [key, person]
    pc,           \* pc[w]: the next database call of run w
    rawRecords,   \* rawRecords[w]: the list run w works through
    pos,          \* pos[w]: index of the record it is at
    person,       \* person[w]: the person chosen for that record
    reviewIDs,    \* reviewIDs[w]: records set aside and not yet flushed
    resolved,     \* resolved[w]: result.Resolved
    needsReview,  \* needsReview[w]: result.NeedsReview
    settled,      \* settled[w]: history, the records that had left the queue
                  \* when run w listed it
    failures      \* database calls that have failed so far

environmentVars == <<payload, createdAt>>
peopleVars == <<people, identifiers>>
runVars == <<pc, rawRecords, pos, person, reviewIDs, resolved, needsReview, settled>>
vars == <<environmentVars, status, owner, peopleVars, links, runVars, failures>>

Statuses == {"absent", "pending", "resolved", "needs_review", "rejected"}
PCs == {"idle", "loop", "update", "create", "link", "mark", "done"}
Keys == Refs \cup Raws
Identifiers == [Fields -> Values \cup {None}]
NoIdentifiers == [f \in Fields |-> None]

\* The external id falls back to the raw record's own id, which no other
\* record shares; with the source slug it is the unique key of a link.
Key(r) == IF payload[r].ref = None THEN r ELSE payload[r].ref

Ids(r) == payload[r].ids
HasIdentifiers(r) == \E f \in Fields : Ids(r)[f] # None

\* Fault: every identifier has to match ($and for $or).
MatchingAll(ids) ==
    {p \in people : \A f \in Fields : ids[f] # None /\ identifiers[p][f] = ids[f]}

\* People that share at least one identifier with ids (the $or filter).
Matching(ids) ==
    {p \in people : \E f \in Fields : ids[f] # None /\ identifiers[p][f] = ids[f]}

Overwrite(old, new) ==
    [f \in Fields |-> IF new[f] = None THEN old[f] ELSE new[f]]

\* Fault: a listing without the status filter's exact value.
Unresolved == {r \in Raws : status[r] \notin {"absent", "resolved"}}

Pending == {r \in Raws : status[r] = "pending"}

\* Pending records, oldest first, at most BatchSize of them; records of one
\* batch carry the same createdAt and come in any order.
PendingLists ==
    LET n == IF Cardinality(Pending) < BatchSize THEN Cardinality(Pending)
                                                 ELSE BatchSize
    IN  {q \in [1..n -> Pending] :
            /\ \A i, j \in 1..n : i < j => /\ q[i] # q[j]
                                           /\ createdAt[q[i]] <= createdAt[q[j]]
            /\ \A r \in Pending : \/ \E i \in 1..n : q[i] = r
                                  \/ \A i \in 1..n : createdAt[q[i]] <= createdAt[r]}

Current(w) == rawRecords[w][pos[w]]
AtRecord(w) == pc[w] = "loop" /\ pos[w] \in 1..Len(rawRecords[w])
PastLoop(w) == pc[w] = "loop" /\ pos[w] > Len(rawRecords[w])

-----------------------------------------------------------------------------
TypeOK ==
    /\ payload \in [Raws -> Payloads]
    /\ createdAt \in [Raws -> Times]
    /\ status \in [Raws -> Statuses]
    /\ owner \in [Raws -> Persons \cup {None}]
    /\ people \subseteq Persons
    /\ identifiers \in [Persons -> Identifiers]
    /\ links \subseteq [key: Keys, person: Persons]
    /\ pc \in [Resolvers -> PCs]
    /\ rawRecords \in [Resolvers -> Seq(Raws)]
    /\ pos \in [Resolvers -> Nat \ {0}]
    /\ person \in [Resolvers -> Persons \cup {None}]
    /\ reviewIDs \in [Resolvers -> SUBSET Raws]
    /\ resolved \in [Resolvers -> Nat]
    /\ needsReview \in [Resolvers -> Nat]
    /\ settled \in [Resolvers -> SUBSET Raws]
    /\ failures \in 0..MaxFailures

Init ==
    /\ payload \in [Raws -> Payloads]
    /\ createdAt \in [Raws -> Times]
    /\ status = [r \in Raws |-> "absent"]
    /\ owner = [r \in Raws |-> None]
    /\ people = {}
    /\ identifiers = [p \in Persons |-> NoIdentifiers]
    /\ links = {}
    /\ pc = [w \in Resolvers |-> "idle"]
    /\ rawRecords = [w \in Resolvers |-> <<>>]
    /\ pos = [w \in Resolvers |-> 1]
    /\ person = [w \in Resolvers |-> None]
    /\ reviewIDs = [w \in Resolvers |-> {}]
    /\ resolved = [w \in Resolvers |-> 0]
    /\ needsReview = [w \in Resolvers |-> 0]
    /\ settled = [w \in Resolvers |-> {}]
    /\ failures = 0

-----------------------------------------------------------------------------
(***************************************************************************)
(* Ingest.  InsertMany inserts document by document, so a batch may arrive *)
(* in part, and a batch with an earlier createdAt may arrive after a later *)
(* one.  A client's retry is a further record with an equal payload.       *)
(***************************************************************************)
IngestRecord(r) ==
    /\ status[r] = "absent"
    /\ status' = [status EXCEPT ![r] = "pending"]
    /\ UNCHANGED <<environmentVars, owner, peopleVars, links, runVars, failures>>

-----------------------------------------------------------------------------
(***************************************************************************)
(* A resolve run.                                                          *)
(***************************************************************************)
GoTo(w, label) == pc' = [pc EXCEPT ![w] = label]

\* The locals of a call that has returned.
ClearRun(w) ==
    /\ GoTo(w, "idle")
    /\ rawRecords' = [rawRecords EXCEPT ![w] = <<>>]
    /\ pos' = [pos EXCEPT ![w] = 1]
    /\ person' = [person EXCEPT ![w] = None]
    /\ reviewIDs' = [reviewIDs EXCEPT ![w] = {}]
    /\ resolved' = [resolved EXCEPT ![w] = 0]
    /\ needsReview' = [needsReview EXCEPT ![w] = 0]
    /\ settled' = [settled EXCEPT ![w] = {}]

ListPending(w) ==
    /\ pc[w] = "idle"
    /\ \E q \in PendingLists : rawRecords' = [rawRecords EXCEPT ![w] = q]
    /\ settled' = [settled EXCEPT
                       ![w] = {r \in Raws : status[r] \notin {"absent", "pending"}}]
    /\ GoTo(w, "loop")
    /\ UNCHANGED <<environmentVars, status, owner, peopleVars, links, pos,
                   person, reviewIDs, resolved, needsReview, failures>>

SetAside(w) ==
    /\ AtRecord(w)
    /\ ~HasIdentifiers(Current(w))
    /\ reviewIDs' = [reviewIDs EXCEPT ![w] = @ \cup {Current(w)}]
    /\ needsReview' = [needsReview EXCEPT ![w] = @ + 1]
    /\ pos' = [pos EXCEPT ![w] = @ + 1]
    /\ UNCHANGED <<environmentVars, status, owner, peopleVars, links, pc,
                   rawRecords, person, resolved, settled, failures>>

\* FindOne without a sort: any person that matches.
FindPerson(w) ==
    /\ AtRecord(w)
    /\ HasIdentifiers(Current(w))
    /\ \E p \in Matching(Ids(Current(w))) : person' = [person EXCEPT ![w] = p]
    /\ GoTo(w, "update")
    /\ UNCHANGED <<environmentVars, status, owner, peopleVars, links, rawRecords,
                   pos, reviewIDs, resolved, needsReview, settled, failures>>

FindNobody(w) ==
    /\ AtRecord(w)
    /\ HasIdentifiers(Current(w))
    /\ Matching(Ids(Current(w))) = {}
    /\ GoTo(w, "create")
    /\ UNCHANGED <<environmentVars, status, owner, peopleVars, links, rawRecords,
                   pos, person, reviewIDs, resolved, needsReview, settled, failures>>

\* No index of the people collection covers an identifier, so the insert
\* succeeds whatever has been inserted since FindNobody.
CreatePerson(w) ==
    /\ pc[w] = "create"
    /\ \E p \in Persons \ people :
          /\ people' = people \cup {p}
          /\ identifiers' = [identifiers EXCEPT ![p] = Ids(Current(w))]
          /\ person' = [person EXCEPT ![w] = p]
    /\ resolved' = [resolved EXCEPT ![w] = @ + 1]
    /\ GoTo(w, "link")
    /\ UNCHANGED <<environmentVars, status, owner, links, rawRecords, pos,
                   reviewIDs, needsReview, settled, failures>>

\* Fault: an existing person is taken to be linked already.
UpdateWithoutLink(w) ==
    /\ pc[w] = "update"
    /\ identifiers' = [identifiers EXCEPT
                          ![person[w]] = Overwrite(@, Ids(Current(w)))]
    /\ resolved' = [resolved EXCEPT ![w] = @ + 1]
    /\ GoTo(w, "mark")
    /\ UNCHANGED <<environmentVars, status, owner, people, links, rawRecords,
                   pos, person, reviewIDs, needsReview, settled, failures>>

UpdatePersonIdentifiers(w) ==
    /\ pc[w] = "update"
    /\ identifiers' = [identifiers EXCEPT
                          ![person[w]] = Overwrite(@, Ids(Current(w)))]
    /\ resolved' = [resolved EXCEPT ![w] = @ + 1]
    /\ GoTo(w, "link")
    /\ UNCHANGED <<environmentVars, status, owner, people, links, rawRecords,
                   pos, person, reviewIDs, needsReview, settled, failures>>

\* Fault: the links_external index is not unique.
NeverTaken(key, p) == FALSE

\* The unique index over tenant, external id and source refuses an insert.
KeyTaken(key, p) == \E l \in links : l.key = key /\ l.person # p

UpsertLink(w) ==
    /\ pc[w] = "link"
    /\ ~KeyTaken(Key(Current(w)), person[w])
    /\ links' = links \cup {[key |-> Key(Current(w)), person |-> person[w]]}
    /\ GoTo(w, "mark")
    /\ UNCHANGED <<environmentVars, status, owner, peopleVars, rawRecords, pos,
                   person, reviewIDs, resolved, needsReview, settled, failures>>

\* Fault: the error of UpsertLink is dropped.
LinkConflictIgnored(w) ==
    /\ pc[w] = "link"
    /\ KeyTaken(Key(Current(w)), person[w])
    /\ GoTo(w, "mark")
    /\ UNCHANGED <<environmentVars, status, owner, peopleVars, links, rawRecords,
                   pos, person, reviewIDs, resolved, needsReview, settled, failures>>

\* The upsert's filter names the person, so a key linked to somebody else is
\* inserted again and refused: the call returns the error.
LinkConflict(w) ==
    /\ pc[w] = "link"
    /\ KeyTaken(Key(Current(w)), person[w])
    /\ ClearRun(w)
    /\ UNCHANGED <<environmentVars, status, owner, peopleVars, links, failures>>

\* UpdateRawStatus does not look at the status the record has by now.
MarkResolved(w) ==
    /\ pc[w] = "mark"
    /\ status' = [status EXCEPT ![Current(w)] = "resolved"]
    /\ owner' = [owner EXCEPT ![Current(w)] = person[w]]
    /\ pos' = [pos EXCEPT ![w] = @ + 1]
    /\ person' = [person EXCEPT ![w] = None]
    /\ GoTo(w, "loop")
    /\ UNCHANGED <<environmentVars, peopleVars, links, rawRecords, reviewIDs,
                   resolved, needsReview, settled, failures>>

\* Fault: the set-aside records are counted and never written.
FlushForgotten(w) ==
    /\ PastLoop(w)
    /\ reviewIDs[w] # {}
    /\ reviewIDs' = [reviewIDs EXCEPT ![w] = {}]
    /\ UNCHANGED <<environmentVars, status, owner, peopleVars, links, pc, rawRecords,
                   pos, person, resolved, needsReview, settled, failures>>

\* UpdateMany over reviewIDs writes one document after another.
FlushReview(w) ==
    /\ PastLoop(w)
    /\ \E r \in reviewIDs[w] :
          /\ status' = [status EXCEPT ![r] = "needs_review"]
          /\ reviewIDs' = [reviewIDs EXCEPT ![w] = @ \ {r}]
    /\ UNCHANGED <<environmentVars, owner, peopleVars, links, pc, rawRecords,
                   pos, person, resolved, needsReview, settled, failures>>

\* Fault: the run returns before the set-aside records are written.
FinishEarly(w) ==
    /\ PastLoop(w)
    /\ GoTo(w, "done")
    /\ UNCHANGED <<environmentVars, status, owner, peopleVars, links, rawRecords,
                   pos, person, reviewIDs, resolved, needsReview, settled, failures>>

Finish(w) ==
    /\ PastLoop(w)
    /\ reviewIDs[w] = {}
    /\ GoTo(w, "done")
    /\ UNCHANGED <<environmentVars, status, owner, peopleVars, links, rawRecords,
                   pos, person, reviewIDs, resolved, needsReview, settled, failures>>

Return(w) ==
    /\ pc[w] = "done"
    /\ ClearRun(w)
    /\ UNCHANGED <<environmentVars, status, owner, peopleVars, links, failures>>

\* result.Skipped
Skipped(w) == Len(rawRecords[w]) - resolved[w] - needsReview[w]

\* A database error, a client that goes away (its request context is
\* cancelled) or the end of the process: the run stops between two calls.
Fail(w) ==
    /\ pc[w] \notin {"idle", "done"}
    /\ failures < MaxFailures
    /\ failures' = failures + 1
    /\ ClearRun(w)
    /\ UNCHANGED <<environmentVars, status, owner, peopleVars, links>>

-----------------------------------------------------------------------------
(***************************************************************************)
(* The review queue.  A reviewer may name any record of the tenant, shown  *)
(* in a listing, in the answer of a lookup or nowhere: neither the service *)
(* nor the store looks at the status the record has.  An id that names no  *)
(* record changes nothing.                                                 *)
(***************************************************************************)
\* Fault: the decision itself is stored as the status.
DecideUnmapped(r, decision) ==
    /\ status[r] # "absent"
    /\ status' = [status EXCEPT ![r] = decision]
    /\ UNCHANGED <<environmentVars, owner, peopleVars, links, runVars, failures>>

Decide(r, decision) ==
    /\ status[r] # "absent"
    /\ status' = [status EXCEPT ![r] =
                     IF decision = "accept" THEN "resolved" ELSE "rejected"]
    /\ UNCHANGED <<environmentVars, owner, peopleVars, links, runVars, failures>>

-----------------------------------------------------------------------------
RunStep(w) ==
    \/ ListPending(w)
    \/ SetAside(w)
    \/ FindPerson(w)
    \/ FindNobody(w)
    \/ CreatePerson(w)
    \/ UpdatePersonIdentifiers(w)
    \/ UpsertLink(w)
    \/ LinkConflict(w)
    \/ MarkResolved(w)
    \/ FlushReview(w)
    \/ Finish(w)
    \/ Return(w)

Next ==
    \/ \E r \in Raws : IngestRecord(r)
    \/ \E w \in Resolvers : RunStep(w) \/ Fail(w)
    \/ \E r \in Raws, decision \in {"accept", "reject"} : Decide(r, decision)

Spec == Init /\ [][Next]_vars

\* A scheduled job keeps starting runs, and a run that is under way goes on;
\* nothing obliges a client to send, a reviewer to decide, or a call to fail.
Fairness == \A w \in Resolvers : WF_vars(RunStep(w))

FairSpec == Spec /\ Fairness

-----------------------------------------------------------------------------
(***************************************************************************)
(* Safety.                                                                 *)
(***************************************************************************)

\* A record that names its person is backed by the link of its own key to
\* that very person, and that person exists.
OwnerLinked ==
    \A r \in Raws : owner[r] # None =>
        /\ [key |-> Key(r), person |-> owner[r]] \in links
        /\ owner[r] \in people

\* Two records of the same source and external id never end up with two people.
SameKeySameOwner ==
    \A r, s \in Raws :
        (owner[r] # None /\ owner[s] # None /\ Key(r) = Key(s)) => owner[r] = owner[s]

\* A run that returns without an error has taken every record it listed out
\* of the pending state, has given each one with identifiers its person, and
\* its counts account for all of them.
SuccessfulRunIsComplete ==
    \A w \in Resolvers : pc[w] = "done" =>
        /\ \A i \in 1..Len(rawRecords[w]) :
              /\ status[rawRecords[w][i]] # "pending"
              /\ HasIdentifiers(rawRecords[w][i]) => owner[rawRecords[w][i]] # None
        /\ Skipped(w) = 0

\* Conditions on the payloads of a tenant.  Two records share an identifier if
\* one would find a person created from the other; sharing is transitive if any
\* two records that a chain of shared identifiers connects share one directly,
\* and it agrees if records that share an identifier contradict each other in
\* none.  Records with one identifier each meet both.
Sharing(q, s) == \E f \in Fields : q.ids[f] # None /\ q.ids[f] = s.ids[f]

SharingIsTransitive ==
    \A q, s, t \in Payloads : Sharing(q, s) /\ Sharing(s, t) => Sharing(q, t)

SharingAgrees ==
    \A q, s \in Payloads : Sharing(q, s) =>
        \A f \in Fields : q.ids[f] # None /\ s.ids[f] # None => q.ids[f] = s.ids[f]

\* Nobody is recorded twice: no identifier value is shared by two people.
NoDuplicatePerson ==
    \A p, q \in people : p # q =>
        \A f \in Fields : identifiers[p][f] # None
                              => identifiers[p][f] # identifiers[q][f]

(***************************************************************************)
(* Action properties.                                                      *)
(***************************************************************************)

\* Once attributed, a record keeps its person and never becomes pending again,
\* whichever run or reviewer touches it later.
AttributionStable ==
    [][\A r \in Raws :
          /\ owner[r] # None => owner'[r] = owner[r]
          /\ status[r] # "absent" /\ status'[r] = "pending" => status[r] = "pending"]_vars

\* A decision stands: a run leaves alone every record that had left the queue
\* when it began, whatever it reads, sets aside or repeats, so that a decision
\* is undone only by a run that was under way when it was taken.
DecisionStands ==
    [][\A w \in Resolvers : \A r \in settled[w] :
          RunStep(w) => status'[r] = status[r]]_vars

(***************************************************************************)
(* Liveness.                                                               *)
(***************************************************************************)

\* Every pending record is eventually taken out of the queue.
PendingDrains ==
    \A r \in Raws : (status[r] = "pending") ~> (status[r] # "pending")

(***************************************************************************)
(* Refinement.                                                             *)
(***************************************************************************)
Promise == INSTANCE Attribution WITH
    keyOf <- [r \in Raws |-> Key(r)],
    binding <- [key \in Keys |-> {l.person : l \in {m \in links : m.key = key}}]

\* Overlapping, failing runs implement the promise of Attribution.
ImplementsAttribution == Promise!Spec
=============================================================================
