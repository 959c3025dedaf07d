---------------------------- MODULE ResolveProofs ----------------------------
(***************************************************************************)
(* What holds of Resolve for every number of records, people, runs and     *)
(* failures.                                                               *)
(***************************************************************************)
EXTENDS Resolve, TLAPS, FiniteSetTheorems

\* The calls at which a run is busy with the record at its position.
Working == {"update", "create", "link", "mark"}

-----------------------------------------------------------------------------
(***************************************************************************)
(* The inductive invariant.                                                *)
(***************************************************************************)

\* A run that is not under way has no locals.
IdleIsClear ==
    \A w \in Resolvers : pc[w] = "idle" =>
        /\ pos[w] = 1
        /\ reviewIDs[w] = {}
        /\ resolved[w] = 0
        /\ needsReview[w] = 0

\* A run is never past the end of its list by more than one, and is at one of
\* its records whenever it works on one.
Position ==
    \A w \in Resolvers :
        /\ pos[w] <= Len(rawRecords[w]) + 1
        /\ pc[w] \in Working => pos[w] <= Len(rawRecords[w])

\* The person a run has chosen exists.
Chosen == \A w \in Resolvers : pc[w] \in {"update", "link", "mark"} => person[w] \in people

TypeInv == TypeOK /\ IdleIsClear /\ Position /\ Chosen

-----------------------------------------------------------------------------
(***************************************************************************)
(* Lemmas about the operators.                                             *)
(***************************************************************************)

\* ListRawByStatus returns pending records.
LEMMA PendingListsType ==
    ASSUME NEW q \in PendingLists
    PROVE  /\ q \in Seq(Raws)
           /\ \A i \in 1..Len(q) : q[i] \in Pending
<1>1. Cardinality(Pending) \in Nat
    BY RawsAssumption, FS_Subset, FS_CardinalityType DEF Pending
<1>2. PICK n \in Nat : q \in [1..n -> Pending]
    BY <1>1, BoundAssumption DEF PendingLists
<1>3. QED BY <1>2 DEF Pending

\* The record a run is at is a raw record.
LEMMA CurrentType ==
    ASSUME TypeOK, Position, NEW w \in Resolvers,
           pc[w] \in Working \/ AtRecord(w)
    PROVE  /\ pos[w] \in 1..Len(rawRecords[w])
           /\ Current(w) \in Raws
<1>1. pos[w] \in 1..Len(rawRecords[w])
    BY DEF TypeOK, Position, AtRecord
<1>2. rawRecords[w] \in Seq(Raws)
    BY DEF TypeOK
<1>3. QED BY <1>1, <1>2 DEF Current

\* A record's identifiers and its key are well formed.
LEMMA PayloadFacts ==
    ASSUME TypeOK, NEW r \in Raws
    PROVE  /\ Ids(r) \in Identifiers
           /\ Key(r) \in Keys
BY PayloadAssumption DEF TypeOK, PayloadType, Ids, Identifiers, Key, Keys

-----------------------------------------------------------------------------
(***************************************************************************)
(* Type correctness.                                                       *)
(***************************************************************************)
\* The initial state is well-typed.
LEMMA InitTypeInv == Init => TypeInv
BY BoundAssumption, NoneAssumption
   DEF Init, TypeInv, TypeOK, IdleIsClear, Position, Chosen, Working, Statuses, PCs,
       Identifiers, NoIdentifiers

\* A run that ends leaves its locals well-typed.
LEMMA ClearRunType ==
    ASSUME TypeInv, NEW w \in Resolvers, ClearRun(w),
           UNCHANGED <<environmentVars, status, owner, peopleVars, links>>,
           failures' \in 0..MaxFailures
    PROVE  TypeInv'
BY DEF TypeInv, TypeOK, IdleIsClear, Position, Chosen, Working, ClearRun, GoTo, PCs,
       environmentVars, peopleVars

\* Every step keeps the types and the positions of runs in their lists.
LEMMA NextTypeInv == TypeInv /\ [Next]_vars => TypeInv'
<1> SUFFICES ASSUME TypeInv, [Next]_vars PROVE TypeInv'
    OBVIOUS
<1> USE DEF environmentVars, peopleVars, runVars, GoTo
<1>1. ASSUME NEW r \in Raws, IngestRecord(r) PROVE TypeInv'
    BY <1>1 DEF TypeInv, TypeOK, IdleIsClear, Position, Chosen, IngestRecord, Statuses
<1>2. ASSUME NEW w \in Resolvers, ListPending(w) PROVE TypeInv'
    <2>1. PICK q \in PendingLists : rawRecords' = [rawRecords EXCEPT ![w] = q]
        BY <1>2 DEF ListPending
    <2>2. q \in Seq(Raws)
        BY <2>1, PendingListsType
    <2>3. QED
        BY <1>2, <2>1, <2>2
           DEF TypeInv, TypeOK, IdleIsClear, Position, Chosen, Working, ListPending, PCs
<1>3. ASSUME NEW w \in Resolvers, SetAside(w) PROVE TypeInv'
    <2>1. Current(w) \in Raws /\ pos[w] <= Len(rawRecords[w])
        BY <1>3, CurrentType DEF TypeInv, SetAside, AtRecord
    <2>2. QED
        BY <1>3, <2>1
           DEF TypeInv, TypeOK, IdleIsClear, Position, Chosen, Working, SetAside, AtRecord
<1>4. ASSUME NEW w \in Resolvers, FindPerson(w) PROVE TypeInv'
    BY <1>4 DEF TypeInv, TypeOK, IdleIsClear, Position, Chosen, Working, FindPerson,
                AtRecord, Matching, PCs
<1>5. ASSUME NEW w \in Resolvers, FindNobody(w) PROVE TypeInv'
    BY <1>5 DEF TypeInv, TypeOK, IdleIsClear, Position, Chosen, Working, FindNobody,
                AtRecord, PCs
<1>6. ASSUME NEW w \in Resolvers, CreatePerson(w) PROVE TypeInv'
    <2>1. Ids(Current(w)) \in Identifiers
        BY <1>6, CurrentType, PayloadFacts DEF TypeInv, CreatePerson, Working
    <2>2. QED
        BY <1>6, <2>1
           DEF TypeInv, TypeOK, IdleIsClear, Position, Chosen, Working, CreatePerson, PCs
<1>7. ASSUME NEW w \in Resolvers, UpdatePersonIdentifiers(w) PROVE TypeInv'
    <2>1. Ids(Current(w)) \in Identifiers
        BY <1>7, CurrentType, PayloadFacts DEF TypeInv, UpdatePersonIdentifiers, Working
    <2>2. identifiers' \in [Persons -> Identifiers]
        BY <1>7, <2>1 DEF TypeInv, TypeOK, UpdatePersonIdentifiers, Overwrite, Identifiers
    <2>3. QED
        BY <1>7, <2>2
           DEF TypeInv, TypeOK, IdleIsClear, Position, Chosen, Working,
               UpdatePersonIdentifiers, PCs
<1>8. ASSUME NEW w \in Resolvers, UpsertLink(w) PROVE TypeInv'
    <2>1. Key(Current(w)) \in Keys
        BY <1>8, CurrentType, PayloadFacts DEF TypeInv, UpsertLink, Working
    <2>2. QED
        BY <1>8, <2>1
           DEF TypeInv, TypeOK, IdleIsClear, Position, Chosen, Working, UpsertLink, PCs
<1>9. ASSUME NEW w \in Resolvers, LinkConflict(w) \/ Return(w) \/ Fail(w) PROVE TypeInv'
    <2>1. failures' \in 0..MaxFailures
        BY <1>9, BoundAssumption DEF TypeInv, TypeOK, LinkConflict, Return, Fail
    <2>2. QED
        BY <1>9, <2>1, ClearRunType DEF LinkConflict, Return, Fail
<1>10. ASSUME NEW w \in Resolvers, MarkResolved(w) PROVE TypeInv'
    <2>1. Current(w) \in Raws /\ pos[w] <= Len(rawRecords[w]) /\ person[w] \in Persons
        BY <1>10, CurrentType DEF TypeInv, TypeOK, Chosen, MarkResolved, Working, Position
    <2>2. QED
        BY <1>10, <2>1
           DEF TypeInv, TypeOK, IdleIsClear, Position, Chosen, Working, MarkResolved, PCs,
               Statuses
<1>11. ASSUME NEW w \in Resolvers, FlushReview(w) PROVE TypeInv'
    BY <1>11 DEF TypeInv, TypeOK, IdleIsClear, Position, Chosen, Working, FlushReview,
                 PastLoop, Statuses
<1>12. ASSUME NEW w \in Resolvers, Finish(w) PROVE TypeInv'
    BY <1>12 DEF TypeInv, TypeOK, IdleIsClear, Position, Chosen, Working, Finish,
                 PastLoop, PCs
<1>13. ASSUME NEW r \in Raws, NEW decision \in {"accept", "reject"}, Decide(r, decision)
       PROVE  TypeInv'
    BY <1>13 DEF TypeInv, TypeOK, IdleIsClear, Position, Chosen, Decide, Statuses
<1>14. CASE UNCHANGED vars
    BY <1>14 DEF TypeInv, TypeOK, IdleIsClear, Position, Chosen, vars
<1>15. QED
    BY <1>1, <1>2, <1>3, <1>4, <1>5, <1>6, <1>7, <1>8, <1>9, <1>10, <1>11, <1>12, <1>13,
       <1>14 DEF Next, RunStep

\* The types hold in every reachable state.
LEMMA TypeInvariant == Spec => []TypeInv
BY InitTypeInv, NextTypeInv, PTL DEF Spec

\* Every collection and every local of a run keeps its type, for any number of
\* overlapping runs, records, people and failures.
THEOREM TypeCorrect == Spec => []TypeOK
<1>1. TypeInv => TypeOK
    BY DEF TypeInv
<1>2. QED BY <1>1, TypeInvariant, PTL

-----------------------------------------------------------------------------
(***************************************************************************)
(* Links and attribution.  OwnerLinked is inductive only together with     *)
(* what a run has written before it marks a record (at "mark" the link of  *)
(* that record's key to the chosen person is there), and SameKeySameOwner  *)
(* follows from it as no key is linked to two people.                      *)
(***************************************************************************)
LinkUnique == \A l, m \in links : l.key = m.key => l = m

LinkWritten ==
    \A w \in Resolvers : pc[w] = "mark" =>
        [key |-> Key(Current(w)), person |-> person[w]] \in links

LinkInv == LinkUnique /\ OwnerLinked /\ LinkWritten

\* Initially there are no links to contradict.
LEMMA InitLinkInv == Init => LinkInv
BY DEF Init, LinkInv, LinkUnique, OwnerLinked, LinkWritten

\* A step that writes neither a link nor an owner nor a list or position of a
\* run at "mark", and removes nobody, keeps the link invariant.
LEMMA LinksUntouched ==
    ASSUME LinkInv, UNCHANGED <<payload, links, owner>>, people \subseteq people',
           \A w \in Resolvers : pc'[w] = "mark" =>
               pc[w] = "mark" /\ Current(w)' = Current(w) /\ person'[w] = person[w]
    PROVE  LinkInv'
<1>1. \A r : Key(r)' = Key(r)
    BY DEF Key
<1>2. LinkUnique' /\ OwnerLinked'
    BY <1>1 DEF LinkInv, LinkUnique, OwnerLinked
<1>3. ASSUME NEW w \in Resolvers, pc'[w] = "mark"
      PROVE  [key |-> Key(Current(w))', person |-> person'[w]] \in links'
    <2>1. Current(w)' = Current(w) /\ person'[w] = person[w]
        BY <1>3
    <2>2. Key(Current(w))' = Key(Current(w))
        BY <2>1 DEF Key
    <2>3. QED BY <1>3, <2>1, <2>2 DEF LinkInv, LinkWritten
<1>4. QED BY <1>2, <1>3 DEF LinkInv, LinkWritten

\* Every step keeps links unique and owners linked.
LEMMA NextLinkInv == TypeInv /\ LinkInv /\ [Next]_vars => LinkInv'
<1> SUFFICES ASSUME TypeInv, LinkInv, [Next]_vars PROVE LinkInv'
    OBVIOUS
<1> USE DEF environmentVars, peopleVars, runVars, GoTo
<1>1. ASSUME NEW r \in Raws, IngestRecord(r) PROVE LinkInv'
    BY <1>1, LinksUntouched DEF IngestRecord, Current
<1>2. ASSUME NEW w \in Resolvers, ListPending(w) PROVE LinkInv'
    BY <1>2, LinksUntouched DEF ListPending, Current, TypeInv, TypeOK
<1>3. ASSUME NEW w \in Resolvers, SetAside(w) PROVE LinkInv'
    BY <1>3, LinksUntouched DEF SetAside, AtRecord, Current, TypeInv, TypeOK
<1>4. ASSUME NEW w \in Resolvers, FindPerson(w) \/ FindNobody(w) PROVE LinkInv'
    BY <1>4, LinksUntouched DEF FindPerson, FindNobody, Current, TypeInv, TypeOK
<1>5. ASSUME NEW w \in Resolvers, CreatePerson(w) \/ UpdatePersonIdentifiers(w)
      PROVE  LinkInv'
    BY <1>5, LinksUntouched
       DEF CreatePerson, UpdatePersonIdentifiers, Current, TypeInv, TypeOK
<1>6. ASSUME NEW w \in Resolvers, UpsertLink(w) PROVE LinkInv'
    <2> DEFINE new == [key |-> Key(Current(w)), person |-> person[w]]
    <2>1. \A r : Key(r)' = Key(r)
        BY <1>6 DEF UpsertLink, Key
    <2>2. links' = links \cup {new} /\ UNCHANGED <<owner, people, person, rawRecords, pos>>
        BY <1>6 DEF UpsertLink
    <2>3. LinkUnique'
        <3>1. \A l \in links : l.key = new.key => l.person = new.person
            BY <1>6 DEF UpsertLink, KeyTaken
        <3>2. \A l \in links : l = [key |-> l.key, person |-> l.person]
            BY DEF TypeInv, TypeOK
        <3>3. \A l \in links : l.key = new.key => l = new
            BY <3>1, <3>2
        <3>4. QED BY <2>2, <3>3 DEF LinkInv, LinkUnique
    <2>4. OwnerLinked'
        BY <2>1, <2>2 DEF LinkInv, OwnerLinked
    <2>5. ASSUME NEW v \in Resolvers, pc'[v] = "mark"
          PROVE  [key |-> Key(Current(v))', person |-> person'[v]] \in links'
        <3>1. Current(v)' = Current(v) /\ Key(Current(v))' = Key(Current(v))
            BY <2>2, <1>6 DEF Current, UpsertLink, Key
        <3>2. CASE v = w
            BY <2>2, <3>1, <3>2
        <3>3. CASE v # w
            BY <1>6, <2>2, <2>5, <3>1, <3>3
               DEF UpsertLink, LinkInv, LinkWritten, TypeInv, TypeOK
        <3>4. QED BY <3>2, <3>3
    <2>6. QED BY <2>3, <2>4, <2>5 DEF LinkInv, LinkWritten
<1>7. ASSUME NEW w \in Resolvers, LinkConflict(w) \/ Return(w) \/ Fail(w) PROVE LinkInv'
    BY <1>7, LinksUntouched
       DEF LinkConflict, Return, Fail, ClearRun, Current, TypeInv, TypeOK
<1>8. ASSUME NEW w \in Resolvers, MarkResolved(w) PROVE LinkInv'
    <2>1. \A r : Key(r)' = Key(r)
        BY <1>8 DEF MarkResolved, Key
    <2>2. /\ [key |-> Key(Current(w)), person |-> person[w]] \in links
          /\ person[w] \in people
          /\ Current(w) \in Raws
        BY <1>8, CurrentType DEF MarkResolved, LinkInv, LinkWritten, TypeInv, Chosen, Working
    <2>3. UNCHANGED <<links, people>>
        BY <1>8 DEF MarkResolved
    <2>4. \A r \in Raws : owner'[r] = IF r = Current(w) THEN person[w] ELSE owner[r]
        BY <1>8 DEF MarkResolved, TypeInv, TypeOK
    <2>5. OwnerLinked'
        BY <2>1, <2>2, <2>3, <2>4 DEF LinkInv, OwnerLinked
    <2>6. LinkUnique'
        BY <2>3 DEF LinkInv, LinkUnique
    <2>7. LinkWritten'
        <3> SUFFICES ASSUME NEW v \in Resolvers, pc'[v] = "mark"
                     PROVE  [key |-> Key(Current(v))', person |-> person'[v]] \in links'
            BY DEF LinkWritten
        <3>1. v # w /\ pc[v] = "mark"
            BY <1>8 DEF MarkResolved, TypeInv, TypeOK
        <3>2. Current(v)' = Current(v) /\ person'[v] = person[v]
            BY <1>8, <3>1 DEF MarkResolved, Current, TypeInv, TypeOK
        <3>3. Key(Current(v))' = Key(Current(v))
            BY <1>8, <3>2 DEF MarkResolved, Key
        <3>4. QED BY <2>3, <3>1, <3>2, <3>3 DEF LinkInv, LinkWritten
    <2>8. QED BY <2>5, <2>6, <2>7 DEF LinkInv
<1>9. ASSUME NEW w \in Resolvers, FlushReview(w) \/ Finish(w) PROVE LinkInv'
    BY <1>9, LinksUntouched DEF FlushReview, Finish, Current, TypeInv, TypeOK
<1>10. ASSUME \E r \in Raws, decision \in {"accept", "reject"} : Decide(r, decision)
       PROVE  LinkInv'
    BY <1>10, LinksUntouched DEF Decide, Current
<1>11. CASE UNCHANGED vars
    BY <1>11, LinksUntouched DEF vars, Current
<1>12. QED
    BY <1>1, <1>2, <1>3, <1>4, <1>5, <1>6, <1>7, <1>8, <1>9, <1>10, <1>11
       DEF Next, RunStep

\* Types and links hold in every reachable state.
LEMMA LinkInvariant == Spec => [](TypeInv /\ LinkInv)
<1>1. Init => LinkInv
    BY InitLinkInv
<1>2. TypeInv /\ LinkInv /\ [Next]_vars => LinkInv'
    BY NextLinkInv
<1>3. QED BY <1>1, <1>2, TypeInvariant, PTL DEF Spec

\* The person a record names exists and is linked under the record's own key.
THEOREM OwnersAreLinked == Spec => []OwnerLinked
<1>1. LinkInv => OwnerLinked
    BY DEF LinkInv
<1>2. QED BY <1>1, LinkInvariant, PTL

\* Records of the same source and external id name the same person.
THEOREM OneOwnerPerKey == Spec => []SameKeySameOwner
<1>1. LinkInv => SameKeySameOwner
    <2> SUFFICES ASSUME LinkInv, NEW r \in Raws, NEW s \in Raws,
                        owner[r] # None, owner[s] # None, Key(r) = Key(s)
                 PROVE  owner[r] = owner[s]
        BY DEF SameKeySameOwner
    <2> DEFINE l == [key |-> Key(r), person |-> owner[r]]
               m == [key |-> Key(s), person |-> owner[s]]
    <2>1. l \in links /\ m \in links /\ l.key = m.key
        BY DEF LinkInv, OwnerLinked
    <2>2. l = m
        BY <2>1 DEF LinkInv, LinkUnique
    <2>3. l.person = m.person
        BY <2>2
    <2>4. QED BY <2>3
<1>2. QED BY <1>1, LinkInvariant, PTL

\* What no step may do to an attributed record, or to the status of any.
Stable ==
    \A r \in Raws :
        /\ owner[r] # None => owner'[r] = owner[r]
        /\ status[r] # "absent" /\ status'[r] = "pending" => status[r] = "pending"

\* No step takes a record from its person or back to the queue.
LEMMA NextStable ==
    ASSUME TypeInv, LinkInv, [Next]_vars
    PROVE  Stable
<1> USE DEF Stable
<1> USE DEF environmentVars, peopleVars, runVars
<1>1. ASSUME NEW r \in Raws, IngestRecord(r) PROVE Stable
    BY <1>1 DEF IngestRecord, TypeInv, TypeOK
<1>2. ASSUME NEW w \in Resolvers, RunStep(w) \/ Fail(w), ~MarkResolved(w), ~FlushReview(w)
      PROVE  Stable
    BY <1>2 DEF RunStep, ListPending, SetAside, FindPerson, FindNobody, CreatePerson,
                UpdatePersonIdentifiers, UpsertLink, LinkConflict, Finish, Return, Fail
<1>3. ASSUME NEW w \in Resolvers, MarkResolved(w) PROVE Stable
    <2>1. /\ Current(w) \in Raws
          /\ [key |-> Key(Current(w)), person |-> person[w]] \in links
        BY <1>3, CurrentType DEF MarkResolved, LinkInv, LinkWritten, TypeInv, Working
    <2>2. owner[Current(w)] # None => owner[Current(w)] = person[w]
        <3> SUFFICES ASSUME owner[Current(w)] # None
                     PROVE  owner[Current(w)] = person[w]
            OBVIOUS
        <3> DEFINE l == [key |-> Key(Current(w)), person |-> person[w]]
                   m == [key |-> Key(Current(w)), person |-> owner[Current(w)]]
        <3>1. l \in links /\ m \in links /\ l.key = m.key
            BY <2>1 DEF LinkInv, OwnerLinked
        <3>2. l.person = m.person
            BY <3>1 DEF LinkInv, LinkUnique
        <3>3. QED BY <3>2
    <2>3. QED BY <1>3, <2>1, <2>2 DEF MarkResolved, TypeInv, TypeOK
<1>4. ASSUME NEW w \in Resolvers, FlushReview(w) PROVE Stable
    BY <1>4 DEF FlushReview, TypeInv, TypeOK
<1>5. ASSUME NEW r \in Raws, NEW decision \in {"accept", "reject"}, Decide(r, decision)
      PROVE  Stable
    BY <1>5 DEF Decide, TypeInv, TypeOK
<1>6. CASE UNCHANGED vars
    BY <1>6 DEF vars
<1>7. QED BY <1>1, <1>2, <1>3, <1>4, <1>5, <1>6 DEF Next

\* An attributed record keeps its person, and no record becomes pending again,
\* whatever runs and reviewers do.
THEOREM AttributionIsStable == Spec => AttributionStable
<1>1. TypeInv /\ LinkInv /\ [Next]_vars => [\A r \in Raws :
          /\ owner[r] # None => owner'[r] = owner[r]
          /\ status[r] # "absent" /\ status'[r] = "pending" => status[r] = "pending"]_vars
    BY NextStable DEF Stable
<1>2. QED BY <1>1, LinkInvariant, PTL DEF Spec, AttributionStable

-----------------------------------------------------------------------------
(***************************************************************************)
(* Refinement.  UpsertLink either binds an unbound key or writes a link    *)
(* that is there; MarkResolved attributes a record or repeats itself.      *)
(***************************************************************************)
\* The people that key is bound to.
Binding(key) == {l.person : l \in {m \in links : m.key = key}}

\* The initial states are initial states of the promise.
LEMMA InitPromise == Init => Promise!Init
<1> SUFFICES ASSUME Init PROVE Promise!Init
    OBVIOUS
<1>1. [r \in Raws |-> Key(r)] \in [Raws -> Keys]
    BY InitTypeInv, PayloadFacts DEF TypeInv
<1>2. \A key \in Keys : Binding(key) = {}
    BY DEF Init, Binding
<1>3. QED BY <1>1, <1>2 DEF Init, Promise!Init, Binding

\* A step that writes no link and no owner is a stutter of the promise.
LEMMA PromiseStutter ==
    ASSUME UNCHANGED <<payload, links, owner>>
    PROVE  UNCHANGED Promise!vars
BY DEF Promise!vars, Key

\* Linking is a step of the promise, or none.
LEMMA UpsertLinkBinds ==
    ASSUME TypeInv, LinkInv, NEW w \in Resolvers, UpsertLink(w)
    PROVE  [Promise!Next]_(Promise!vars)
<1>1. PICK k \in Keys, p \in Persons : k = Key(Current(w)) /\ p = person[w]
    BY CurrentType, PayloadFacts DEF TypeInv, TypeOK, Chosen, UpsertLink, Working
<1>2. /\ links' = links \cup {[key |-> k, person |-> p]}
      /\ UNCHANGED <<payload, owner>>
      /\ \A l \in links : l.key = k => l.person = p
    BY <1>1 DEF UpsertLink, KeyTaken, environmentVars
<1>3. \A l \in links : l = [key |-> l.key, person |-> l.person]
    BY DEF TypeInv, TypeOK
<1>4. CASE [key |-> k, person |-> p] \in links
    <2>1. UNCHANGED <<payload, links, owner>>
        BY <1>2, <1>4
    <2>2. QED BY <2>1, PromiseStutter
<1>5. CASE [key |-> k, person |-> p] \notin links
    <2>1. \A l \in links : l.key # k
        BY <1>2, <1>3, <1>5
    <2>2. Binding(k) = {}
        BY <2>1 DEF Binding
    <2>3. Binding(k)' = {p}
        <3>1. {m \in links' : m.key = k} = {[key |-> k, person |-> p]}
            BY <1>2, <2>1
        <3>2. Binding(k)' = {l.person : l \in {[key |-> k, person |-> p]}}
            BY <3>1 DEF Binding
        <3>3. [key |-> k, person |-> p].person = p
            OBVIOUS
        <3>4. QED BY <3>2, <3>3, Zenon
    <2>4. ASSUME NEW key \in Keys, key # k
          PROVE  Binding(key)' = Binding(key)
        <3>1. {m \in links' : m.key = key} = {m \in links : m.key = key}
            BY <1>2, <2>4
        <3>2. QED BY <3>1 DEF Binding
    <2>5. [key \in Keys |-> Binding(key)]'
              = [[key \in Keys |-> Binding(key)] EXCEPT ![k] = {p}]
        BY <2>3, <2>4, Zenon DEF Keys
    <2>6. [r \in Raws |-> Key(r)]' = [r \in Raws |-> Key(r)]
        BY <1>2 DEF Key
    <2>7. Promise!Bind(k, p)
        BY <1>2, <2>2, <2>5, <2>6 DEF Promise!Bind, Binding
    <2>8. Promise!Next
        BY <2>7 DEF Promise!Next
    <2>9. QED BY <2>8
<1>6. QED BY <1>4, <1>5

\* Marking a record resolved is a step of the promise, or none.
LEMMA MarkResolvedAttributes ==
    ASSUME TypeInv, LinkInv, NEW w \in Resolvers, MarkResolved(w)
    PROVE  [Promise!Next]_(Promise!vars)
<1> DEFINE r == Current(w)
           l == [key |-> Key(r), person |-> person[w]]
<1>1. r \in Raws /\ Key(r) \in Keys
    BY CurrentType, PayloadFacts DEF TypeInv, MarkResolved, Working
<1>2. l \in links /\ person[w] \in Persons
    BY DEF MarkResolved, LinkInv, LinkWritten, TypeInv, TypeOK, Chosen
<1>3. UNCHANGED <<payload, links>> /\ owner' = [owner EXCEPT ![r] = person[w]]
    BY DEF MarkResolved, environmentVars
<1>4. CASE owner[r] = None
    <2>1. person[w] \in Binding(Key(r))
        BY <1>2 DEF Binding
    <2>2. UNCHANGED <<[s \in Raws |-> Key(s)], [key \in Keys |-> Binding(key)]>>
        BY <1>3 DEF Key, Binding
    <2>3. Promise!Attribute(r, person[w])
        BY <1>1, <1>3, <1>4, <2>1, <2>2 DEF Promise!Attribute, Binding
    <2>4. QED BY <1>1, <1>2, <2>3 DEF Promise!Next
<1>5. CASE owner[r] # None
    <2> DEFINE m == [key |-> Key(r), person |-> owner[r]]
    <2>1. m \in links /\ m.key = l.key
        BY <1>1, <1>5 DEF LinkInv, OwnerLinked
    <2>2. m.person = l.person
        BY <1>2, <2>1 DEF LinkInv, LinkUnique
    <2>3. owner' = owner
        BY <1>1, <1>3, <2>2 DEF TypeInv, TypeOK
    <2>4. QED BY <1>3, <2>3, PromiseStutter
<1>6. QED BY <1>4, <1>5

\* Every step is a step of the promise, or none.
LEMMA NextPromise ==
    TypeInv /\ LinkInv /\ [Next]_vars => [Promise!Next]_(Promise!vars)
<1> SUFFICES ASSUME TypeInv, LinkInv, [Next]_vars
             PROVE  [Promise!Next]_(Promise!vars)
    OBVIOUS
<1> USE DEF environmentVars, peopleVars, runVars
<1>1. ASSUME NEW w \in Resolvers, UpsertLink(w) PROVE [Promise!Next]_(Promise!vars)
    BY <1>1, UpsertLinkBinds
<1>2. ASSUME NEW w \in Resolvers, MarkResolved(w) PROVE [Promise!Next]_(Promise!vars)
    BY <1>2, MarkResolvedAttributes
<1>3. ASSUME NEW w \in Resolvers, RunStep(w) \/ Fail(w), ~UpsertLink(w), ~MarkResolved(w)
      PROVE  UNCHANGED <<payload, links, owner>>
    BY <1>3 DEF RunStep, ListPending, SetAside, FindPerson, FindNobody, CreatePerson,
                UpdatePersonIdentifiers, LinkConflict, FlushReview, Finish, Return, Fail
<1>4. ASSUME NEW r \in Raws,
             IngestRecord(r) \/ \E decision \in {"accept", "reject"} : Decide(r, decision)
      PROVE  UNCHANGED <<payload, links, owner>>
    BY <1>4 DEF IngestRecord, Decide
<1>5. CASE UNCHANGED vars
    <2>1. UNCHANGED <<payload, links, owner>>
        BY <1>5 DEF vars
    <2>2. QED BY <2>1, PromiseStutter
<1>6. QED
    BY <1>1, <1>2, <1>3, <1>4, <1>5, PromiseStutter DEF Next

\* Every behaviour of the resolve runs, however they overlap or fail, is one of
\* Attribution: keys are bound once, records attributed once, to the person of
\* their key.
THEOREM RunsImplementAttribution == Spec => ImplementsAttribution
<1>1. Spec => Promise!Init
    BY InitPromise, PTL DEF Spec
<1>2. Spec => [][Promise!Next]_(Promise!vars)
    BY NextPromise, LinkInvariant, PTL DEF Spec
<1>3. QED BY <1>1, <1>2, PTL DEF ImplementsAttribution, Promise!Spec

-----------------------------------------------------------------------------
(***************************************************************************)
(* The result of a run.                                                    *)
(***************************************************************************)

\* Behind its position a run has left no pending record, save those it has set
\* aside, and none with identifiers and no person; and its counts add up to the
\* records behind it.
Progress(w) ==
    /\ pc[w] # "idle" =>
          \A i \in 1..Len(rawRecords[w]) :
              /\ status[rawRecords[w][i]] # "absent"
              /\ i < pos[w] =>
                    /\ \/ status[rawRecords[w][i]] # "pending"
                       \/ rawRecords[w][i] \in reviewIDs[w]
                    /\ HasIdentifiers(rawRecords[w][i]) => owner[rawRecords[w][i]] # None
    /\ resolved[w] + needsReview[w]
          = IF pc[w] \in {"link", "mark"} THEN pos[w] ELSE pos[w] - 1
    /\ pc[w] = "done" => reviewIDs[w] = {} /\ pos[w] = Len(rawRecords[w]) + 1

ProgressInv == \A w \in Resolvers : Progress(w)

\* A step of one run leaves the locals of the others alone.
LEMMA OtherRuns ==
    ASSUME TypeOK, NEW w \in Resolvers, RunStep(w) \/ Fail(w),
           NEW v \in Resolvers, v # w
    PROVE  /\ pc'[v] = pc[v] /\ rawRecords'[v] = rawRecords[v] /\ pos'[v] = pos[v]
           /\ person'[v] = person[v] /\ reviewIDs'[v] = reviewIDs[v]
           /\ resolved'[v] = resolved[v] /\ needsReview'[v] = needsReview[v]
           /\ settled'[v] = settled[v]
BY DEF TypeOK, RunStep, ListPending, SetAside, FindPerson, FindNobody, CreatePerson,
       UpdatePersonIdentifiers, UpsertLink, LinkConflict, MarkResolved, FlushReview,
       Finish, Return, Fail, ClearRun, GoTo, runVars, peopleVars, environmentVars

\* No step takes a record back to "absent" or "pending".
LEMMA StatusMoves ==
    ASSUME TypeOK, [Next]_vars, NEW r \in Raws
    PROVE  /\ status[r] # "absent" => status'[r] # "absent"
           /\ status[r] \notin {"absent", "pending"} => status'[r] # "pending"
<1> USE DEF TypeOK, runVars, peopleVars, environmentVars
<1>1. ASSUME NEW w \in Resolvers, RunStep(w) \/ Fail(w)
      PROVE  \/ status' = status
             \/ \E s \in Raws, x \in {"resolved", "needs_review"} :
                    status' = [status EXCEPT ![s] = x]
             \/ \E x \in {"resolved", "needs_review"} : status' = [status EXCEPT ![Current(w)] = x]
    BY <1>1 DEF RunStep, ListPending, SetAside, FindPerson, FindNobody, CreatePerson,
                UpdatePersonIdentifiers, UpsertLink, LinkConflict, MarkResolved,
                FlushReview, Finish, Return, Fail
<1>2. ASSUME NEW w \in Resolvers, RunStep(w) \/ Fail(w)
      PROVE  \/ status'[r] = status[r]
             \/ status'[r] \in {"resolved", "needs_review"}
    BY <1>1, <1>2
<1>3. ASSUME NEW s \in Raws, IngestRecord(s)
      PROVE  \/ status'[r] = status[r]
             \/ status[r] = "absent" /\ status'[r] = "pending"
    BY <1>3 DEF IngestRecord
<1>4. ASSUME NEW s \in Raws, NEW decision \in {"accept", "reject"}, Decide(s, decision)
      PROVE  \/ status'[r] = status[r]
             \/ status'[r] \in {"resolved", "rejected"}
    BY <1>4 DEF Decide
<1>5. CASE UNCHANGED vars
    BY <1>5 DEF vars
<1>6. QED BY <1>2, <1>3, <1>4, <1>5 DEF Next

\* No step changes a payload or takes a record's person away.
LEMMA OwnersStay ==
    ASSUME TypeInv, [Next]_vars
    PROVE  /\ payload' = payload
           /\ \A r \in Raws : owner[r] # None => owner'[r] # None
<1> USE DEF runVars, peopleVars, environmentVars
<1>1. ASSUME NEW w \in Resolvers, MarkResolved(w)
      PROVE  payload' = payload /\ \A r \in Raws : owner[r] # None => owner'[r] # None
    <2>1. person[w] \in Persons /\ Current(w) \in Raws
        BY <1>1, CurrentType DEF MarkResolved, TypeInv, TypeOK, Chosen, Working
    <2>2. QED BY <1>1, <2>1, NoneAssumption DEF MarkResolved, TypeInv, TypeOK
<1>2. ASSUME NEW w \in Resolvers, RunStep(w) \/ Fail(w), ~MarkResolved(w)
      PROVE  payload' = payload /\ owner' = owner
    BY <1>2 DEF RunStep, ListPending, SetAside, FindPerson, FindNobody, CreatePerson,
                UpdatePersonIdentifiers, UpsertLink, LinkConflict, FlushReview, Finish,
                Return, Fail
<1>3. QED BY <1>1, <1>2 DEF Next, IngestRecord, Decide, vars

\* A run whose locals stay put keeps its progress, whatever happens to statuses.
LEMMA ProgressKept ==
    ASSUME TypeInv, [Next]_vars, NEW v \in Resolvers, Progress(v),
           pc'[v] = pc[v], rawRecords'[v] = rawRecords[v], pos'[v] = pos[v],
           reviewIDs'[v] = reviewIDs[v], resolved'[v] = resolved[v],
           needsReview'[v] = needsReview[v]
    PROVE  Progress(v)'
<1>1. \A i \in 1..Len(rawRecords[v]) : rawRecords[v][i] \in Raws
    BY DEF TypeInv, TypeOK
<1>2. \A r \in Raws :
          /\ status[r] # "absent" => status'[r] # "absent"
          /\ status[r] \notin {"absent", "pending"} => status'[r] # "pending"
    BY StatusMoves DEF TypeInv
<1>3. /\ \A r \in Raws : owner[r] # None => owner'[r] # None
      /\ \A r : HasIdentifiers(r)' = HasIdentifiers(r)
    BY OwnersStay DEF HasIdentifiers, Ids
<1>4. QED BY <1>1, <1>2, <1>3 DEF Progress

\* Every step keeps what a run has passed accounted for.
LEMMA NextProgressInv == TypeInv /\ ProgressInv /\ [Next]_vars => ProgressInv'
<1> SUFFICES ASSUME TypeInv, ProgressInv, [Next]_vars PROVE ProgressInv'
    OBVIOUS
<1>1. TypeOK /\ Position
    BY DEF TypeInv
<1>2. ASSUME NEW w \in Resolvers, RunStep(w) \/ Fail(w) PROVE ProgressInv'
    <2>1. \A v \in Resolvers : v # w => Progress(v)'
        BY <1>1, <1>2, OtherRuns, ProgressKept DEF ProgressInv
    <2>2. SUFFICES Progress(w)'
        BY <2>1 DEF ProgressInv
    <2>3. Progress(w)
        BY DEF ProgressInv
    <2>4. \A r \in Raws :
              /\ status[r] # "absent" => status'[r] # "absent"
              /\ status[r] \notin {"absent", "pending"} => status'[r] # "pending"
        BY <1>1, StatusMoves
    <2>5. rawRecords[w] \in Seq(Raws) /\ \A i \in 1..Len(rawRecords[w]) : rawRecords[w][i] \in Raws
        BY <1>1 DEF TypeOK
    <2> USE DEF environmentVars, peopleVars, runVars, GoTo, PCs
    <2>6. /\ \A r \in Raws : owner[r] # None => owner'[r] # None
          /\ \A r : HasIdentifiers(r)' = HasIdentifiers(r)
        BY OwnersStay DEF HasIdentifiers, Ids
    <2>7. CASE ListPending(w)
        <3>1. PICK q \in PendingLists : rawRecords' = [rawRecords EXCEPT ![w] = q]
            BY <2>7 DEF ListPending
        <3>2. q \in Seq(Raws) /\ \A i \in 1..Len(q) : status[q[i]] = "pending"
            BY <3>1, PendingListsType DEF Pending
        <3>3. /\ pc'[w] = "loop" /\ rawRecords'[w] = q
              /\ UNCHANGED <<status, pos, reviewIDs, resolved, needsReview>>
              /\ pos[w] = 1 /\ resolved[w] = 0 /\ needsReview[w] = 0
            BY <2>7, <3>1 DEF ListPending, TypeInv, TypeOK, IdleIsClear
        <3>4. \A i \in 1..Len(q) : ~(i < 1)
            BY <3>2
        <3>5. QED BY <3>2, <3>3, <3>4 DEF Progress
    <2>8. CASE SetAside(w)
        <3>1. /\ pos[w] \in Nat \ {0} /\ pos[w] <= Len(rawRecords[w])
              /\ pos'[w] = pos[w] + 1 /\ pc'[w] = "loop" /\ pc[w] = "loop"
              /\ rawRecords' = rawRecords
              /\ reviewIDs'[w] = reviewIDs[w] \cup {rawRecords[w][pos[w]]}
              /\ needsReview'[w] = needsReview[w] + 1 /\ resolved' = resolved
              /\ resolved[w] \in Nat /\ needsReview[w] \in Nat /\ status' = status
            BY <1>1, <2>8 DEF SetAside, AtRecord, Current, TypeOK
        <3>2. ASSUME NEW i \in 1..Len(rawRecords[w]), i < pos'[w]
              PROVE  /\ \/ status[rawRecords[w][i]] # "pending"
                        \/ rawRecords[w][i] \in reviewIDs'[w]
                     /\ HasIdentifiers(rawRecords[w][i]) => owner[rawRecords[w][i]] # None
            <4>1. CASE i = pos[w]
                BY <2>8, <3>1, <4>1 DEF SetAside, Current
            <4>2. CASE i # pos[w]
                <5>1. i < pos[w]
                    BY <3>1, <3>2, <4>2, <2>5
                <5>2. QED BY <2>3, <3>1, <5>1 DEF Progress
            <4>3. QED BY <4>1, <4>2
        <3>3. resolved'[w] + needsReview'[w] = pos'[w] - 1
            <4>1. resolved[w] + needsReview[w] = pos[w] - 1
                BY <2>3, <3>1 DEF Progress
            <4>2. resolved'[w] = resolved[w]
                BY <3>1
            <4>3. QED BY <3>1, <4>1, <4>2
        <3>4. owner' = owner
            BY <2>8 DEF SetAside
        <3>5. QED BY <2>3, <2>6, <3>1, <3>2, <3>3, <3>4 DEF Progress
    <2>9. CASE FindPerson(w) \/ FindNobody(w)
        BY <1>1, <2>3, <2>6, <2>9 DEF FindPerson, FindNobody, AtRecord, Progress, TypeOK
    <2>10. CASE CreatePerson(w) \/ UpdatePersonIdentifiers(w)
        <3>1. /\ pc[w] \in {"create", "update"} /\ pc'[w] = "link"
              /\ resolved'[w] = resolved[w] + 1
              /\ UNCHANGED <<rawRecords, pos, reviewIDs, needsReview, status, owner>>
              /\ resolved[w] \in Nat /\ needsReview[w] \in Nat /\ pos[w] \in Nat \ {0}
            BY <1>1, <2>10 DEF CreatePerson, UpdatePersonIdentifiers, TypeOK
        <3>2. \A i \in 1..Len(rawRecords[w]) :
                 /\ status[rawRecords[w][i]] # "absent"
                 /\ i < pos[w] =>
                       /\ \/ status[rawRecords[w][i]] # "pending"
                          \/ rawRecords[w][i] \in reviewIDs[w]
                       /\ HasIdentifiers(rawRecords[w][i])
                             => owner[rawRecords[w][i]] # None
            BY <2>3, <3>1 DEF Progress
        <3>3. resolved'[w] + needsReview'[w] = pos[w]
            <4>1. resolved[w] + needsReview[w] = pos[w] - 1
                BY <2>3, <3>1 DEF Progress
            <4>2. resolved'[w] = resolved[w] + 1 /\ needsReview'[w] = needsReview[w]
                BY <3>1
            <4>3. QED BY <3>1, <4>1, <4>2
        <3>4. QED BY <2>6, <3>1, <3>2, <3>3 DEF Progress
    <2>11. CASE UpsertLink(w)
        BY <1>1, <2>3, <2>6, <2>11 DEF UpsertLink, Progress, TypeOK
    <2>12. CASE LinkConflict(w) \/ Return(w) \/ Fail(w)
        BY <1>1, <2>12 DEF LinkConflict, Return, Fail, ClearRun, Progress, TypeOK
    <2>13. CASE MarkResolved(w)
        <3>1. /\ pos[w] \in 1..Len(rawRecords[w])
              /\ Current(w) = rawRecords[w][pos[w]] /\ Current(w) \in Raws
            BY <1>1, <2>13, CurrentType DEF MarkResolved, Working, Current
        <3>2. /\ pc[w] = "mark" /\ pc'[w] = "loop" /\ pos'[w] = pos[w] + 1
              /\ status'[rawRecords[w][pos[w]]] = "resolved"
              /\ owner'[rawRecords[w][pos[w]]] = person[w] /\ person[w] # None
              /\ UNCHANGED <<rawRecords, reviewIDs, resolved, needsReview>>
            BY <1>1, <2>13, <3>1, NoneAssumption
               DEF MarkResolved, TypeInv, TypeOK, Chosen
        <3>3. ASSUME NEW i \in 1..Len(rawRecords[w]), i < pos'[w]
              PROVE  /\ \/ status'[rawRecords[w][i]] # "pending"
                        \/ rawRecords[w][i] \in reviewIDs[w]
                     /\ HasIdentifiers(rawRecords[w][i]) => owner'[rawRecords[w][i]] # None
            <4>1. CASE i = pos[w]
                BY <3>2, <4>1
            <4>2. CASE i # pos[w]
                <5>1. i < pos[w] /\ rawRecords[w][i] \in Raws
                    BY <2>5, <3>1, <3>2, <3>3, <4>2
                <5>2. /\ status[rawRecords[w][i]] # "absent"
                      /\ \/ status[rawRecords[w][i]] # "pending"
                         \/ rawRecords[w][i] \in reviewIDs[w]
                      /\ HasIdentifiers(rawRecords[w][i])
                            => owner[rawRecords[w][i]] # None
                    BY <2>3, <3>2, <5>1 DEF Progress
                <5>3. QED BY <2>4, <2>6, <5>1, <5>2
            <4>3. QED BY <4>1, <4>2
        <3>4. resolved'[w] + needsReview'[w] = pos'[w] - 1
            BY <1>1, <2>3, <3>1, <3>2 DEF Progress, TypeOK
        <3>5. QED BY <2>3, <2>4, <2>5, <2>6, <3>2, <3>3, <3>4 DEF Progress
    <2>14. CASE FlushReview(w)
        <3>1. PICK r \in reviewIDs[w] :
                 /\ status' = [status EXCEPT ![r] = "needs_review"]
                 /\ reviewIDs' = [reviewIDs EXCEPT ![w] = @ \ {r}]
            BY <2>14 DEF FlushReview
        <3>2. /\ r \in Raws /\ status'[r] = "needs_review"
              /\ reviewIDs'[w] = reviewIDs[w] \ {r}
            BY <1>1, <3>1 DEF TypeOK
        <3>3. /\ pc[w] = "loop"
              /\ UNCHANGED <<pc, rawRecords, pos, resolved, needsReview, owner>>
            BY <2>14 DEF FlushReview, PastLoop
        <3>4. QED BY <2>3, <2>4, <2>5, <2>6, <3>2, <3>3 DEF Progress
    <2>15. CASE Finish(w)
        <3>1. /\ pc[w] = "loop" /\ pc'[w] = "done" /\ reviewIDs[w] = {}
              /\ UNCHANGED <<status, owner, rawRecords, pos, reviewIDs, resolved, needsReview>>
            BY <1>1, <2>15 DEF Finish, PastLoop, TypeOK
        <3>2. pos[w] = Len(rawRecords[w]) + 1
            BY <1>1, <2>15, <2>5 DEF Finish, PastLoop, Position, TypeOK
        <3>3. QED BY <2>3, <2>6, <3>1, <3>2 DEF Progress
    <2>16. QED
        BY <1>2, <2>7, <2>8, <2>9, <2>10, <2>11, <2>12, <2>13, <2>14, <2>15 DEF RunStep
<1>3. ASSUME ~\E w \in Resolvers : RunStep(w) \/ Fail(w) PROVE ProgressInv'
    <2>1. UNCHANGED runVars
        BY <1>3 DEF Next, IngestRecord, Decide, vars
    <2>2. ASSUME NEW v \in Resolvers PROVE Progress(v)'
        BY <1>1, <2>1, ProgressKept DEF ProgressInv, runVars
    <2>3. QED BY <2>2 DEF ProgressInv
<1>4. QED BY <1>2, <1>3

\* A run that returns without an error leaves none of its records pending, and
\* none with identifiers without a person, and its result accounts for each.
THEOREM SuccessfulRunsAreComplete == Spec => []SuccessfulRunIsComplete
<1>1. Init => ProgressInv
    BY DEF Init, ProgressInv, Progress
<1>2. TypeInv /\ ProgressInv /\ [Next]_vars => ProgressInv'
    BY NextProgressInv
<1>3. TypeInv /\ ProgressInv => SuccessfulRunIsComplete
    <2> SUFFICES ASSUME TypeInv, ProgressInv, NEW w \in Resolvers, pc[w] = "done"
                 PROVE  /\ \A i \in 1..Len(rawRecords[w]) :
                              /\ status[rawRecords[w][i]] # "pending"
                              /\ HasIdentifiers(rawRecords[w][i])
                                    => owner[rawRecords[w][i]] # None
                        /\ Skipped(w) = 0
        BY DEF SuccessfulRunIsComplete
    <2>1. /\ Len(rawRecords[w]) \in Nat /\ pos[w] \in Nat
          /\ resolved[w] \in Nat /\ needsReview[w] \in Nat
        BY DEF TypeInv, TypeOK
    <2>2. Progress(w)
        BY DEF ProgressInv
    <2>3. pos[w] = Len(rawRecords[w]) + 1 /\ reviewIDs[w] = {}
        BY <2>2 DEF Progress
    <2>4. \A i \in 1..Len(rawRecords[w]) : i < pos[w]
        BY <2>1, <2>3
    <2>5. Skipped(w) = 0
        BY <2>1, <2>2, <2>3 DEF Progress, Skipped
    <2>6. QED BY <2>2, <2>3, <2>4, <2>5 DEF Progress
<1>4. QED BY <1>1, <1>2, <1>3, TypeInvariant, PTL DEF Spec

-----------------------------------------------------------------------------
(***************************************************************************)
(* One run at a time.  The person FindNobody did not find is still not     *)
(* there when CreatePerson inserts.  If sharing is transitive, each person *)
(* has all identifiers of some payload, the last one it was found by, and  *)
(* no other than those of payloads that share one with it; so a record is  *)
(* found by one person at most, and nobody is recorded twice.              *)
(***************************************************************************)
OneRun == \A v, w \in Resolvers : v = w

\* What a run has found is still so when it acts on it.
LookupStands ==
    \A w \in Resolvers :
        /\ pc[w] = "create" => Matching(Ids(Current(w))) = {}
        /\ pc[w] = "update" => person[w] \in Matching(Ids(Current(w)))

\* Identifiers ids are all those of payload q, and come from payloads that share
\* one with it.
Represents(q, ids) ==
    /\ \A f \in Fields : q.ids[f] # None => ids[f] = q.ids[f]
    /\ \A f \in Fields : ids[f] # None =>
          \E s \in Payloads : Sharing(s, q) /\ s.ids[f] = ids[f]

PeopleRepresented == \A p \in people : \E q \in Payloads : Represents(q, identifiers[p])

\* One identifier per record is a special case of the conditions.
LEMMA OneIdentifierSuffices ==
    ASSUME \A q \in Payloads : \A f, g \in Fields :
               q.ids[f] # None /\ q.ids[g] # None => f = g
    PROVE  SharingIsTransitive /\ SharingAgrees
<1>1. SharingIsTransitive
    BY DEF SharingIsTransitive, Sharing
<1>2. SharingAgrees
    BY DEF SharingAgrees, Sharing
<1>3. QED BY <1>1, <1>2

\* Sharing is symmetric.
LEMMA SharingSymmetric ==
    ASSUME NEW q, NEW s, Sharing(q, s)
    PROVE  Sharing(s, q)
BY DEF Sharing

\* People with a common identifier are represented by payloads that share one.
LEMMA CommonIsShared ==
    ASSUME SharingIsTransitive,
           NEW q \in Payloads, NEW ids, Represents(q, ids),
           NEW t \in Payloads, NEW ods, Represents(t, ods),
           NEW f \in Fields, ids[f] # None, ids[f] = ods[f]
    PROVE  Sharing(q, t)
<1>1. PICK r \in Payloads : Sharing(r, q) /\ r.ids[f] = ids[f]
    BY DEF Represents
<1>2. PICK s \in Payloads : Sharing(s, t) /\ s.ids[f] = ids[f]
    BY DEF Represents
<1>3. Sharing(r, s)
    BY <1>1, <1>2 DEF Sharing
<1>4. Sharing(q, r)
    BY <1>1, SharingSymmetric
<1>5. Sharing(q, s)
    BY <1>3, <1>4 DEF SharingIsTransitive
<1>6. QED BY <1>2, <1>5 DEF SharingIsTransitive

\* And the other way round.
LEMMA SharedIsCommon ==
    ASSUME NEW q, NEW ids, Represents(q, ids), NEW t, NEW ods, Represents(t, ods),
           Sharing(q, t)
    PROVE  \E f \in Fields : ids[f] # None /\ ids[f] = ods[f]
BY DEF Represents, Sharing

\* A payload that matches a person shares an identifier with the payload that
\* represents it.
LEMMA MatchIsShared ==
    ASSUME SharingIsTransitive,
           NEW t \in Payloads, NEW ids, Represents(t, ids),
           NEW q \in Payloads, NEW f \in Fields, q.ids[f] # None, ids[f] = q.ids[f]
    PROVE  Sharing(t, q)
<1>1. PICK s \in Payloads : Sharing(s, t) /\ s.ids[f] = q.ids[f]
    BY DEF Represents
<1>2. Sharing(t, s) /\ Sharing(s, q)
    BY <1>1, SharingSymmetric DEF Sharing
<1>3. QED BY <1>2 DEF SharingIsTransitive

\* The person a run updates is represented by the payload of its record from
\* then on, and by one that shares an identifier with it before.
LEMMA UpdateRepresents ==
    ASSUME SharingIsTransitive, TypeInv, LookupStands, PeopleRepresented,
           NEW w \in Resolvers, UpdatePersonIdentifiers(w)
    PROVE  /\ person[w] \in people /\ person[w] \in Persons
           /\ payload[Current(w)] \in Payloads
           /\ \A q \in Persons : identifiers'[q] =
                  IF q = person[w] THEN Overwrite(identifiers[q], payload[Current(w)].ids)
                                   ELSE identifiers[q]
           /\ Represents(payload[Current(w)], identifiers'[person[w]])
           /\ \E t \in Payloads : /\ Represents(t, identifiers[person[w]])
                                  /\ Sharing(t, payload[Current(w)])
<1>1. /\ person[w] \in people /\ person[w] \in Persons
      /\ person[w] \in Matching(Ids(Current(w)))
      /\ Current(w) \in Raws
    BY CurrentType
       DEF UpdatePersonIdentifiers, LookupStands, TypeInv, TypeOK, Chosen, Working
<1>2. PICK q \in Payloads : q = payload[Current(w)] /\ q.ids = Ids(Current(w))
    BY <1>1 DEF TypeInv, TypeOK, Ids
<1>3. PICK ids : ids = identifiers[person[w]]
    OBVIOUS
<1>4. PICK f \in Fields : q.ids[f] # None /\ ids[f] = q.ids[f]
    BY <1>1, <1>2, <1>3 DEF Matching
<1>5. PICK t \in Payloads : Represents(t, ids)
    BY <1>1, <1>3 DEF PeopleRepresented
<1>6. Sharing(t, q)
    BY <1>4, <1>5, MatchIsShared
<1>7. Represents(q, Overwrite(ids, q.ids))
    <2>1. \A g \in Fields : q.ids[g] # None => Overwrite(ids, q.ids)[g] = q.ids[g]
        BY DEF Overwrite
    <2>2. ASSUME NEW g \in Fields, Overwrite(ids, q.ids)[g] # None
          PROVE  \E s \in Payloads : Sharing(s, q) /\ s.ids[g] = Overwrite(ids, q.ids)[g]
        <3>1. CASE q.ids[g] # None
            <4>1. Sharing(q, q)
                BY <3>1 DEF Sharing
            <4>2. QED BY <2>1, <3>1, <4>1
        <3>2. CASE q.ids[g] = None
            <4>1. Overwrite(ids, q.ids)[g] = ids[g] /\ ids[g] # None
                BY <2>2, <3>2 DEF Overwrite
            <4>2. PICK s \in Payloads : Sharing(s, t) /\ s.ids[g] = ids[g]
                BY <1>5, <4>1 DEF Represents
            <4>3. Sharing(s, q)
                BY <1>6, <4>2 DEF SharingIsTransitive
            <4>4. QED BY <4>1, <4>2, <4>3
        <3>3. QED BY <3>1, <3>2
    <2>3. QED BY <2>1, <2>2 DEF Represents
<1>8. identifiers' = [identifiers EXCEPT ![person[w]] = Overwrite(identifiers[person[w]], q.ids)]
    BY <1>2 DEF UpdatePersonIdentifiers
<1>9. \A p \in Persons : identifiers'[p] =
          IF p = person[w] THEN Overwrite(identifiers[p], q.ids) ELSE identifiers[p]
    BY <1>8 DEF TypeInv, TypeOK
<1>10. Represents(q, identifiers'[person[w]])
    BY <1>1, <1>3, <1>7, <1>9
<1>11. QED BY <1>1, <1>2, <1>3, <1>5, <1>6, <1>9, <1>10

\* If records that share an identifier agree, no identifier a person has is
\* overwritten.
LEMMA NothingOverwritten ==
    ASSUME SharingIsTransitive, SharingAgrees, TypeInv, LookupStands, PeopleRepresented,
           NEW w \in Resolvers, UpdatePersonIdentifiers(w)
    PROVE  \A p \in Persons, g \in Fields :
               identifiers[p][g] # None => identifiers'[p][g] = identifiers[p][g]
<1>1. PICK q \in Payloads : q = payload[Current(w)]
    BY UpdateRepresents
<1>2. PICK t \in Payloads : Represents(t, identifiers[person[w]]) /\ Sharing(t, q)
    BY <1>1, UpdateRepresents
<1>3. ASSUME NEW g \in Fields, identifiers[person[w]][g] # None, q.ids[g] # None
      PROVE  q.ids[g] = identifiers[person[w]][g]
    <2>1. PICK s \in Payloads : Sharing(s, t) /\ s.ids[g] = identifiers[person[w]][g]
        BY <1>2, <1>3 DEF Represents
    <2>2. Sharing(s, q)
        BY <1>2, <2>1 DEF SharingIsTransitive
    <2>3. QED BY <1>3, <2>1, <2>2 DEF SharingAgrees
<1>4. \A g \in Fields : identifiers[person[w]][g] # None =>
         Overwrite(identifiers[person[w]], q.ids)[g] = identifiers[person[w]][g]
    BY <1>3 DEF Overwrite
<1>5. \A p \in Persons : identifiers'[p] =
         IF p = person[w] THEN Overwrite(identifiers[p], q.ids) ELSE identifiers[p]
    BY <1>1, UpdateRepresents
<1>6. QED BY <1>4, <1>5

\* In a serial run, the outcome of a lookup stands until it is used.
LEMMA NextLookupStands ==
    ASSUME OneRun, SharingIsTransitive, TypeInv, LookupStands, NoDuplicatePerson,
           PeopleRepresented, [Next]_vars
    PROVE  LookupStands' /\ NoDuplicatePerson' /\ PeopleRepresented'
<1> USE DEF environmentVars, peopleVars, runVars, GoTo
<1>1. ASSUME UNCHANGED <<payload, people, identifiers>>,
             \A w \in Resolvers : pc'[w] \in {"create", "update"} =>
                 pc[w] = pc'[w] /\ Current(w)' = Current(w) /\ person'[w] = person[w]
      PROVE  LookupStands' /\ NoDuplicatePerson' /\ PeopleRepresented'
    <2>1. \A r : Ids(r)' = Ids(r)
        BY <1>1 DEF Ids
    <2>2. ASSUME NEW w \in Resolvers, pc'[w] \in {"create", "update"}
          PROVE  Matching(Ids(Current(w)))' = Matching(Ids(Current(w)))
        BY <1>1, <2>2 DEF Matching, Ids
    <2>3. LookupStands'
        BY <1>1, <2>2 DEF LookupStands
    <2>4. QED BY <1>1, <2>3 DEF NoDuplicatePerson, PeopleRepresented
<1>2. ASSUME NEW w \in Resolvers,
             \/ ListPending(w) \/ SetAside(w) \/ UpsertLink(w) \/ LinkConflict(w)
             \/ MarkResolved(w) \/ FlushReview(w) \/ Finish(w) \/ Return(w) \/ Fail(w)
      PROVE  LookupStands' /\ NoDuplicatePerson' /\ PeopleRepresented'
    <2>1. UNCHANGED <<payload, people, identifiers>>
        BY <1>2 DEF ListPending, SetAside, UpsertLink, LinkConflict, MarkResolved,
                    FlushReview, Finish, Return, Fail
    <2>2. pc'[w] \notin {"create", "update"}
        BY <1>2 DEF ListPending, SetAside, UpsertLink, LinkConflict, MarkResolved,
                    FlushReview, Finish, Return, Fail, ClearRun, TypeInv, TypeOK,
                    AtRecord, PastLoop
    <2>3. QED BY <1>1, <2>1, <2>2 DEF OneRun
<1>3. ASSUME NEW w \in Resolvers, FindPerson(w) \/ FindNobody(w)
      PROVE  LookupStands' /\ NoDuplicatePerson' /\ PeopleRepresented'
    <2>1. UNCHANGED <<payload, people, identifiers, rawRecords, pos>>
        BY <1>3 DEF FindPerson, FindNobody
    <2>2. Matching(Ids(Current(w)))' = Matching(Ids(Current(w)))
        BY <2>1 DEF Matching, Ids, Current
    <2>3. /\ pc'[w] = "create" => Matching(Ids(Current(w))) = {}
          /\ pc'[w] = "update" => person'[w] \in Matching(Ids(Current(w)))
        BY <1>3 DEF FindPerson, FindNobody, TypeInv, TypeOK, AtRecord
    <2>4. LookupStands'
        BY <2>2, <2>3 DEF OneRun, LookupStands
    <2>5. QED BY <2>1, <2>4 DEF NoDuplicatePerson, PeopleRepresented
<1>4. ASSUME NEW w \in Resolvers, CreatePerson(w)
      PROVE  LookupStands' /\ NoDuplicatePerson' /\ PeopleRepresented'
    <2>1. PICK p \in Persons \ people :
             /\ people' = people \cup {p}
             /\ identifiers' = [identifiers EXCEPT ![p] = Ids(Current(w))]
        BY <1>4 DEF CreatePerson
    <2>2. \A q \in people : \A f \in Fields :
             Ids(Current(w))[f] # None => identifiers[q][f] # Ids(Current(w))[f]
        BY <1>4 DEF CreatePerson, LookupStands, Matching
    <2>3. \A q \in Persons : identifiers'[q] = IF q = p THEN Ids(Current(w)) ELSE identifiers[q]
        BY <2>1 DEF TypeInv, TypeOK
    <2>4. people \subseteq Persons
        BY DEF TypeInv, TypeOK
    <2>5. NoDuplicatePerson'
        <3> SUFFICES ASSUME NEW q1 \in people', NEW q2 \in people', q1 # q2,
                            NEW f \in Fields, identifiers'[q1][f] # None
                     PROVE  identifiers'[q1][f] # identifiers'[q2][f]
            BY DEF NoDuplicatePerson
        <3>1. CASE q1 = p
            BY <2>1, <2>2, <2>3, <2>4, <3>1
        <3>2. CASE q2 = p
            BY <2>1, <2>2, <2>3, <2>4, <3>2
        <3>3. CASE q1 # p /\ q2 # p
            BY <2>1, <2>3, <2>4, <3>3 DEF NoDuplicatePerson
        <3>4. QED BY <3>1, <3>2, <3>3
    <2>6. LookupStands'
        BY <1>4 DEF CreatePerson, OneRun, LookupStands, TypeInv, TypeOK
    <2>7. PICK q \in Payloads : q.ids = Ids(Current(w))
        BY <1>4, CurrentType DEF CreatePerson, Working, TypeInv, TypeOK, Ids
    <2>8. Represents(q, q.ids)
        BY DEF Represents, Sharing
    <2>9. PeopleRepresented'
        BY <2>1, <2>3, <2>4, <2>7, <2>8 DEF PeopleRepresented
    <2>10. QED BY <2>5, <2>6, <2>9
<1>5. ASSUME NEW w \in Resolvers, UpdatePersonIdentifiers(w)
      PROVE  LookupStands' /\ NoDuplicatePerson' /\ PeopleRepresented'
    <2>1. PICK q \in Payloads : q = payload[Current(w)] /\ Represents(q, identifiers'[person[w]])
        BY <1>5, UpdateRepresents
    <2>2. PICK t \in Payloads : Represents(t, identifiers[person[w]]) /\ Sharing(t, q)
        BY <1>5, <2>1, UpdateRepresents
    <2>3. /\ person[w] \in people /\ people' = people /\ people \subseteq Persons
          /\ \A p \in Persons : p # person[w] => identifiers'[p] = identifiers[p]
        BY <1>5, UpdateRepresents DEF UpdatePersonIdentifiers, TypeInv, TypeOK
    <2>4. PeopleRepresented'
        BY <2>1, <2>3 DEF PeopleRepresented
    <2>5. ASSUME NEW p \in people, p # person[w], NEW f \in Fields,
                 identifiers'[person[w]][f] # None,
                 identifiers'[person[w]][f] = identifiers[p][f]
          PROVE  FALSE
        <3>1. PICK s \in Payloads : Represents(s, identifiers[p])
            BY DEF PeopleRepresented
        <3>2. Sharing(q, s)
            BY <2>1, <2>5, <3>1, CommonIsShared
        <3>3. Sharing(t, s)
            BY <2>2, <3>2 DEF SharingIsTransitive
        <3>4. \E g \in Fields : /\ identifiers[person[w]][g] # None
                                /\ identifiers[person[w]][g] = identifiers[p][g]
            BY <2>2, <3>1, <3>3, SharedIsCommon
        <3>5. QED BY <2>3, <2>5, <3>4 DEF NoDuplicatePerson
    <2>6. NoDuplicatePerson'
        <3> SUFFICES ASSUME NEW p1 \in people, NEW p2 \in people, p1 # p2,
                            NEW f \in Fields, identifiers'[p1][f] # None,
                            identifiers'[p1][f] = identifiers'[p2][f]
                     PROVE  FALSE
            BY <2>3 DEF NoDuplicatePerson
        <3>1. CASE p1 = person[w]
            BY <2>3, <2>5, <3>1
        <3>2. CASE p2 = person[w]
            BY <2>3, <2>5, <3>2
        <3>3. CASE p1 # person[w] /\ p2 # person[w]
            BY <2>3, <3>3 DEF NoDuplicatePerson
        <3>4. QED BY <3>1, <3>2, <3>3
    <2>7. LookupStands'
        BY <1>5 DEF UpdatePersonIdentifiers, OneRun, LookupStands, TypeInv, TypeOK
    <2>8. QED BY <2>4, <2>6, <2>7
<1>6. ASSUME \/ \E r \in Raws : IngestRecord(r)
             \/ \E r \in Raws, decision \in {"accept", "reject"} : Decide(r, decision)
             \/ UNCHANGED vars
      PROVE  LookupStands' /\ NoDuplicatePerson' /\ PeopleRepresented'
    <2>1. UNCHANGED <<payload, people, identifiers, runVars>>
        BY <1>6 DEF IngestRecord, Decide, vars
    <2>2. QED BY <1>1, <2>1 DEF Current
<1>7. QED BY <1>2, <1>3, <1>4, <1>5, <1>6 DEF Next, RunStep

\* What serial runs keep.
SerialInv == TypeInv /\ LinkInv /\ LookupStands /\ NoDuplicatePerson /\ PeopleRepresented

\* It holds in every reachable state.
LEMMA SerialInvariant ==
    ASSUME OneRun, SharingIsTransitive
    PROVE  Spec => []SerialInv
<1>1. Init => LookupStands /\ NoDuplicatePerson /\ PeopleRepresented
    BY DEF Init, LookupStands, NoDuplicatePerson, PeopleRepresented
<1>2. TypeInv /\ LookupStands /\ NoDuplicatePerson /\ PeopleRepresented /\ [Next]_vars
          => LookupStands' /\ NoDuplicatePerson' /\ PeopleRepresented'
    BY NextLookupStands
<1>3. QED BY <1>1, <1>2, LinkInvariant, PTL DEF Spec, SerialInv

\* With one run at a time and payloads whose sharing is transitive, no identifier
\* is ever shared by two people, even if records contradict each other: the
\* duplicates come from overlapping runs, or from a record that joins two people.
THEOREM SerialRunsMakeNoDuplicates ==
    ASSUME OneRun, SharingIsTransitive
    PROVE  Spec => []NoDuplicatePerson
<1>1. SerialInv => NoDuplicatePerson
    BY DEF SerialInv
<1>2. QED BY <1>1, SerialInvariant, PTL

\* FindOne has no choice.
MatchesAreUnique == \A r \in Raws : \A p, q \in Matching(Ids(r)) : p = q

\* Under the same conditions FindPersonByIdentifiers, which takes whichever
\* match comes first, never has two matches to choose from.
THEOREM SerialMatchesAreUnique ==
    ASSUME OneRun, SharingIsTransitive
    PROVE  Spec => []MatchesAreUnique
<1>1. SerialInv => MatchesAreUnique
    <2> SUFFICES ASSUME SerialInv, NEW r \in Raws,
                        NEW p \in Matching(Ids(r)), NEW q \in Matching(Ids(r)), p # q
                 PROVE  FALSE
        BY DEF MatchesAreUnique
    <2>1. p \in people /\ q \in people
        BY DEF Matching
    <2>2. PICK c \in Payloads : c.ids = Ids(r)
        BY DEF SerialInv, TypeInv, TypeOK, Ids
    <2>3. ASSUME NEW x \in Matching(Ids(r))
          PROVE  \E t \in Payloads : Represents(t, identifiers[x]) /\ Sharing(t, c)
        <3>1. PICK f \in Fields : c.ids[f] # None /\ identifiers[x][f] = c.ids[f]
            BY <2>2 DEF Matching
        <3>2. PICK t \in Payloads : Represents(t, identifiers[x])
            BY DEF Matching, SerialInv, PeopleRepresented
        <3>3. QED BY <3>1, <3>2, MatchIsShared
    <2>4. PICK s \in Payloads : Represents(s, identifiers[p]) /\ Sharing(s, c)
        BY <2>3
    <2>5. PICK t \in Payloads : Represents(t, identifiers[q]) /\ Sharing(t, c)
        BY <2>3
    <2>6. Sharing(s, t)
        BY <2>4, <2>5, SharingSymmetric DEF SharingIsTransitive
    <2>7. \E f \in Fields : identifiers[p][f] # None /\ identifiers[p][f] = identifiers[q][f]
        BY <2>4, <2>5, <2>6, SharedIsCommon
    <2>8. QED BY <2>1, <2>7 DEF SerialInv, NoDuplicatePerson
<1>2. QED BY <1>1, SerialInvariant, PTL

-----------------------------------------------------------------------------
(***************************************************************************)
(* Decisions and runs.  What had left the queue when a run listed it is    *)
(* not in the run's list, and all that a run sets aside is from its list.  *)
(***************************************************************************)
Untouched(w) ==
    \A r \in settled[w] :
        /\ r \notin reviewIDs[w]
        /\ \A i \in 1..Len(rawRecords[w]) : rawRecords[w][i] # r

SettledInv == \A w \in Resolvers : Untouched(w)

\* Every step keeps settled records out of the lists and the records set aside.
LEMMA NextSettledInv == TypeInv /\ SettledInv /\ [Next]_vars => SettledInv'
<1> SUFFICES ASSUME TypeInv, SettledInv, [Next]_vars, NEW w \in Resolvers
             PROVE  Untouched(w)'
    BY DEF SettledInv
<1>1. Untouched(w)
    BY DEF SettledInv
<1>2. CASE UNCHANGED <<reviewIDs[w], rawRecords[w], settled[w]>>
    BY <1>1, <1>2 DEF Untouched
<1> USE DEF environmentVars, peopleVars, runVars, GoTo
<1>3. CASE ListPending(w)
    <2>1. PICK q \in PendingLists : rawRecords' = [rawRecords EXCEPT ![w] = q]
        BY <1>3 DEF ListPending
    <2>2. \A i \in 1..Len(q) : status[q[i]] = "pending"
        BY <2>1, PendingListsType DEF Pending
    <2>3. /\ rawRecords'[w] = q /\ reviewIDs'[w] = {}
          /\ \A r \in settled'[w] : status[r] # "pending"
        BY <1>3, <2>1 DEF ListPending, TypeInv, TypeOK, IdleIsClear
    <2>4. QED BY <2>2, <2>3 DEF Untouched
<1>4. CASE SetAside(w)
    <2>1. /\ pos[w] \in 1..Len(rawRecords[w]) /\ Current(w) = rawRecords[w][pos[w]]
          /\ reviewIDs'[w] = reviewIDs[w] \cup {Current(w)}
          /\ rawRecords' = rawRecords /\ settled' = settled
        BY <1>4 DEF SetAside, AtRecord, Current, TypeInv, TypeOK
    <2>2. QED BY <1>1, <2>1 DEF Untouched
<1>5. CASE FlushReview(w)
    <2>1. /\ reviewIDs'[w] \subseteq reviewIDs[w]
          /\ rawRecords' = rawRecords /\ settled' = settled
        BY <1>5 DEF FlushReview, TypeInv, TypeOK
    <2>2. QED BY <1>1, <2>1 DEF Untouched
<1>6. CASE LinkConflict(w) \/ Return(w) \/ Fail(w)
    <2>1. settled'[w] = {}
        BY <1>6 DEF LinkConflict, Return, Fail, ClearRun, TypeInv, TypeOK
    <2>2. QED BY <2>1 DEF Untouched
<1>7. CASE \/ FindPerson(w) \/ FindNobody(w) \/ CreatePerson(w) \/ Finish(w)
           \/ UpdatePersonIdentifiers(w) \/ UpsertLink(w) \/ MarkResolved(w)
    BY <1>2, <1>7 DEF FindPerson, FindNobody, CreatePerson, Finish,
                      UpdatePersonIdentifiers, UpsertLink, MarkResolved
<1>8. CASE \E v \in Resolvers : v # w /\ (RunStep(v) \/ Fail(v))
    BY <1>2, <1>8, OtherRuns DEF TypeInv
<1>9. CASE ~\E v \in Resolvers : RunStep(v) \/ Fail(v)
    BY <1>2, <1>9 DEF Next, IngestRecord, Decide, vars
<1>10. QED BY <1>3, <1>4, <1>5, <1>6, <1>7, <1>8, <1>9 DEF RunStep

\* A step of a run leaves settled records as they are.
LEMMA RunLeavesSettled ==
    ASSUME TypeInv, SettledInv, NEW w \in Resolvers, RunStep(w), NEW r \in settled[w]
    PROVE  status'[r] = status[r]
<1>1. Untouched(w) /\ r \in Raws
    BY DEF SettledInv, TypeInv, TypeOK
<1>2. CASE MarkResolved(w)
    <2>1. Current(w) # r /\ Current(w) \in Raws
        BY <1>1, <1>2, CurrentType DEF MarkResolved, Untouched, Current, TypeInv, Working
    <2>2. QED BY <1>1, <1>2, <2>1 DEF MarkResolved, TypeInv, TypeOK
<1>3. CASE FlushReview(w)
    BY <1>1, <1>3 DEF FlushReview, Untouched, TypeInv, TypeOK
<1>4. CASE ~MarkResolved(w) /\ ~FlushReview(w)
    BY <1>4 DEF RunStep, ListPending, SetAside, FindPerson, FindNobody, CreatePerson,
                UpdatePersonIdentifiers, UpsertLink, LinkConflict, Finish, Return
<1>5. QED BY <1>2, <1>3, <1>4

\* However runs overlap, none of them touches a record that had left the queue
\* before the run listed it: the decision about it stands.
THEOREM DecisionsStand == Spec => DecisionStands
<1>1. Init => SettledInv
    BY DEF Init, SettledInv, Untouched
<1>2. TypeInv /\ SettledInv /\ [Next]_vars => SettledInv'
    BY NextSettledInv
<1>3. TypeInv /\ SettledInv => \A w \in Resolvers : \A r \in settled[w] :
          RunStep(w) => status'[r] = status[r]
    BY RunLeavesSettled
<1>4. QED BY <1>1, <1>2, <1>3, TypeInvariant, PTL DEF Spec, DecisionStands

-----------------------------------------------------------------------------
(***************************************************************************)
(* What PendingDrains rests on and fairness cannot give: a run is bounded. *)
(* A record takes four calls at most, or one and a place in the flush.     *)
(***************************************************************************)
CallsMade(w) ==
    CASE pc[w] \in {"update", "create"} -> 1
      [] pc[w] = "link"                 -> 2
      [] pc[w] = "mark"                 -> 3
      [] OTHER                          -> 0

\* The steps that run w can still take.
StepsLeft(w) ==
    CASE pc[w] = "idle" -> 0
      [] pc[w] = "done" -> 1
      [] OTHER -> 2 + Cardinality(reviewIDs[w])
                    + 4 * (Len(rawRecords[w]) + 1 - pos[w]) - CallsMade(w)

\* A run starts with so many steps at most, has fewer after each of them, and
\* no more after anybody else's.
RunsAreBounded ==
    [][\A w \in Resolvers :
          /\ pc[w] = "idle" => StepsLeft(w)' <= 2 + 4 * BatchSize
          /\ pc[w] # "idle" => StepsLeft(w)' <= StepsLeft(w)
          /\ pc[w] # "idle" /\ (RunStep(w) \/ Fail(w)) => StepsLeft(w)' < StepsLeft(w)]_vars

\* The parts of the count are numbers.
LEMMA CountType ==
    ASSUME TypeInv, NEW w \in Resolvers
    PROVE  /\ Cardinality(reviewIDs[w]) \in Nat /\ IsFiniteSet(reviewIDs[w])
           /\ Len(rawRecords[w]) \in Nat /\ pos[w] \in Nat \ {0}
           /\ pos[w] <= Len(rawRecords[w]) + 1
           /\ pc[w] \in Working => pos[w] <= Len(rawRecords[w])
           /\ pc[w] \in PCs
BY RawsAssumption, FS_Subset, FS_CardinalityType DEF TypeInv, TypeOK, Position

\* A run that is under way has a step left, and two until it is done.
LEMMA StepsLeftPositive ==
    ASSUME TypeInv, NEW w \in Resolvers
    PROVE  /\ StepsLeft(w) \in Nat
           /\ pc[w] # "idle" => StepsLeft(w) >= 1
           /\ pc[w] \notin {"idle", "done"} => StepsLeft(w) >= 2
<1> DEFINE n == Cardinality(reviewIDs[w])
           l == Len(rawRecords[w])
           i == pos[w]
<1>1. n \in Nat /\ l \in Nat /\ i \in Nat /\ i <= l + 1
    BY CountType
<1>2. CASE pc[w] = "idle"
    BY <1>2 DEF StepsLeft
<1>3. CASE pc[w] = "done"
    BY <1>3 DEF StepsLeft
<1>4. CASE pc[w] = "loop"
    <2>1. StepsLeft(w) = 2 + n + 4 * (l + 1 - i) - 0
        BY <1>4 DEF StepsLeft, CallsMade
    <2> HIDE DEF n, l, i
    <2>2. QED BY <1>1, <1>4, <2>1
<1>5. CASE pc[w] \in Working
    <2>1. i <= l
        BY <1>5, CountType
    <2>2. PICK k \in 1..3 : StepsLeft(w) = 2 + n + 4 * (l + 1 - i) - k
        <3>1. CallsMade(w) \in 1..3
            BY <1>5 DEF Working, CallsMade
        <3>2. StepsLeft(w) = 2 + n + 4 * (l + 1 - i) - CallsMade(w)
            BY <1>5 DEF StepsLeft, Working
        <3>3. QED BY <3>1, <3>2
    <2>3. pc[w] \notin {"idle", "done"}
        BY <1>5 DEF Working
    <2> HIDE DEF n, l, i
    <2>4. QED BY <1>1, <2>1, <2>2, <2>3
<1>6. QED
    BY <1>2, <1>3, <1>4, <1>5, CountType DEF PCs, Working

\* ListRawByStatus returns BatchSize records at most.
LEMMA PendingListsBounded ==
    ASSUME NEW q \in PendingLists
    PROVE  Len(q) <= BatchSize
<1>1. Cardinality(Pending) \in Nat
    BY RawsAssumption, FS_Subset, FS_CardinalityType DEF Pending
<1>2. PICK n \in Nat : q \in [1..n -> Pending] /\ n <= BatchSize
    BY <1>1, BoundAssumption DEF PendingLists
<1>3. QED BY <1>2

\* What is left of a list counts four a record.
LEMMA FourARecord ==
    ASSUME NEW l \in Nat, NEW i \in Nat, NEW n \in Nat
    PROVE  \A m \in Nat, k \in 0..3 :
              /\ m + k < n + 4 =>
                    2 + m + 4 * (l + 1 - (i + 1)) - 0 < 2 + n + 4 * (l + 1 - i) - k
              /\ m < n => 2 + m + 4 * (l + 1 - i) - 0 < 2 + n + 4 * (l + 1 - i) - 0
<1> DEFINE d == 4 * (l + 1 - i)
<1>1. d \in Int /\ 4 * (l + 1 - (i + 1)) = d - 4
    <2>1. l + 1 - (i + 1) = l - i /\ l + 1 - i = l - i + 1
        OBVIOUS
    <2>2. \A x \in Int : 4 * (x + 1) \in Int /\ 4 * x = 4 * (x + 1) - 4
        OBVIOUS
    <2>3. QED BY <2>1, <2>2
<1> HIDE DEF d
<1>2. ASSUME NEW m \in Nat, NEW k \in 0..3
      PROVE  /\ m + k < n + 4 => 2 + m + (d - 4) - 0 < 2 + n + d - k
             /\ m < n => 2 + m + d - 0 < 2 + n + d - 0
    <2>1. k \in Nat /\ k <= 3
        OBVIOUS
    <2>2. d \in Int
        BY <1>1
    <2>3. m + k < n + 4 => 2 + m + (d - 4) - 0 < 2 + n + d - k
        BY <2>1, <2>2
    <2>4. m < n => 2 + m + d - 0 < 2 + n + d - 0
        BY <2>2
    <2>5. QED BY <2>3, <2>4
<1>3. QED BY <1>1, <1>2 DEF d

\* A step of a run that is under way leaves it fewer.
LEMMA StepsRunDown ==
    ASSUME TypeInv, TypeInv', NEW w \in Resolvers, pc[w] # "idle", RunStep(w) \/ Fail(w)
    PROVE  StepsLeft(w)' < StepsLeft(w)
<1> USE DEF GoTo
<1> DEFINE n == Cardinality(reviewIDs[w])
           l == Len(rawRecords[w])
           i == pos[w]
<1>1. /\ n \in Nat /\ IsFiniteSet(reviewIDs[w]) /\ l \in Nat /\ i \in Nat \ {0}
      /\ pos[w] <= Len(rawRecords[w]) + 1
      /\ pc[w] \in Working => pos[w] <= Len(rawRecords[w])
    BY CountType
<1>2. TypeOK
    BY DEF TypeInv
<1>3. CASE SetAside(w)
    <2>1. /\ pc[w] = "loop" /\ pc'[w] = "loop" /\ rawRecords'[w] = rawRecords[w]
          /\ pos'[w] = pos[w] + 1
          /\ reviewIDs'[w] = reviewIDs[w] \cup {Current(w)}
        BY <1>2, <1>3 DEF SetAside, AtRecord, TypeOK
    <2>2. /\ Cardinality(reviewIDs[w] \cup {Current(w)}) \in Nat
          /\ Cardinality(reviewIDs[w] \cup {Current(w)}) <= n + 1
        <3>1. CASE Current(w) \in reviewIDs[w]
            <4>1. Cardinality(reviewIDs[w] \cup {Current(w)}) = n
                BY <3>1, reviewIDs[w] \cup {Current(w)} = reviewIDs[w]
            <4> HIDE DEF n
            <4>2. QED BY <1>1, <4>1
        <3>2. CASE Current(w) \notin reviewIDs[w]
            <4>1. Cardinality(reviewIDs[w] \cup {Current(w)}) = n + 1
                BY <1>1, <3>2, FS_AddElement
            <4> HIDE DEF n
            <4>2. QED BY <1>1, <4>1
        <3>3. QED BY <3>1, <3>2
    <2>3. /\ StepsLeft(w) = 2 + n + 4 * (l + 1 - i) - 0
          /\ StepsLeft(w)' = 2 + Cardinality(reviewIDs[w] \cup {Current(w)})
                               + 4 * (l + 1 - (i + 1)) - 0
        BY <2>1 DEF StepsLeft, CallsMade
    <2> HIDE DEF n, l, i
    <2>4. \A m \in Nat : m <= n + 1 => m + 0 < n + 4
        BY <1>1
    <2>5. QED BY <1>1, <2>2, <2>3, <2>4, FourARecord
<1>4. CASE FindPerson(w) \/ FindNobody(w) \/ CreatePerson(w)
           \/ UpdatePersonIdentifiers(w) \/ UpsertLink(w)
    <2>1. /\ rawRecords' = rawRecords /\ pos' = pos /\ reviewIDs' = reviewIDs
          /\ \/ pc[w] = "loop" /\ pc'[w] \in {"update", "create"}
             \/ pc[w] \in {"update", "create"} /\ pc'[w] = "link"
             \/ pc[w] = "link" /\ pc'[w] = "mark"
        BY <1>2, <1>4 DEF FindPerson, FindNobody, CreatePerson, UpdatePersonIdentifiers,
                          UpsertLink, AtRecord, TypeOK
    <2>2. PICK k \in 0..3, m \in 0..3 :
             /\ k < m
             /\ StepsLeft(w) = 2 + n + 4 * (l + 1 - i) - k
             /\ StepsLeft(w)' = 2 + n + 4 * (l + 1 - i) - m
        <3>1. CallsMade(w) \in 0..3 /\ CallsMade(w)' \in 0..3 /\ CallsMade(w) < CallsMade(w)'
            BY <2>1 DEF CallsMade
        <3>2. /\ StepsLeft(w) = 2 + n + 4 * (l + 1 - i) - CallsMade(w)
              /\ StepsLeft(w)' = 2 + n + 4 * (l + 1 - i) - CallsMade(w)'
            BY <2>1 DEF StepsLeft
        <3>3. QED BY <3>1, <3>2
    <2> HIDE DEF n, l, i
    <2>3. QED BY <1>1, <2>2
<1>5. CASE MarkResolved(w)
    <2>1. /\ pc[w] = "mark" /\ pc'[w] = "loop" /\ rawRecords' = rawRecords
          /\ pos'[w] = pos[w] + 1 /\ reviewIDs' = reviewIDs
        BY <1>2, <1>5 DEF MarkResolved, TypeOK
    <2>2. /\ StepsLeft(w) = 2 + n + 4 * (l + 1 - i) - 3
          /\ StepsLeft(w)' = 2 + n + 4 * (l + 1 - (i + 1)) - 0
        BY <2>1 DEF StepsLeft, CallsMade
    <2> HIDE DEF n, l, i
    <2>3. n + 3 < n + 4
        BY <1>1
    <2>4. QED BY <1>1, <2>2, <2>3, FourARecord
<1>6. CASE FlushReview(w)
    <2>1. PICK r \in reviewIDs[w] : reviewIDs' = [reviewIDs EXCEPT ![w] = @ \ {r}]
        BY <1>6 DEF FlushReview
    <2>2. /\ pc[w] = "loop" /\ pc' = pc /\ rawRecords' = rawRecords /\ pos' = pos
          /\ reviewIDs'[w] = reviewIDs[w] \ {r}
        BY <1>2, <1>6, <2>1 DEF FlushReview, PastLoop, TypeOK
    <2>3. Cardinality(reviewIDs[w] \ {r}) \in Nat /\ Cardinality(reviewIDs[w] \ {r}) < n
        <3>1. Cardinality(reviewIDs[w] \ {r}) = n - 1 /\ IsFiniteSet(reviewIDs[w] \ {r})
            BY <1>1, FS_RemoveElement
        <3>2. Cardinality(reviewIDs[w] \ {r}) \in Nat
            BY <3>1, FS_CardinalityType
        <3> HIDE DEF n
        <3>3. QED BY <1>1, <3>1, <3>2
    <2>4. /\ StepsLeft(w) = 2 + n + 4 * (l + 1 - i) - 0
          /\ StepsLeft(w)' = 2 + Cardinality(reviewIDs[w] \ {r}) + 4 * (l + 1 - i) - 0
        BY <2>2 DEF StepsLeft, CallsMade
    <2> HIDE DEF n, l, i
    <2>5. QED BY <1>1, <2>3, <2>4, FourARecord
<1>7. CASE Finish(w)
    <2>1. pc[w] = "loop" /\ pc'[w] = "done"
        BY <1>2, <1>7 DEF Finish, PastLoop, TypeOK
    <2>2. StepsLeft(w)' = 1 /\ StepsLeft(w) >= 2 /\ StepsLeft(w) \in Nat
        BY <2>1, StepsLeftPositive DEF StepsLeft
    <2>3. QED BY <2>2
<1>8. CASE LinkConflict(w) \/ Return(w) \/ Fail(w)
    <2>1. StepsLeft(w)' = 0
        BY <1>2, <1>8 DEF LinkConflict, Return, Fail, ClearRun, StepsLeft, TypeOK
    <2>2. QED BY <2>1, StepsLeftPositive
<1>9. ~ListPending(w)
    BY DEF ListPending
<1>10. QED
    BY <1>3, <1>4, <1>5, <1>6, <1>7, <1>8, <1>9 DEF RunStep

\* A run starts with two steps, and four for each record of its list.
LEMMA StepsAtStart ==
    ASSUME TypeInv, NEW w \in Resolvers, pc[w] = "idle", RunStep(w) \/ Fail(w)
    PROVE  StepsLeft(w)' <= 2 + 4 * BatchSize
<1>1. ListPending(w)
    BY DEF RunStep, Fail, SetAside, FindPerson, FindNobody, CreatePerson,
           UpdatePersonIdentifiers, UpsertLink, LinkConflict, MarkResolved, FlushReview,
           Finish, Return, AtRecord, PastLoop
<1>2. PICK q \in PendingLists : rawRecords' = [rawRecords EXCEPT ![w] = q]
    BY <1>1 DEF ListPending
<1>3. /\ pc'[w] = "loop" /\ rawRecords'[w] = q /\ pos'[w] = 1 /\ reviewIDs'[w] = {}
    BY <1>1, <1>2 DEF ListPending, GoTo, TypeInv, TypeOK, IdleIsClear
<1>4. Len(q) \in Nat /\ Len(q) <= BatchSize
    BY PendingListsType, PendingListsBounded
<1>5. StepsLeft(w)' = 2 + 0 + 4 * (Len(q) + 1 - 1) - 0
    BY <1>3, FS_EmptySet DEF StepsLeft, CallsMade
<1>6. QED BY <1>4, <1>5, BoundAssumption

\* The same count, in a form that holds after a step as well.
LEMMA StepsLeftType == TypeInv => \A w \in Resolvers : StepsLeft(w) \in Nat
BY StepsLeftPositive

\* A step that is not the run's own leaves its count alone.
LEMMA OthersTakeNoStep ==
    ASSUME TypeInv, [Next]_vars, NEW w \in Resolvers, ~(RunStep(w) \/ Fail(w))
    PROVE  StepsLeft(w)' = StepsLeft(w) /\ pc'[w] = pc[w]
<1>1. /\ pc'[w] = pc[w] /\ rawRecords'[w] = rawRecords[w] /\ pos'[w] = pos[w]
      /\ reviewIDs'[w] = reviewIDs[w]
    <2>1. CASE \E v \in Resolvers : RunStep(v) \/ Fail(v)
        BY <2>1, OtherRuns DEF TypeInv
    <2>2. CASE ~\E v \in Resolvers : RunStep(v) \/ Fail(v)
        BY <2>2 DEF Next, IngestRecord, Decide, vars, runVars
    <2>3. QED BY <2>1, <2>2
<1>2. QED BY <1>1 DEF StepsLeft, CallsMade

\* A run makes two calls, and four for each record of its batch, at most,
\* whatever the other runs, the reviewers and the clients do in between.
THEOREM RunsComeToAnEnd == Spec => RunsAreBounded
<1> DEFINE Bounded(w) ==
        /\ pc[w] = "idle" => StepsLeft(w)' <= 2 + 4 * BatchSize
        /\ pc[w] # "idle" => StepsLeft(w)' <= StepsLeft(w)
        /\ pc[w] # "idle" /\ (RunStep(w) \/ Fail(w)) => StepsLeft(w)' < StepsLeft(w)
<1>1. TypeInv' => (\A w \in Resolvers : StepsLeft(w) \in Nat)'
    BY StepsLeftType, PTL
<1>2. TypeInv /\ TypeInv' /\ [Next]_vars => \A w \in Resolvers : Bounded(w)
    <2> SUFFICES ASSUME TypeInv, TypeInv', [Next]_vars, NEW w \in Resolvers
                 PROVE  Bounded(w)
        OBVIOUS
    <2>1. StepsLeft(w) \in Nat /\ StepsLeft(w)' \in Nat
        BY <1>1, StepsLeftType
    <2>2. CASE RunStep(w) \/ Fail(w)
        <3>1. pc[w] = "idle" => StepsLeft(w)' <= 2 + 4 * BatchSize
            BY <2>2, StepsAtStart
        <3>2. pc[w] # "idle" => StepsLeft(w)' < StepsLeft(w)
            BY <2>2, StepsRunDown
        <3>3. StepsLeft(w)' < StepsLeft(w) => StepsLeft(w)' <= StepsLeft(w)
            BY <2>1
        <3>4. QED BY <3>1, <3>2, <3>3
    <2>3. CASE ~(RunStep(w) \/ Fail(w))
        <3>1. StepsLeft(w)' = StepsLeft(w)
            BY <2>3, OthersTakeNoStep
        <3>2. pc[w] = "idle" => StepsLeft(w) = 0
            BY DEF StepsLeft
        <3>3. StepsLeft(w) <= StepsLeft(w) /\ 0 <= 2 + 4 * BatchSize
            BY <2>1, BoundAssumption
        <3>4. QED BY <2>3, <3>1, <3>2, <3>3
    <2>4. QED BY <2>2, <2>3
<1> HIDE DEF Bounded
<1>3. Spec => [][\A w \in Resolvers : Bounded(w)]_vars
    BY <1>2, TypeInvariant, PTL DEF Spec
<1>4. QED BY <1>3 DEF RunsAreBounded, Bounded
=============================================================================
