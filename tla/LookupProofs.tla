----------------------------- MODULE LookupProofs -----------------------------
(***************************************************************************)
(* What lookups find beside serial resolve runs, for any number of readers *)
(* and records.                                                            *)
(***************************************************************************)
EXTENDS Lookup, ResolveProofs

-----------------------------------------------------------------------------
(***************************************************************************)
(* Type correctness, and what is taken over from the runs.                 *)
(***************************************************************************)

\* Lookups read only: to the runs, they are not there.
LEMMA RunsAreUndisturbed == LookupSpec => Spec
<1>1. LookupInit => Init
    BY DEF LookupInit
<1>2. [LookupNext]_lookupVars => [Next]_vars
    BY DEF LookupNext, lookupVars, LookupStep, LookupPerson, LookupNobody, FindLinks,
           EndLookup
<1>3. QED BY <1>1, <1>2, PTL DEF LookupSpec, Spec

\* Whatever runs write, a lookup asks, finds and answers in its types.
THEOREM LookupTypes == LookupSpec => []LookupTypeOK
<1> DEFINE T == lookups \in [Readers -> LookupType]
<1>1. LookupInit => T
    BY DEF LookupInit, NoLookup, LookupType
<1>2. TypeOK /\ T /\ [LookupNext]_lookupVars => T'
    <2> SUFFICES ASSUME TypeOK, T, [LookupNext]_lookupVars PROVE T'
        OBVIOUS
    <2>1. CASE UNCHANGED lookups
        BY <2>1
    <2>2. ASSUME NEW q \in Readers, LookupStep(q) PROVE T'
        <3>1. \A field, value : Attributed(field, value) \subseteq Raws
                                /\ WithIdentifier(field, value) \subseteq Persons
            BY DEF Attributed, WithIdentifier, TypeOK
        <3>2. {l \in links : l.person = lookups[q].person}
                  \in SUBSET [key: Keys, person: Persons]
            BY DEF TypeOK
        <3>3. lookups[q].known \in SUBSET Raws /\ lookups[q].person \in Persons \cup {None}
            BY DEF LookupType
        <3> QED
            BY <2>2, <3>1, <3>2, <3>3 DEF LookupStep, LookupPerson, LookupNobody, FindLinks,
               EndLookup, Answer, LookupType, NoLookup
    <2>3. CASE UNCHANGED lookupVars
        BY <2>3 DEF lookupVars
    <2> QED
        BY <2>1, <2>2, <2>3 DEF LookupNext
<1>3. QED BY <1>1, <1>2, TypeCorrect, RunsAreUndisturbed, PTL DEF LookupSpec, LookupTypeOK

-----------------------------------------------------------------------------
(***************************************************************************)
(* People carry the identifiers of the records attributed to them.  A run  *)
(* has seen to that before it marks a record.                              *)
(***************************************************************************)
Carries(p, r) == \A f \in Fields : Ids(r)[f] # None => identifiers[p][f] = Ids(r)[f]

OwnersCarry == \A r \in Raws : owner[r] # None => Carries(owner[r], r)

ChosenCarry ==
    \A w \in Resolvers : pc[w] \in {"link", "mark"} => Carries(person[w], Current(w))

CarryInv == OwnersCarry /\ ChosenCarry

\* People keep the identifiers they have, and stay.
LEMMA PeopleKept ==
    ASSUME SharingIsTransitive, SharingAgrees, SerialInv, [Next]_vars
    PROVE  /\ people \subseteq people'
           /\ \A q \in people, g \in Fields :
                 identifiers[q][g] # None => identifiers'[q][g] = identifiers[q][g]
<1> USE DEF environmentVars, peopleVars, runVars
<1>1. ASSUME NEW w \in Resolvers, UpdatePersonIdentifiers(w)
      PROVE  /\ people \subseteq people'
             /\ \A q \in people, g \in Fields :
                 identifiers[q][g] # None => identifiers'[q][g] = identifiers[q][g]
    <2>1. \A q \in Persons, g \in Fields :
             identifiers[q][g] # None => identifiers'[q][g] = identifiers[q][g]
        BY <1>1, NothingOverwritten DEF SerialInv
    <2> QED
        BY <1>1, <2>1 DEF UpdatePersonIdentifiers, SerialInv, TypeInv, TypeOK
<1>2. ASSUME NEW w \in Resolvers, CreatePerson(w)
      PROVE  /\ people \subseteq people'
             /\ \A q \in people, g \in Fields :
                 identifiers[q][g] # None => identifiers'[q][g] = identifiers[q][g]
    BY <1>2 DEF CreatePerson, SerialInv, TypeInv, TypeOK
<1>3. ASSUME NEW w \in Resolvers, RunStep(w) \/ Fail(w),
             ~UpdatePersonIdentifiers(w), ~CreatePerson(w)
      PROVE  UNCHANGED <<people, identifiers>>
    BY <1>3 DEF RunStep, ListPending, SetAside, FindPerson, FindNobody, UpsertLink,
       LinkConflict, MarkResolved, FlushReview, Finish, Return, Fail
<1>4. ASSUME \/ \E r \in Raws : IngestRecord(r)
             \/ \E r \in Raws, decision \in {"accept", "reject"} : Decide(r, decision)
             \/ UNCHANGED vars
      PROVE  UNCHANGED <<people, identifiers>>
    BY <1>4 DEF IngestRecord, Decide, vars
<1>5. QED BY <1>1, <1>2, <1>3, <1>4 DEF Next

\* The payloads do not change.
LEMMA PayloadKept ==
    ASSUME [Next]_vars
    PROVE  UNCHANGED payload
BY DEF Next, RunStep, ListPending, SetAside, FindPerson, FindNobody, CreatePerson,
       UpdatePersonIdentifiers, UpsertLink, LinkConflict, MarkResolved, FlushReview,
       Finish, Return, Fail, IngestRecord, Decide, vars, environmentVars

\* The people and records that Carries is about are there.
LEMMA ChosenThere ==
    ASSUME TypeInv, NEW w \in Resolvers, pc[w] \in Working
    PROVE  /\ Current(w) \in Raws
           /\ pc[w] # "create" => person[w] \in people /\ person[w] \in Persons
BY CurrentType DEF TypeInv, TypeOK, Chosen, Working

\* Every step keeps CarryInv.
LEMMA NextCarryInv ==
    ASSUME SharingIsTransitive, SharingAgrees, SerialInv, CarryInv, [Next]_vars
    PROVE  CarryInv'
<1> USE DEF environmentVars, peopleVars, runVars
<1>1. TypeInv /\ LinkInv /\ OwnerLinked
    BY DEF SerialInv, LinkInv
<1>2. ASSUME NEW w \in Resolvers, pc'[w] = pc[w], rawRecords'[w] = rawRecords[w],
             pos'[w] = pos[w], person'[w] = person[w], pc[w] \in {"link", "mark"}
      PROVE  Carries(person[w], Current(w))'
    <2>1. person[w] \in people /\ Carries(person[w], Current(w))
        BY <1>1, <1>2, ChosenThere DEF CarryInv, ChosenCarry, Working
    <2>2. Ids(Current(w))' = Ids(Current(w))
        BY <1>2, PayloadKept DEF Ids, Current
    <2> QED
        BY <1>2, <2>1, <2>2, PeopleKept DEF Carries
<1>3. ASSUME NEW r \in Raws, owner'[r] = owner[r], owner[r] # None
      PROVE  Carries(owner[r], r)'
    <2>1. owner[r] \in people /\ Carries(owner[r], r)
        BY <1>1, <1>3 DEF OwnerLinked, CarryInv, OwnersCarry
    <2>2. Ids(r)' = Ids(r)
        BY PayloadKept DEF Ids
    <2> QED
        BY <1>3, <2>1, <2>2, PeopleKept DEF Carries
<1>4. ASSUME NEW w \in Resolvers, MarkResolved(w) PROVE OwnersCarry'
    <2>1. /\ Current(w) \in Raws /\ person[w] \in people
          /\ Carries(person[w], Current(w))
        BY <1>1, <1>4, ChosenThere DEF MarkResolved, CarryInv, ChosenCarry, Working
    <2>2. owner' = [owner EXCEPT ![Current(w)] = person[w]] /\ UNCHANGED identifiers
        BY <1>4 DEF MarkResolved
    <2>3. \A r \in Raws : owner'[r] = IF r = Current(w) THEN person[w] ELSE owner[r]
        BY <1>1, <2>2 DEF TypeInv, TypeOK
    <2>4. \A r : Ids(r)' = Ids(r)
        BY PayloadKept DEF Ids
    <2> QED
        BY <2>1, <2>2, <2>3, <2>4 DEF CarryInv, OwnersCarry, Carries
<1>5. ASSUME UNCHANGED owner PROVE OwnersCarry'
    BY <1>3, <1>5 DEF OwnersCarry
<1>6. ASSUME NEW w \in Resolvers, RunStep(w) \/ Fail(w) PROVE OwnersCarry'
    <2>1. MarkResolved(w) \/ UNCHANGED owner
        BY <1>6 DEF RunStep, ListPending, SetAside, FindPerson, FindNobody, CreatePerson,
           UpdatePersonIdentifiers, UpsertLink, LinkConflict, FlushReview, Finish, Return,
           Fail
    <2> QED
        BY <1>4, <1>5, <2>1
<1>7. ASSUME NEW w \in Resolvers, CreatePerson(w) PROVE Carries(person[w], Current(w))'
    <2>1. PICK p \in Persons \ people :
              /\ identifiers' = [identifiers EXCEPT ![p] = Ids(Current(w))]
              /\ person' = [person EXCEPT ![w] = p]
        BY <1>7 DEF CreatePerson
    <2>2. person'[w] = p /\ identifiers'[p] = Ids(Current(w))
        BY <1>1, <2>1 DEF TypeInv, TypeOK
    <2>3. Ids(Current(w))' = Ids(Current(w))
        BY <1>7, PayloadKept DEF Ids, Current, CreatePerson
    <2> QED
        BY <2>2, <2>3 DEF Carries
<1>8. ASSUME NEW w \in Resolvers, UpdatePersonIdentifiers(w)
      PROVE  Carries(person[w], Current(w))'
    <2>1. person[w] \in Persons
        BY <1>1, <1>8, ChosenThere DEF UpdatePersonIdentifiers, Working
    <2>2. identifiers'[person[w]] = Overwrite(identifiers[person[w]], Ids(Current(w)))
        BY <1>1, <1>8, <2>1 DEF UpdatePersonIdentifiers, TypeInv, TypeOK
    <2>3. Ids(Current(w))' = Ids(Current(w)) /\ person'[w] = person[w]
        BY <1>8, PayloadKept DEF Ids, Current, UpdatePersonIdentifiers
    <2> QED
        BY <2>2, <2>3 DEF Carries, Overwrite
<1>9. ASSUME NEW w \in Resolvers, UpsertLink(w) PROVE Carries(person[w], Current(w))'
    <2>1. person[w] \in people /\ Carries(person[w], Current(w))
        BY <1>1, <1>9, ChosenThere DEF UpsertLink, CarryInv, ChosenCarry, Working
    <2>2. Ids(Current(w))' = Ids(Current(w)) /\ UNCHANGED <<person, identifiers>>
        BY <1>9, PayloadKept DEF Ids, Current, UpsertLink
    <2> QED
        BY <2>1, <2>2 DEF Carries
<1>10. ASSUME NEW w \in Resolvers, RunStep(w) \/ Fail(w),
              ~CreatePerson(w), ~UpdatePersonIdentifiers(w), ~UpsertLink(w)
       PROVE  \/ pc'[w] \notin {"link", "mark"}
              \/ UNCHANGED <<pc, rawRecords, pos, person>>
    BY <1>1, <1>10 DEF RunStep, ListPending, SetAside, FindPerson, FindNobody, LinkConflict,
       MarkResolved, FlushReview, Finish, Return, Fail, ClearRun, GoTo, AtRecord, PastLoop, TypeInv, TypeOK
<1>11. ASSUME NEW w \in Resolvers, RunStep(w) \/ Fail(w), NEW v \in Resolvers,
              pc'[v] \in {"link", "mark"}
       PROVE  Carries(person[v], Current(v))'
    <2>1. CASE v # w
        BY <1>1, <1>2, <1>11, <2>1, OtherRuns DEF TypeInv
    <2>2. CASE v = w
        BY <1>2, <1>7, <1>8, <1>9, <1>10, <1>11, <2>2
    <2> QED
        BY <2>1, <2>2
<1>12. ASSUME \/ \E r \in Raws : IngestRecord(r)
              \/ \E r \in Raws, decision \in {"accept", "reject"} : Decide(r, decision)
              \/ UNCHANGED vars
       PROVE  OwnersCarry' /\ ChosenCarry'
    <2>1. UNCHANGED <<owner, pc, rawRecords, pos, person>>
        BY <1>12 DEF IngestRecord, Decide, vars
    <2> QED
        BY <1>2, <1>5, <2>1 DEF ChosenCarry
<1>13. QED BY <1>6, <1>11, <1>12 DEF Next, CarryInv, ChosenCarry

-----------------------------------------------------------------------------
(***************************************************************************)
(* Lookups.                                                                *)
(***************************************************************************)

\* A lookup under way has found the one person its known records have.
Found(q) ==
    \A r \in lookups[q].known :
        /\ owner[r] # None
        /\ lookups[q].pc \in {"links", "answer"} => lookups[q].person = owner[r]
        /\ lookups[q].pc = "answer" =>
               [key |-> Key(r), person |-> owner[r]] \in lookups[q].links

LookupInv == \A q \in Readers : lookups[q] \in LookupType /\ Found(q)

\* The only person with an identifier is the one of the records carrying it.
LEMMA OnlyOwner ==
    ASSUME SerialInv, CarryInv, NEW field \in Fields, NEW value \in Values,
           NEW r \in Attributed(field, value)
    PROVE  WithIdentifier(field, value) = {owner[r]}
<1>1. value # None
    BY NoneAssumption
<1>2. r \in Raws /\ owner[r] # None /\ Ids(r)[field] = value
    BY DEF Attributed
<1>3. owner[r] \in people /\ identifiers[owner[r]][field] = value
    BY <1>1, <1>2 DEF SerialInv, LinkInv, OwnerLinked, CarryInv, OwnersCarry, Carries
<1>4. \A p \in people : identifiers[p][field] = value => p = owner[r]
    BY <1>1, <1>3 DEF SerialInv, NoDuplicatePerson
<1>5. QED BY <1>3, <1>4 DEF WithIdentifier

\* Steps of the runs leave what a lookup has found true.
LEMMA FoundKept ==
    ASSUME SerialInv, [Next]_vars, UNCHANGED lookups, LookupInv
    PROVE  LookupInv'
<1>1. Stable
    BY NextStable DEF SerialInv
<1>2. \A r : Key(r)' = Key(r)
    BY PayloadKept DEF Key
<1>3. \A q \in Readers : lookups[q].known \subseteq Raws
    BY DEF LookupInv, LookupType
<1>4. QED BY <1>1, <1>2, <1>3 DEF LookupInv, Found, Stable

\* And so do the steps of lookups.
LEMMA FoundByStep ==
    ASSUME SerialInv, CarryInv, LookupTypeOK', LookupInv,
           NEW q \in Readers, LookupStep(q)
    PROVE  LookupInv'
<1>1. UNCHANGED vars
    BY DEF LookupStep, LookupPerson, LookupNobody, FindLinks, EndLookup
<1>2. UNCHANGED owner /\ \A r : Key(r)' = Key(r)
    BY <1>1 DEF vars, environmentVars, Key
<1>3. \A p \in Readers : lookups'[p] \in LookupType
    BY DEF LookupTypeOK
<1>4. DOMAIN lookups' = Readers
    BY DEF LookupTypeOK
<1>5. ASSUME NEW v, lookups' = [lookups EXCEPT ![q] = v],
             \A r \in v.known :
                 /\ owner[r] # None
                 /\ v.pc \in {"links", "answer"} => v.person = owner[r]
                 /\ v.pc = "answer" => [key |-> Key(r), person |-> owner[r]] \in v.links
      PROVE  LookupInv'
    <2>1. ASSUME NEW p \in Readers PROVE Found(p)'
        <3>1. CASE p = q
            <4>1. lookups'[p] = v
                BY <1>4, <1>5, <3>1
            <4> QED
                BY <1>2, <1>5, <4>1 DEF Found
        <3>2. CASE p # q
            <4>1. lookups'[p] = lookups[p]
                BY <1>5, <3>2
            <4> QED
                BY <1>2, <4>1 DEF Found, LookupInv
        <3> QED
            BY <3>1, <3>2
    <2> QED
        BY <1>3, <2>1 DEF LookupInv
<1>6. ASSUME NEW field \in LookupFields, NEW value \in Values,
             LookupPerson(q, field, value)
      PROVE  LookupInv'
    <2>1. PICK p \in WithIdentifier(field, value) :
              lookups' = [lookups EXCEPT ![q] =
                  [pc |-> "links", person |-> p, links |-> {},
                   known |-> Attributed(field, value)]]
        BY <1>6 DEF LookupPerson
    <2>2. \A r \in Attributed(field, value) : owner[r] # None /\ p = owner[r]
        BY <2>1, OnlyOwner, LookupAssumption DEF Attributed
    <2> DEFINE v == [pc |-> "links", person |-> p, links |-> {},
                     known |-> Attributed(field, value)]
    <2>3. /\ lookups' = [lookups EXCEPT ![q] = v]
          /\ v.pc = "links" /\ v.person = p /\ v.known = Attributed(field, value)
        BY <2>1
    <2> HIDE DEF v
    <2> QED
        BY <1>5, <2>2, <2>3
<1>7. ASSUME NEW field \in LookupFields, NEW value \in Values,
             LookupNobody(q, field, value)
      PROVE  LookupInv'
    <2>1. Attributed(field, value) = {}
        BY <1>7, OnlyOwner, LookupAssumption DEF LookupNobody
    <2> DEFINE v == [pc |-> "answer", person |-> None, links |-> {}, known |-> {}]
    <2>2. lookups' = [lookups EXCEPT ![q] = v] /\ v.known = {}
        BY <1>7, <2>1 DEF LookupNobody, Answer
    <2> HIDE DEF v
    <2> QED
        BY <1>5, <2>2
<1>8. CASE FindLinks(q)
    <2> DEFINE l == {m \in links : m.person = lookups[q].person}
    <2>1. /\ lookups[q].pc = "links"
          /\ lookups' = [lookups EXCEPT ![q] =
                 [pc |-> "answer", person |-> lookups[q].person, links |-> l,
                  known |-> lookups[q].known]]
        BY <1>8 DEF FindLinks, Answer
    <2>2. \A r \in lookups[q].known :
              r \in Raws /\ owner[r] # None /\ lookups[q].person = owner[r]
        BY <2>1 DEF LookupInv, Found, LookupType
    <2>3. \A r \in lookups[q].known : [key |-> Key(r), person |-> owner[r]] \in l
        BY <2>2 DEF SerialInv, LinkInv, OwnerLinked
    <2> HIDE DEF l
    <2> DEFINE v == [pc |-> "answer", person |-> lookups[q].person, links |-> l,
                     known |-> lookups[q].known]
    <2>4. /\ lookups' = [lookups EXCEPT ![q] = v]
          /\ v.pc = "answer" /\ v.person = lookups[q].person /\ v.links = l
          /\ v.known = lookups[q].known
        BY <2>1
    <2> HIDE DEF v
    <2> QED
        BY <1>5, <2>2, <2>3, <2>4
<1>9. CASE EndLookup(q)
    <2>1. lookups' = [lookups EXCEPT ![q] = NoLookup] /\ NoLookup.known = {}
        BY <1>9 DEF EndLookup, NoLookup
    <2> QED
        BY <1>5, <2>1
<1>10. QED BY <1>6, <1>7, <1>8, <1>9 DEF LookupStep

\* With one run at a time, and payloads whose sharing is transitive and agrees, a
\* lookup answers with the person and the link of every record attributed before
\* it that carries the identifier, and never with "not found".
THEOREM LookupFinds ==
    ASSUME OneRun, SharingIsTransitive, SharingAgrees
    PROVE  LookupSpec => []LookupFindsResolved
<1>1. Spec => []SerialInv
    BY SerialInvariant
<1>2. LookupInit => CarryInv /\ LookupInv
    <2>1. Init => CarryInv
        BY DEF Init, CarryInv, OwnersCarry, ChosenCarry
    <2>2. LookupInit => LookupInv
        BY DEF LookupInit, LookupInv, LookupType, NoLookup, Found
    <2> QED
        BY <2>1, <2>2 DEF LookupInit
<1>3. SerialInv /\ CarryInv /\ LookupInv /\ LookupTypeOK' /\ [LookupNext]_lookupVars
          => CarryInv' /\ LookupInv'
    <2> SUFFICES ASSUME SerialInv, CarryInv, LookupInv, LookupTypeOK', [LookupNext]_lookupVars
                 PROVE  CarryInv' /\ LookupInv'
        OBVIOUS
    <2>1. CASE UNCHANGED lookups /\ [Next]_vars
        BY <2>1, NextCarryInv, FoundKept
    <2>2. ASSUME NEW q \in Readers, LookupStep(q) PROVE CarryInv' /\ LookupInv'
        <3>1. UNCHANGED vars
            BY <2>2 DEF LookupStep, LookupPerson, LookupNobody, FindLinks, EndLookup
        <3> QED
            BY <2>2, <3>1, NextCarryInv, FoundByStep
    <2> QED
        BY <2>1, <2>2 DEF LookupNext, lookupVars
<1>4. LookupInv => LookupFindsResolved
    BY DEF LookupInv, Found, LookupFindsResolved
<1>5. QED BY <1>1, <1>2, <1>3, <1>4, LookupTypes, RunsAreUndisturbed, PTL DEF LookupSpec
=============================================================================
