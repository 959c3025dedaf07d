-------------------------------- MODULE Lookup --------------------------------
(***************************************************************************)
(* Lookups by e-mail address or phone beside the resolve runs: GET         *)
(* /v1/lookup/... and the TUI read the people collection and then, in a    *)
(* second call, the links of the person they found.  Whatever the runs do  *)
(* in between is in the answer or is not.  Identifiers stand for what both *)
(* sides make of them: extractIdentifiers and ByEmail trim an e-mail       *)
(* address and lower its case alike.                                       *)
(***************************************************************************)
EXTENDS Resolve

CONSTANTS
    Readers,       \* lookups that may be under way at once
    LookupFields   \* the identifier fields with a lookup, e.g. email, phone

ASSUME LookupAssumption == LookupFields \subseteq Fields

VARIABLE lookups   \* lookups[q]: what the lookup has asked, found and answered

lookupVars == <<vars, lookups>>

\* known is history: the records whose attribution the lookup comes after.
LookupType ==
    [pc: {"idle", "links", "answer"}, person: Persons \cup {None},
     links: SUBSET [key: Keys, person: Persons], known: SUBSET Raws]

NoLookup == [pc |-> "idle", person |-> None, links |-> {}, known |-> {}]

\* The filter of FindPersonWithLinksByEmail or ...ByPhone.
WithIdentifier(field, value) == {p \in people : identifiers[p][field] = value}

\* The attributed records that carry the identifier.
Attributed(field, value) == {r \in Raws : owner[r] # None /\ Ids(r)[field] = value}

LookupInit == Init /\ lookups = [q \in Readers |-> NoLookup]

Answer(q, known, found, foundLinks) ==
    lookups' = [lookups EXCEPT ![q] =
        [pc |-> "answer", person |-> found, links |-> foundLinks, known |-> known]]

\* FindOne without a sort: any person with the identifier.
LookupPerson(q, field, value) ==
    /\ lookups[q].pc = "idle"
    /\ \E p \in WithIdentifier(field, value) :
          lookups' = [lookups EXCEPT ![q] =
              [pc |-> "links", person |-> p, links |-> {},
               known |-> Attributed(field, value)]]
    /\ UNCHANGED vars

LookupNobody(q, field, value) ==
    /\ lookups[q].pc = "idle"
    /\ WithIdentifier(field, value) = {}
    /\ Answer(q, Attributed(field, value), None, {})
    /\ UNCHANGED vars

FindLinks(q) ==
    /\ lookups[q].pc = "links"
    /\ Answer(q, lookups[q].known, lookups[q].person,
              {l \in links : l.person = lookups[q].person})
    /\ UNCHANGED vars

\* The answer has been read, or a call of the lookup has failed.
EndLookup(q) ==
    /\ lookups[q].pc \in {"links", "answer"}
    /\ lookups' = [lookups EXCEPT ![q] = NoLookup]
    /\ UNCHANGED vars

LookupStep(q) ==
    \/ \E field \in LookupFields, value \in Values :
          LookupPerson(q, field, value) \/ LookupNobody(q, field, value)
    \/ FindLinks(q)
    \/ EndLookup(q)

LookupNext ==
    \/ Next /\ UNCHANGED lookups
    \/ \E q \in Readers : LookupStep(q)

LookupSpec == LookupInit /\ [][LookupNext]_lookupVars

LookupFairSpec == LookupSpec /\ Fairness

-----------------------------------------------------------------------------
LookupTypeOK == TypeOK /\ lookups \in [Readers -> LookupType]

\* A lookup that comes after the attribution of a record carrying the
\* identifier answers with that record's person, and with its link, whatever
\* the runs write between the lookup's two reads.
LookupFindsResolved ==
    \A q \in Readers : lookups[q].pc = "answer" =>
        \A r \in lookups[q].known :
            /\ lookups[q].person = owner[r]
            /\ [key |-> Key(r), person |-> owner[r]] \in lookups[q].links
=============================================================================
