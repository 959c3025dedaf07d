----------------------- MODULE IdentityDocumentsProofs -----------------------
(***************************************************************************)
(* What holds of IdentityDocuments for every number of documents, people,  *)
(* editors and failures.                                                   *)
(***************************************************************************)
EXTENDS IdentityDocuments, FiniteSetTheorems, TLAPS

-----------------------------------------------------------------------------
(***************************************************************************)
(* Type correctness.                                                       *)
(***************************************************************************)

\* Past the count a call knows its document, unless it is about to insert it.
DocumentKnown ==
    \A e \in Editors :
        /\ pc[e] = "count" => (isNew[e] <=> draft[e].id = None)
        /\ pc[e] \in {"read", "replace", "record", "saved"} => draft[e].id \in Documents

TypeInv == TypeOK /\ DocumentKnown

\* The empty document and the empty draft are well-formed.
LEMMA BlankType ==
    /\ Blank \in Document
    /\ BlankDraft \in Draft
<1>1. SomePerson \in People /\ SomeContent \in Contents
    BY FormAssumption DEF SomePerson, SomeContent
<1>2. QED BY <1>1 DEF Blank, BlankDraft, Document, Draft

\* What a save writes is the document it has drafted.
LEMMA SavedType ==
    ASSUME TypeOK, NEW e \in Editors
    PROVE  /\ Saved(e) \in Document
           /\ Saved(e).person = draft[e].person
           /\ Saved(e).content = draft[e].content
           /\ Saved(e).version = draft[e].version
BY DEF TypeOK, Saved, Document, Draft

\* The snapshot of a save is a well-formed entry of the history.
LEMMA SnapshotType ==
    ASSUME TypeOK, NEW e \in Editors, draft[e].id \in Documents
    PROVE  Snapshot(e) \in Entry
BY SavedType DEF TypeOK, Snapshot, Entry, Draft

\* Giving up a save keeps the types.
LEMMA ClearSaveType ==
    ASSUME TypeInv, NEW e \in Editors, ClearSave(e),
           UNCHANGED <<people, stored, history, saves>>, failures' \in 0..MaxFailures
    PROVE  TypeInv'
BY BlankType DEF TypeInv, TypeOK, DocumentKnown, ClearSave, GoTo, PCs

\* The values a form may hold.
LEMMA SaveType ==
    ASSUME TypeInv, NEW e \in Editors, Save(e)
    PROVE  TypeInv'
<1>1. PICK d \in Documents \cup {None}, p \in People, c \in Contents :
         /\ draft' = [draft EXCEPT ![e] =
                         [id |-> d, person |-> p, content |-> c, version |-> 0]]
         /\ isNew' = [isNew EXCEPT ![e] = (d = None)]
    BY DEF Save
<1>2. [id |-> d, person |-> p, content |-> c, version |-> 0] \in Draft
    BY DEF Draft
<1>3. draft' \in [Editors -> Draft] /\ draft'[e].id = d
    BY <1>1, <1>2 DEF TypeInv, TypeOK
<1>4. isNew' \in [Editors -> BOOLEAN] /\ (isNew'[e] <=> d = None)
    BY <1>1 DEF TypeInv, TypeOK
<1>5. saves' \in 0..MaxSaves
    BY BoundAssumption DEF Save, TypeInv, TypeOK
<1>6. /\ UNCHANGED <<people, stored, history, failures>>
      /\ pc' = [pc EXCEPT ![e] = "count"]
      /\ \A f \in Editors : f # e => draft'[f] = draft[f] /\ isNew'[f] = isNew[f]
    BY <1>1 DEF Save, GoTo, TypeInv, TypeOK
<1>7. DocumentKnown'
    BY <1>3, <1>4, <1>6 DEF TypeInv, TypeOK, DocumentKnown
<1>8. QED BY <1>3, <1>4, <1>5, <1>6, <1>7 DEF TypeInv, TypeOK, PCs

\* Inserting a new document keeps the types.
LEMMA InsertDocumentType ==
    ASSUME TypeInv, NEW e \in Editors, InsertDocument(e)
    PROVE  TypeInv'
<1>1. PICK d \in Documents :
         /\ draft' = [draft EXCEPT ![e].id = d, ![e].version = 1]
         /\ stored' = [stored EXCEPT ![d] = [Saved(e) EXCEPT !.version = 1]]
    BY DEF InsertDocument
<1>2. draft' \in [Editors -> Draft] /\ draft'[e].id = d
    BY <1>1 DEF TypeInv, TypeOK, Draft
<1>3. [Saved(e) EXCEPT !.version = 1] \in Document
    BY SavedType DEF TypeInv, Document
<1>4. stored' \in [Documents -> Document]
    BY <1>1, <1>3 DEF TypeInv, TypeOK
<1>5. QED
    BY <1>1, <1>2, <1>4 DEF InsertDocument, GoTo, PCs, TypeInv, TypeOK, DocumentKnown

\* Every step keeps the types.
LEMMA NextTypeInv == TypeInv /\ [Next]_vars => TypeInv'
<1> SUFFICES ASSUME TypeInv, [Next]_vars PROVE TypeInv'
    OBVIOUS
<1> USE DEF GoTo, PCs
<1>1. ASSUME NEW e \in Editors, Save(e) PROVE TypeInv'
    BY <1>1, SaveType
<1>2. ASSUME NEW e \in Editors, CountPerson(e) PROVE TypeInv'
    <2>1. isNew[e] \in BOOLEAN /\ (~isNew[e] => draft[e].id \in Documents)
        BY <1>2 DEF CountPerson, TypeInv, TypeOK, DocumentKnown, Draft
    <2>2. QED BY <1>2, <2>1 DEF CountPerson, TypeInv, TypeOK, DocumentKnown
<1>3. ASSUME NEW e \in Editors,
             PersonNotFound(e) \/ DocumentNotFound(e) \/ RecordConflict(e) \/ Return(e)
      PROVE  TypeInv'
    <2>1. failures' \in 0..MaxFailures
        BY <1>3 DEF PersonNotFound, DocumentNotFound, RecordConflict, Return, TypeInv, TypeOK
    <2>2. QED
        BY <1>3, <2>1, ClearSaveType DEF PersonNotFound, DocumentNotFound, RecordConflict, Return
<1>4. ASSUME NEW e \in Editors, InsertDocument(e) PROVE TypeInv'
    BY <1>4, InsertDocumentType
<1>5. ASSUME NEW e \in Editors, ReadExisting(e) PROVE TypeInv'
    <2>1. stored[draft[e].id].version \in Nat
        BY <1>5 DEF ReadExisting, TypeInv, TypeOK, DocumentKnown, Document
    <2>2. draft' \in [Editors -> Draft] /\ \A f \in Editors : draft'[f].id = draft[f].id
        BY <1>5, <2>1 DEF ReadExisting, TypeInv, TypeOK, Draft
    <2>3. QED BY <1>5, <2>2 DEF ReadExisting, TypeInv, TypeOK, DocumentKnown
<1>6. ASSUME NEW e \in Editors, ReplaceDocument(e) PROVE TypeInv'
    <2>1. Saved(e) \in Document
        BY SavedType DEF TypeInv
    <2>2. QED BY <1>6, <2>1 DEF ReplaceDocument, TypeInv, TypeOK, DocumentKnown
<1>7. ASSUME NEW e \in Editors, RecordHistory(e) PROVE TypeInv'
    <2>1. Snapshot(e) \in Entry
        BY <1>7, SnapshotType DEF RecordHistory, TypeInv, DocumentKnown
    <2>2. QED BY <1>7, <2>1 DEF RecordHistory, TypeInv, TypeOK, DocumentKnown
<1>8. ASSUME NEW e \in Editors, Fail(e) PROVE TypeInv'
    <2>1. failures' \in 0..MaxFailures
        BY <1>8, BoundAssumption DEF Fail, TypeInv, TypeOK
    <2>2. QED BY <1>8, <2>1, ClearSaveType DEF Fail
<1>9. ASSUME NEW p \in People, PersonAppears(p) PROVE TypeInv'
    BY <1>9 DEF PersonAppears, TypeInv, TypeOK, DocumentKnown
<1>10. CASE UNCHANGED vars
    BY <1>10 DEF vars, TypeInv, TypeOK, DocumentKnown
<1>11. QED
    BY <1>1, <1>2, <1>3, <1>4, <1>5, <1>6, <1>7, <1>8, <1>9, <1>10 DEF Next, SaveStep

\* The types hold in every reachable state.
LEMMA TypeInvariant == Spec => []TypeInv
<1>1. Init => TypeInv
    BY BlankType, BoundAssumption DEF Init, TypeInv, TypeOK, DocumentKnown, PCs
<1>2. QED BY <1>1, NextTypeInv, PTL DEF Spec

\* The collections and every call's locals keep their types.
THEOREM TypeCorrect == Spec => []TypeOK
<1>1. TypeInv => TypeOK
    BY DEF TypeInv
<1>2. QED BY <1>1, TypeInvariant, PTL

-----------------------------------------------------------------------------
(***************************************************************************)
(* The history.  A call that reports success still has its snapshot there, *)
(* which is why another call of the same version is refused.               *)
(***************************************************************************)
RecordInv == AcknowledgedIsRecorded /\ AcknowledgedVersionsDiffer

\* A step that leaves the history alone and takes no call to "saved".
LEMMA RecordsKept ==
    ASSUME RecordInv, history' = history,
           \A f \in Editors : pc'[f] = "saved" =>
               pc[f] = "saved" /\ draft'[f] = draft[f] /\ isNew'[f] = isNew[f]
    PROVE  RecordInv'
<1>1. \A f \in Editors : pc'[f] = "saved" => Snapshot(f)' = Snapshot(f)
    BY DEF Snapshot, Saved
<1>2. AcknowledgedIsRecorded'
    BY <1>1 DEF RecordInv, AcknowledgedIsRecorded
<1>3. QED BY <1>2 DEF RecordInv, AcknowledgedVersionsDiffer

\* Recording a snapshot keeps one snapshot per version.
LEMMA RecordHistoryRecords ==
    ASSUME TypeInv, RecordInv, NEW e \in Editors, RecordHistory(e)
    PROVE  RecordInv'
<1>1. PICK h \in Entry : h = Snapshot(e) /\ h.id = draft[e].id /\ h.version = draft[e].version
    <2>1. Snapshot(e) \in Entry
        BY SnapshotType DEF RecordHistory, TypeInv, DocumentKnown
    <2>2. Snapshot(e).id = draft[e].id /\ Snapshot(e).version = draft[e].version
        BY DEF Snapshot
    <2>3. QED BY <2>1, <2>2
<1>2. /\ history' = history \cup {h}
      /\ UNCHANGED <<draft, isNew>>
      /\ \A f \in Editors : pc'[f] = "saved" <=> (pc[f] = "saved" \/ f = e)
      /\ \A g \in history : ~(g.id = h.id /\ g.version = h.version)
    BY <1>1 DEF RecordHistory, Recorded, GoTo, TypeInv, TypeOK
<1>3. \A f \in Editors : Snapshot(f)' = Snapshot(f)
    BY <1>2 DEF Snapshot, Saved
<1>4. AcknowledgedIsRecorded'
    BY <1>1, <1>2, <1>3 DEF RecordInv, AcknowledgedIsRecorded
<1>5. \A f \in Editors : pc[f] = "saved" => ~(draft[f].id = h.id /\ draft[f].version = h.version)
    <2> SUFFICES ASSUME NEW f \in Editors, pc[f] = "saved"
                 PROVE  ~(draft[f].id = h.id /\ draft[f].version = h.version)
        OBVIOUS
    <2>1. Snapshot(f) \in history
        BY DEF RecordInv, AcknowledgedIsRecorded
    <2>2. Snapshot(f).id = draft[f].id /\ Snapshot(f).version = draft[f].version
        BY DEF Snapshot
    <2>3. QED BY <1>2, <2>1, <2>2
<1>6. AcknowledgedVersionsDiffer'
    BY <1>1, <1>2, <1>5 DEF RecordInv, AcknowledgedVersionsDiffer
<1>7. QED BY <1>4, <1>6 DEF RecordInv

\* Every step keeps the record invariant.
LEMMA NextRecordInv == TypeInv /\ RecordInv /\ [Next]_vars => RecordInv'
<1> SUFFICES ASSUME TypeInv, RecordInv, [Next]_vars PROVE RecordInv'
    OBVIOUS
<1> USE DEF GoTo, ClearSave
<1>1. ASSUME NEW e \in Editors, RecordHistory(e) PROVE RecordInv'
    BY <1>1, RecordHistoryRecords
<1>2. ASSUME NEW e \in Editors,
             \/ Save(e) \/ PersonNotFound(e) \/ InsertDocument(e) \/ DocumentNotFound(e)
             \/ CountPerson(e) \/ RecordConflict(e) \/ Return(e) \/ Fail(e)
      PROVE  RecordInv'
    <2>1. /\ history' = history
          /\ pc'[e] # "saved"
          /\ \A f \in Editors : f # e =>
                pc'[f] = pc[f] /\ draft'[f] = draft[f] /\ isNew'[f] = isNew[f]
        BY <1>2 DEF Save, PersonNotFound, InsertDocument, DocumentNotFound, CountPerson,
                    RecordConflict, Return, Fail, TypeInv, TypeOK
    <2>2. QED BY <2>1, RecordsKept
<1>3. ASSUME NEW e \in Editors, ReadExisting(e) \/ ReplaceDocument(e) PROVE RecordInv'
    <2>1. /\ history' = history
          /\ pc'[e] # "saved"
          /\ \A f \in Editors : f # e =>
                pc'[f] = pc[f] /\ draft'[f] = draft[f] /\ isNew'[f] = isNew[f]
        BY <1>3 DEF ReadExisting, ReplaceDocument, TypeInv, TypeOK
    <2>2. QED BY <2>1, RecordsKept
<1>4. ASSUME NEW p \in People, PersonAppears(p) PROVE RecordInv'
    BY <1>4, RecordsKept DEF PersonAppears
<1>5. CASE UNCHANGED vars
    BY <1>5, RecordsKept DEF vars
<1>6. QED BY <1>1, <1>2, <1>3, <1>4, <1>5 DEF Next, SaveStep

\* The record invariant holds in every reachable state.
LEMMA RecordInvariant == Spec => []RecordInv
<1>1. Init => RecordInv
    BY DEF Init, RecordInv, AcknowledgedIsRecorded,
           AcknowledgedVersionsDiffer
<1>2. TypeInv /\ RecordInv /\ [Next]_vars => RecordInv'
    BY NextRecordInv
<1>3. QED BY <1>1, <1>2, TypeInvariant, PTL DEF Spec

\* A save that is reported as successful is in the history as it was saved.
THEOREM AcknowledgedSavesAreRecorded == Spec => []AcknowledgedIsRecorded
<1>1. RecordInv => AcknowledgedIsRecorded
    BY DEF RecordInv
<1>2. QED BY <1>1, RecordInvariant, PTL

\* No two calls report the same version of a document.
THEOREM AcknowledgedSavesDiffer == Spec => []AcknowledgedVersionsDiffer
<1>1. RecordInv => AcknowledgedVersionsDiffer
    BY DEF RecordInv
<1>2. QED BY <1>1, RecordInvariant, PTL

-----------------------------------------------------------------------------
(***************************************************************************)
(* Versions.  A version is reached when it is stored, or when a call about *)
(* to replace the document has read it; the stored version alone would not *)
(* do, since a late replacement takes it back.  A version reached and not  *)
(* covered is a gap, and only a failure makes one: the call that holds the *)
(* version otherwise records it or finds it recorded.                      *)
(***************************************************************************)
Reached(d, v) ==
    \/ v <= stored[d].version
    \/ \E e \in Editors : pc[e] = "replace" /\ draft[e].id = d /\ v < draft[e].version

Gaps == {g \in Documents \X (Nat \ {0}) : Reached(g[1], g[2]) /\ ~Covered(g[1], g[2])}

VersionInv == IsFiniteSet(Gaps) /\ Cardinality(Gaps) <= failures

\* A version loses its cover only by a failure of the call that held it.
LEMMA CoverageKept ==
    ASSUME TypeInv, [Next]_vars, NEW d, NEW v, Covered(d, v), ~Covered(d, v)'
    PROVE  \E e \in Editors : Fail(e) /\ draft[e].id = d /\ draft[e].version = v
<1> USE DEF GoTo, ClearSave, Covered, Recorded
<1>1. ASSUME NEW e \in Editors,
             history \subseteq history',
             pc[e] = "record" =>
                 \E h \in history' : h.id = draft[e].id /\ h.version = draft[e].version,
             \A f \in Editors : f # e => pc'[f] = pc[f] /\ draft'[f] = draft[f]
      PROVE  FALSE
    BY <1>1
<1>2. ASSUME NEW e \in Editors,
             \/ Save(e) \/ CountPerson(e) \/ PersonNotFound(e) \/ InsertDocument(e)
             \/ ReadExisting(e) \/ DocumentNotFound(e) \/ ReplaceDocument(e) \/ Return(e)
      PROVE  FALSE
    <2>1. /\ history' = history
          /\ pc[e] # "record"
          /\ \A f \in Editors : f # e => pc'[f] = pc[f] /\ draft'[f] = draft[f]
        BY <1>2 DEF Save, CountPerson, PersonNotFound, InsertDocument, ReadExisting,
                    DocumentNotFound, ReplaceDocument, Return, TypeInv, TypeOK
    <2>2. QED BY <1>1, <2>1
<1>3. ASSUME NEW e \in Editors, RecordHistory(e) PROVE FALSE
    <2>1. /\ history' = history \cup {Snapshot(e)} /\ draft' = draft
          /\ \A f \in Editors : f # e => pc'[f] = pc[f]
          /\ Snapshot(e).id = draft[e].id /\ Snapshot(e).version = draft[e].version
        BY <1>3 DEF RecordHistory, TypeInv, TypeOK, Snapshot
    <2>2. QED BY <1>1, <2>1
<1>4. ASSUME NEW e \in Editors, RecordConflict(e) PROVE FALSE
    <2>1. /\ history' = history
          /\ Recorded(draft[e].id, draft[e].version)
          /\ \A f \in Editors : f # e => pc'[f] = pc[f] /\ draft'[f] = draft[f]
        BY <1>4 DEF RecordConflict, TypeInv, TypeOK
    <2>2. \E h \in history : h.id = draft[e].id /\ h.version = draft[e].version
        BY <2>1
    <2>3. QED BY <1>1, <2>1, <2>2
<1>5. ASSUME NEW e \in Editors, Fail(e)
      PROVE  draft[e].id = d /\ draft[e].version = v
    <2>1. /\ history' = history
          /\ \A f \in Editors : f # e => pc'[f] = pc[f] /\ draft'[f] = draft[f]
        BY <1>5 DEF Fail, TypeInv, TypeOK
    <2>2. QED BY <2>1
<1>6. CASE UNCHANGED vars \/ \E p \in People : PersonAppears(p)
    BY <1>6 DEF vars, PersonAppears
<1>7. QED BY <1>2, <1>3, <1>4, <1>5, <1>6 DEF Next, SaveStep

\* A version that a step reaches is covered after it.
LEMMA ReachedIsCovered ==
    ASSUME TypeInv, [Next]_vars, NEW d \in Documents, NEW v \in Nat \ {0},
           Reached(d, v)', ~Reached(d, v)
    PROVE  Covered(d, v)'
<1> USE DEF GoTo, ClearSave, Reached
<1>1. ASSUME NEW e \in Editors,
             \/ Save(e) \/ CountPerson(e) \/ PersonNotFound(e) \/ DocumentNotFound(e)
             \/ RecordHistory(e) \/ RecordConflict(e) \/ Return(e) \/ Fail(e)
      PROVE  FALSE
    <2>1. /\ stored' = stored
          /\ pc'[e] # "replace"
          /\ \A f \in Editors : f # e => pc'[f] = pc[f] /\ draft'[f] = draft[f]
        BY <1>1 DEF Save, CountPerson, PersonNotFound, DocumentNotFound, RecordHistory,
                    RecordConflict, Return, Fail, TypeInv, TypeOK
    <2>2. QED BY <2>1
<1>2. ASSUME NEW e \in Editors, InsertDocument(e) PROVE Covered(d, v)'
    <2>1. PICK c \in Documents :
             /\ draft' = [draft EXCEPT ![e].id = c, ![e].version = 1]
             /\ stored' = [stored EXCEPT ![c] = [Saved(e) EXCEPT !.version = 1]]
        BY <1>2 DEF InsertDocument
    <2>2. /\ draft'[e].id = c /\ draft'[e].version = 1 /\ pc'[e] = "record"
          /\ stored'[c].version = 1
          /\ \A b \in Documents : b # c => stored'[b] = stored[b]
          /\ \A f \in Editors : f # e => pc'[f] = pc[f] /\ draft'[f] = draft[f]
        BY <1>2, <2>1 DEF InsertDocument, TypeInv, TypeOK, Draft, Saved
    <2>3. d = c /\ v <= 1
        BY <2>2
    <2>4. v = 1
        BY <2>3
    <2>5. QED BY <2>2, <2>3, <2>4 DEF Covered
<1>3. ASSUME NEW e \in Editors, ReadExisting(e) PROVE FALSE
    <2>1. draft[e].id \in Documents /\ stored[draft[e].id].version \in Nat
        BY <1>3 DEF ReadExisting, TypeInv, TypeOK, DocumentKnown, Document
    <2>2. /\ stored' = stored
          /\ draft'[e].id = draft[e].id
          /\ draft'[e].version = stored[draft[e].id].version + 1
          /\ \A f \in Editors : f # e => pc'[f] = pc[f] /\ draft'[f] = draft[f]
        BY <1>3 DEF ReadExisting, TypeInv, TypeOK, Draft
    <2>3. d = draft[e].id /\ v < stored[d].version + 1
        BY <2>2
    <2>4. QED BY <2>1, <2>3
<1>4. ASSUME NEW e \in Editors, ReplaceDocument(e) PROVE Covered(d, v)'
    <2>1. PICK c \in Documents, n \in Nat : c = draft[e].id /\ n = draft[e].version
        BY <1>4 DEF ReplaceDocument, TypeInv, TypeOK, DocumentKnown, Draft
    <2>2. /\ stored' = [stored EXCEPT ![c] = Saved(e)]
          /\ draft' = draft /\ pc[e] = "replace" /\ pc'[e] = "record"
          /\ \A f \in Editors : f # e => pc'[f] = pc[f]
          /\ Saved(e).version = n
        BY <1>4, <2>1 DEF ReplaceDocument, TypeInv, TypeOK, Saved
    <2>3. d = c /\ v <= n
        BY <2>1, <2>2 DEF TypeInv, TypeOK
    <2>4. ~(v < n)
        BY <2>1, <2>2, <2>3
    <2>5. v = n
        BY <2>3, <2>4
    <2>6. QED BY <2>1, <2>2, <2>3, <2>5 DEF Covered
<1>5. CASE UNCHANGED vars \/ \E p \in People : PersonAppears(p)
    BY <1>5 DEF vars, PersonAppears
<1>6. QED BY <1>1, <1>2, <1>3, <1>4, <1>5 DEF Next, SaveStep

\* A step adds no gap, or the one of the call that fails in it.
LEMMA GapsGrow ==
    ASSUME TypeInv, [Next]_vars
    PROVE  \/ Gaps' \subseteq Gaps /\ failures' = failures
           \/ \E g : Gaps' \subseteq Gaps \cup {g} /\ failures' = failures + 1
<1>1. ASSUME NEW g \in Gaps', g \notin Gaps
      PROVE  \E e \in Editors : Fail(e) /\ g = <<draft[e].id, draft[e].version>>
    <2>1. PICK d \in Documents, v \in Nat \ {0} :
             g = <<d, v>> /\ Reached(d, v)' /\ ~Covered(d, v)'
        BY <1>1 DEF Gaps
    <2>2. Reached(d, v)
        BY <2>1, ReachedIsCovered
    <2>3. Covered(d, v)
        BY <1>1, <2>1, <2>2 DEF Gaps
    <2>4. QED BY <2>1, <2>3, CoverageKept
<1>2. CASE \E e \in Editors : Fail(e)
    <2>1. PICK e \in Editors : Fail(e)
        BY <1>2
    <2>2. \A f \in Editors : Fail(f) => f = e
        BY <2>1 DEF Fail, ClearSave, GoTo, TypeInv, TypeOK
    <2>3. Gaps' \subseteq Gaps \cup {<<draft[e].id, draft[e].version>>}
        BY <1>1, <2>2
    <2>4. failures' = failures + 1
        BY <2>1 DEF Fail
    <2>5. QED BY <2>3, <2>4
<1>3. CASE ~ \E e \in Editors : Fail(e)
    <2>1. Gaps' \subseteq Gaps
        BY <1>1, <1>3
    <2>2. failures' = failures
        BY <1>3 DEF Next, SaveStep, Save, CountPerson, PersonNotFound, InsertDocument,
               ReadExisting, DocumentNotFound, ReplaceDocument, RecordHistory, RecordConflict,
               Return, PersonAppears, vars
    <2>3. QED BY <2>1, <2>2
<1>4. QED BY <1>2, <1>3

\* A set that grows by one element at most counts one more at most.
LEMMA OneMore ==
    ASSUME NEW S, NEW T, NEW x, IsFiniteSet(S), T \subseteq S \cup {x}
    PROVE  /\ IsFiniteSet(T) /\ Cardinality(T) \in Nat /\ Cardinality(S) \in Nat
           /\ Cardinality(T) <= Cardinality(S) + 1
           /\ T \subseteq S => Cardinality(T) <= Cardinality(S)
<1>1. /\ IsFiniteSet(S \cup {x})
      /\ Cardinality(S \cup {x}) = IF x \in S THEN Cardinality(S) ELSE Cardinality(S) + 1
    BY FS_AddElement
<1>2. /\ IsFiniteSet(T)
      /\ Cardinality(T) <= Cardinality(S \cup {x})
      /\ T \subseteq S => Cardinality(T) <= Cardinality(S)
    BY <1>1, FS_Subset
<1>3. Cardinality(T) \in Nat /\ Cardinality(S) \in Nat
    BY <1>2, FS_CardinalityType
<1>4. QED BY <1>1, <1>2, <1>3

\* Every step keeps the gaps within the failures.
LEMMA NextVersionInv == TypeInv /\ VersionInv /\ [Next]_vars => VersionInv'
<1> SUFFICES ASSUME TypeInv, VersionInv, [Next]_vars PROVE VersionInv'
    OBVIOUS
<1>1. failures \in Nat
    BY BoundAssumption DEF TypeInv, TypeOK
<1>2. CASE Gaps' \subseteq Gaps /\ failures' = failures
    <2>1. IsFiniteSet(Gaps') /\ Cardinality(Gaps') \in Nat /\ Cardinality(Gaps) \in Nat
          /\ Cardinality(Gaps') <= Cardinality(Gaps)
        BY <1>2, OneMore DEF VersionInv
    <2>2. QED BY <1>1, <1>2, <2>1 DEF VersionInv
<1>3. CASE \E g : Gaps' \subseteq Gaps \cup {g} /\ failures' = failures + 1
    <2>1. IsFiniteSet(Gaps') /\ Cardinality(Gaps') \in Nat /\ Cardinality(Gaps) \in Nat
          /\ Cardinality(Gaps') <= Cardinality(Gaps) + 1
        BY <1>3, OneMore DEF VersionInv
    <2>2. QED BY <1>1, <1>3, <2>1 DEF VersionInv
<1>4. QED BY <1>2, <1>3, GapsGrow

\* The gaps in the histories of documents are never more than the failures,
\* whichever calls overtake each other or take a stored version back.
THEOREM HistoriesHaveNoGap == Spec => []HistoryGapless
<1>1. Init => VersionInv
    <2> SUFFICES ASSUME Init PROVE VersionInv
        OBVIOUS
    <2>1. Gaps = {} /\ failures = 0
        BY DEF Init, Gaps, Reached, Blank
    <2>2. QED BY <2>1, FS_EmptySet DEF VersionInv
<1>2. TypeInv /\ VersionInv /\ [Next]_vars => VersionInv'
    BY NextVersionInv
<1>3. TypeInv /\ VersionInv => HistoryGapless
    <2> SUFFICES ASSUME TypeInv, VersionInv PROVE HistoryGapless
        OBVIOUS
    <2> DEFINE Missing == {g \in UNION {{d} \X (1..stored[d].version) : d \in Documents} :
                              ~Covered(g[1], g[2])}
    <2>1. \A d \in Documents : stored[d].version \in Nat
        BY DEF TypeInv, TypeOK, Document
    <2>2. Missing \subseteq Gaps
        BY <2>1 DEF Gaps, Reached
    <2>3. Cardinality(Missing) \in Nat /\ Cardinality(Gaps) \in Nat
          /\ Cardinality(Missing) <= Cardinality(Gaps)
        BY <2>2, OneMore DEF VersionInv
    <2>4. failures \in Nat
        BY BoundAssumption DEF TypeInv, TypeOK
    <2>5. Cardinality(Missing) <= failures
        BY <2>3, <2>4 DEF VersionInv
    <2>6. QED BY <2>5 DEF HistoryGapless
<1>4. QED BY <1>1, <1>2, <1>3, TypeInvariant, PTL DEF Spec

-----------------------------------------------------------------------------
(***************************************************************************)
(* The history is well founded: a call past the count has a person that    *)
(* exists, creates version 1 and updates later ones.                       *)
(***************************************************************************)
DraftFounded ==
    \A e \in Editors :
        /\ pc[e] \in {"replace", "record"} => (isNew[e] <=> draft[e].version = 1)
        /\ pc[e] \in {"read", "replace"} => ~isNew[e]
        /\ pc[e] = "insert" => isNew[e]
        /\ pc[e] \in {"insert", "read", "replace", "record"} => draft[e].person \in people

FoundedInv == HistoryWellFounded /\ DraftFounded

\* A call that starts, ends or goes away stores and records nothing.
LEMMA FoundedKept ==
    ASSUME FoundedInv, people \subseteq people', UNCHANGED <<stored, history>>,
           \A f \in Editors :
              \/ pc'[f] \in {"idle", "count", "saved"}
              \/ pc'[f] = pc[f] /\ draft'[f] = draft[f] /\ isNew'[f] = isNew[f]
    PROVE  FoundedInv'
<1>1. HistoryWellFounded'
    BY DEF FoundedInv, HistoryWellFounded, Exists
<1>2. DraftFounded'
    BY DEF FoundedInv, DraftFounded
<1>3. QED BY <1>1, <1>2 DEF FoundedInv

\* Every step keeps drafts and history founded on a person that exists.
LEMMA NextFoundedInv == TypeInv /\ FoundedInv /\ [Next]_vars => FoundedInv'
<1> SUFFICES ASSUME TypeInv, FoundedInv, [Next]_vars PROVE FoundedInv'
    OBVIOUS
<1> USE DEF GoTo, ClearSave
<1>1. ASSUME NEW e \in Editors,
             \/ Save(e) \/ PersonNotFound(e) \/ DocumentNotFound(e) \/ RecordConflict(e)
             \/ Return(e) \/ Fail(e)
      PROVE  FoundedInv'
    <2>1. /\ UNCHANGED <<people, stored, history>>
          /\ pc'[e] \in {"idle", "count"}
          /\ \A f \in Editors : f # e =>
                pc'[f] = pc[f] /\ draft'[f] = draft[f] /\ isNew'[f] = isNew[f]
        BY <1>1 DEF Save, PersonNotFound, DocumentNotFound, RecordConflict, Return, Fail,
                    TypeInv, TypeOK
    <2>2. QED BY <2>1, FoundedKept
<1>2. ASSUME NEW e \in Editors, CountPerson(e) PROVE FoundedInv'
    <2>1. /\ UNCHANGED <<people, stored, history, draft, isNew>>
          /\ draft[e].person \in people
          /\ pc'[e] = IF isNew[e] THEN "insert" ELSE "read"
          /\ \A f \in Editors : f # e => pc'[f] = pc[f]
        BY <1>2 DEF CountPerson, TypeInv, TypeOK
    <2>2. HistoryWellFounded'
        BY <2>1 DEF FoundedInv, HistoryWellFounded, Exists
    <2>3. DraftFounded'
        BY <2>1 DEF FoundedInv, DraftFounded, TypeInv, TypeOK
    <2>4. QED BY <2>2, <2>3 DEF FoundedInv
<1>3. ASSUME NEW e \in Editors, InsertDocument(e) PROVE FoundedInv'
    <2>1. PICK d \in Documents :
             /\ draft' = [draft EXCEPT ![e].id = d, ![e].version = 1]
             /\ stored' = [stored EXCEPT ![d] = [Saved(e) EXCEPT !.version = 1]]
        BY <1>3 DEF InsertDocument
    <2>2. isNew[e] /\ draft[e].person \in people
        BY <1>3 DEF InsertDocument, FoundedInv, DraftFounded
    <2>3. /\ UNCHANGED <<people, history, isNew>> /\ pc'[e] = "record"
          /\ draft'[e].version = 1 /\ draft'[e].person = draft[e].person
          /\ stored'[d].person = draft[e].person
          /\ \A c \in Documents : c # d => stored'[c] = stored[c]
          /\ \A f \in Editors : f # e => pc'[f] = pc[f] /\ draft'[f] = draft[f]
        BY <1>3, <2>1 DEF InsertDocument, TypeInv, TypeOK, Draft, Saved
    <2>4. HistoryWellFounded'
        BY <2>2, <2>3 DEF FoundedInv, HistoryWellFounded, Exists
    <2>5. DraftFounded'
        BY <2>2, <2>3 DEF FoundedInv, DraftFounded
    <2>6. QED BY <2>4, <2>5 DEF FoundedInv
<1>4. ASSUME NEW e \in Editors, ReadExisting(e) PROVE FoundedInv'
    <2>1. /\ draft[e].id \in Documents
          /\ stored[draft[e].id].version \in Nat /\ stored[draft[e].id].version > 0
        BY <1>4 DEF ReadExisting, Exists, TypeInv, TypeOK, DocumentKnown, Document
    <2>2. ~isNew[e] /\ draft[e].person \in people
        BY <1>4 DEF ReadExisting, FoundedInv, DraftFounded
    <2>3. /\ UNCHANGED <<people, stored, history, isNew>> /\ pc'[e] = "replace"
          /\ draft'[e].version = stored[draft[e].id].version + 1
          /\ draft'[e].person = draft[e].person
          /\ \A f \in Editors : f # e => pc'[f] = pc[f] /\ draft'[f] = draft[f]
        BY <1>4 DEF ReadExisting, TypeInv, TypeOK, Draft
    <2>4. HistoryWellFounded'
        BY <2>3 DEF FoundedInv, HistoryWellFounded, Exists
    <2>5. draft'[e].version # 1
        BY <2>1, <2>3
    <2>6. DraftFounded'
        BY <2>2, <2>3, <2>5 DEF FoundedInv, DraftFounded
    <2>7. QED BY <2>4, <2>6 DEF FoundedInv
<1>5. ASSUME NEW e \in Editors, ReplaceDocument(e) PROVE FoundedInv'
    <2>1. draft[e].person \in people /\ ~isNew[e] /\ draft[e].version # 1
        BY <1>5 DEF ReplaceDocument, FoundedInv, DraftFounded
    <2>2. /\ UNCHANGED <<people, history, isNew, draft>> /\ pc'[e] = "record"
          /\ \A c \in Documents : \/ stored'[c] = stored[c]
                                  \/ stored'[c].person = draft[e].person
          /\ \A f \in Editors : f # e => pc'[f] = pc[f]
        BY <1>5, SavedType DEF ReplaceDocument, TypeInv, TypeOK
    <2>3. HistoryWellFounded'
        BY <2>1, <2>2 DEF FoundedInv, HistoryWellFounded, Exists
    <2>4. DraftFounded'
        BY <2>1, <2>2 DEF FoundedInv, DraftFounded
    <2>5. QED BY <2>3, <2>4 DEF FoundedInv
<1>6. ASSUME NEW e \in Editors, RecordHistory(e) PROVE FoundedInv'
    <2>1. draft[e].person \in people /\ (isNew[e] <=> draft[e].version = 1)
        BY <1>6 DEF RecordHistory, FoundedInv, DraftFounded
    <2>2. /\ Snapshot(e).event = (IF isNew[e] THEN "created" ELSE "updated")
          /\ Snapshot(e).version = draft[e].version
          /\ Snapshot(e).snapshot.person = draft[e].person
        BY DEF Snapshot, Saved
    <2>3. Snapshot(e).event = "created" <=> Snapshot(e).version = 1
        BY <2>1, <2>2
    <2>4. /\ UNCHANGED <<people, stored, isNew, draft>> /\ pc'[e] = "saved"
          /\ history' = history \cup {Snapshot(e)}
          /\ \A f \in Editors : f # e => pc'[f] = pc[f]
        BY <1>6 DEF RecordHistory, TypeInv, TypeOK
    <2>5. HistoryWellFounded'
        BY <2>1, <2>2, <2>3, <2>4 DEF FoundedInv, HistoryWellFounded, Exists
    <2>6. DraftFounded'
        BY <2>4 DEF FoundedInv, DraftFounded
    <2>7. QED BY <2>5, <2>6 DEF FoundedInv
<1>7. CASE UNCHANGED vars \/ \E p \in People : PersonAppears(p)
    <2>1. people \subseteq people' /\ UNCHANGED <<stored, history, pc, draft, isNew>>
        BY <1>7 DEF vars, PersonAppears
    <2>2. QED BY <2>1, FoundedKept
<1>8. QED BY <1>1, <1>2, <1>3, <1>4, <1>5, <1>6, <1>7 DEF Next, SaveStep

\* The founded invariant holds in every reachable state.
LEMMA FoundedInvariant == Spec => []FoundedInv
<1>1. Init => FoundedInv
    BY DEF Init, FoundedInv, HistoryWellFounded, DraftFounded, Exists, Blank
<1>2. TypeInv /\ FoundedInv /\ [Next]_vars => FoundedInv'
    BY NextFoundedInv
<1>3. QED BY <1>1, <1>2, TypeInvariant, PTL DEF Spec

\* Creations are versions 1 and the other way round, and nothing stored or
\* recorded names a person that does not exist.
THEOREM HistoriesAreWellFounded == Spec => []HistoryWellFounded
<1>1. FoundedInv => HistoryWellFounded
    BY DEF FoundedInv
<1>2. QED BY <1>1, FoundedInvariant, PTL

-----------------------------------------------------------------------------
(***************************************************************************)
(* Refinement.  Only RecordHistory adds to the journal, and only Return    *)
(* takes a receipt back.                                                   *)
(***************************************************************************)
Receipt(e) == IF pc[e] = "saved" THEN {Snapshot(e)} ELSE {}

\* Recording a snapshot is the journal's step of the same call.
LEMMA RecordHistoryIsRecord ==
    ASSUME TypeInv, FoundedInv, NEW e \in Editors, RecordHistory(e)
    PROVE  Trail!Record(e)
<1>1. /\ history' = history \cup {Snapshot(e)}
      /\ UNCHANGED <<draft, isNew>>
      /\ pc[e] = "record" /\ pc'[e] = "saved"
      /\ \A f \in Editors : f # e => pc'[f] = pc[f]
    BY DEF RecordHistory, GoTo, TypeInv, TypeOK
<1>2. \A f \in Editors : Snapshot(f)' = Snapshot(f)
    BY <1>1 DEF Snapshot, Saved
<1>3. /\ Receipt(e) = {} /\ Receipt(e)' = {Snapshot(e)}
      /\ \A f \in Editors : f # e => Receipt(f)' = Receipt(f)
    BY <1>1, <1>2 DEF Receipt
<1>4. \A h \in history : ~(h.id = Snapshot(e).id /\ h.version = Snapshot(e).version)
    BY DEF RecordHistory, Recorded, Snapshot
<1>5. Snapshot(e).event = "created" <=> Snapshot(e).version = 1
    <2>1. isNew[e] <=> draft[e].version = 1
        BY <1>1 DEF FoundedInv, DraftFounded
    <2>2. QED BY <2>1 DEF Snapshot
<1>6. [f \in Editors |-> Receipt(f)'] = [[f \in Editors |-> Receipt(f)] EXCEPT ![e] = {Snapshot(e)}]
    BY <1>3
<1>7. Snapshot(e) \in history'
    BY <1>1
<1>8. QED BY <1>1, <1>3, <1>4, <1>5, <1>6, <1>7 DEF Trail!Record, Receipt

\* A call that returns success hands its receipt back.
LEMMA ReturnIsAnswer ==
    ASSUME TypeInv, NEW e \in Editors, Return(e)
    PROVE  Trail!Answer(e)
<1>1. /\ history' = history
      /\ pc[e] = "saved" /\ pc'[e] = "idle"
      /\ \A f \in Editors : f # e => /\ pc'[f] = pc[f]
                                      /\ draft'[f] = draft[f] /\ isNew'[f] = isNew[f]
    BY DEF Return, ClearSave, GoTo, TypeInv, TypeOK
<1>2. \A f \in Editors : f # e => Snapshot(f)' = Snapshot(f)
    BY <1>1 DEF Snapshot, Saved
<1>3. /\ Receipt(e) # {} /\ Receipt(e)' = {}
      /\ \A f \in Editors : f # e => Receipt(f)' = Receipt(f)
    BY <1>1, <1>2 DEF Receipt
<1>4. [f \in Editors |-> Receipt(f)'] = [[f \in Editors |-> Receipt(f)] EXCEPT ![e] = {}]
    BY <1>3
<1>5. QED BY <1>1, <1>3, <1>4 DEF Trail!Answer, Receipt

\* Every other step leaves the journal and the receipts alone.
LEMMA OthersKeepJournal ==
    ASSUME TypeInv, [Next]_vars, \A e \in Editors : ~RecordHistory(e) /\ ~Return(e)
    PROVE  UNCHANGED Trail!vars
<1> USE DEF GoTo, ClearSave
<1>1. /\ history' = history
      /\ \A f \in Editors :
            \/ pc[f] # "saved" /\ pc'[f] # "saved"
            \/ pc'[f] = pc[f] /\ draft'[f] = draft[f] /\ isNew'[f] = isNew[f]
    <2>1. ASSUME NEW e \in Editors, Save(e) \/ SaveStep(e) \/ Fail(e)
          PROVE  /\ history' = history
                 /\ pc[e] # "saved" /\ pc'[e] # "saved"
                 /\ \A f \in Editors : f # e => /\ pc'[f] = pc[f]
                                                 /\ draft'[f] = draft[f] /\ isNew'[f] = isNew[f]
        <3>1. CASE InsertDocument(e)
            BY <3>1 DEF InsertDocument, TypeInv, TypeOK
        <3>2. CASE ReadExisting(e) \/ ReplaceDocument(e) \/ CountPerson(e)
            BY <3>2 DEF ReadExisting, ReplaceDocument, CountPerson, TypeInv, TypeOK
        <3>3. CASE \/ Save(e) \/ PersonNotFound(e) \/ DocumentNotFound(e)
                   \/ RecordConflict(e) \/ Fail(e)
            BY <3>3 DEF Save, PersonNotFound, DocumentNotFound, RecordConflict, Fail, TypeInv,
                        TypeOK
        <3>4. QED BY <2>1, <3>1, <3>2, <3>3 DEF SaveStep
    <2>2. CASE UNCHANGED vars \/ \E p \in People : PersonAppears(p)
        BY <2>2 DEF vars, PersonAppears
    <2>3. QED BY <2>1, <2>2 DEF Next
<1>2. \A f \in Editors : Receipt(f)' = Receipt(f)
    BY <1>1 DEF Receipt, Snapshot, Saved
<1>3. [f \in Editors |-> Receipt(f)'] = [f \in Editors |-> Receipt(f)]
    BY <1>2
<1>4. QED BY <1>1, <1>3 DEF Trail!vars, Receipt

\* However saves overlap and fail, the history only grows, by one entry at a
\* time that no earlier one contradicts, and a call reports success exactly
\* when it has added its entry.
THEOREM SavesImplementJournal == Spec => ImplementsJournal
<1>1. Init => Trail!Init
    BY DEF Init, Trail!Init
<1>2. TypeInv /\ FoundedInv /\ [Next]_vars => [Trail!Next]_Trail!vars
    BY RecordHistoryIsRecord, ReturnIsAnswer, OthersKeepJournal DEF Trail!Next
<1>3. QED
    BY <1>1, <1>2, TypeInvariant, FoundedInvariant, PTL
       DEF Spec, ImplementsJournal, Trail!Spec
=============================================================================
