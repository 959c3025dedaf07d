-------------------------- MODULE IdentityDocuments --------------------------
(***************************************************************************)
(* Identity documents of one tenant and their history: concurrent calls of *)
(* IdentityDocumentService.Save, from the admin page and from the TUI.     *)
(*                                                                         *)
(* A call makes up to four database calls, each one atomic step: it counts *)
(* the person, reads the stored document, writes the document, and inserts *)
(* a snapshot into the history.  Other calls run in between, and any of    *)
(* the four may fail and end the call.  What a call saves is whatever its  *)
(* form holds, a copy read long ago included.                              *)
(*                                                                         *)
(* Definitions marked "Fault" are wrong variants of the definition after   *)
(* them, used only to show that a property notices.                        *)
(***************************************************************************)
EXTENDS Naturals, FiniteSets

CONSTANTS
    Documents,    \* document ids that a creation may draw (bound)
    People,       \* person ids
    Contents,     \* what a document says, verification fields included
    Editors,      \* calls of Save that may be under way at once
    MaxSaves,     \* how many calls are made (bound)
    MaxFailures,  \* how many database calls may fail (bound)
    None

ASSUME BoundAssumption == MaxSaves \in Nat /\ MaxFailures \in Nat
ASSUME NoneAssumption == None \notin Documents
ASSUME FormAssumption == People # {} /\ Contents # {}

VARIABLES
    people,    \* person ids in the people collection
    stored,    \* stored[d]: the document in identity_documents, version 0 if none
    history,   \* identity_document_history
    pc,        \* pc[e]: the next database call of e
    draft,     \* draft[e]: the document e is saving
    isNew,     \* isNew[e]: its form had no document id
    saves,     \* calls made so far
    failures   \* database calls that have failed so far

vars == <<people, stored, history, pc, draft, isNew, saves, failures>>

\* The part of a document that the model keeps.
Document == [person: People, content: Contents, version: Nat]
Draft == [id: Documents \cup {None}, person: People, content: Contents, version: Nat]
Entry == [id: Documents, event: {"created", "updated"}, version: Nat, snapshot: Document]
PCs == {"idle", "count", "insert", "read", "replace", "record", "saved"}

Saved(e) == [person |-> draft[e].person, content |-> draft[e].content,
             version |-> draft[e].version]
Exists(d) == stored[d].version > 0
Recorded(d, v) == \E h \in history : h.id = d /\ h.version = v

TypeOK ==
    /\ people \subseteq People
    /\ stored \in [Documents -> Document]
    /\ history \subseteq Entry
    /\ pc \in [Editors -> PCs]
    /\ draft \in [Editors -> Draft]
    /\ isNew \in [Editors -> BOOLEAN]
    /\ saves \in 0..MaxSaves
    /\ failures \in 0..MaxFailures

SomePerson == CHOOSE p \in People : TRUE
SomeContent == CHOOSE c \in Contents : TRUE
Blank == [person |-> SomePerson, content |-> SomeContent, version |-> 0]
BlankDraft == [id |-> None, person |-> SomePerson, content |-> SomeContent, version |-> 0]

Init ==
    /\ people \in SUBSET People
    /\ stored = [d \in Documents |-> Blank]
    /\ history = {}
    /\ pc = [e \in Editors |-> "idle"]
    /\ draft = [e \in Editors |-> BlankDraft]
    /\ isNew = [e \in Editors |-> FALSE]
    /\ saves = 0
    /\ failures = 0

-----------------------------------------------------------------------------
GoTo(e, label) == pc' = [pc EXCEPT ![e] = label]

ClearSave(e) ==
    /\ GoTo(e, "idle")
    /\ draft' = [draft EXCEPT ![e] = BlankDraft]
    /\ isNew' = [isNew EXCEPT ![e] = FALSE]

\* A form that passes the service's validation is submitted.
Save(e) ==
    /\ pc[e] = "idle"
    /\ saves < MaxSaves
    /\ saves' = saves + 1
    /\ \E d \in Documents \cup {None}, p \in People, c \in Contents :
          /\ draft' = [draft EXCEPT ![e] =
                          [id |-> d, person |-> p, content |-> c, version |-> 0]]
          /\ isNew' = [isNew EXCEPT ![e] = (d = None)]
    /\ GoTo(e, "count")
    /\ UNCHANGED <<people, stored, history, failures>>

CountPerson(e) ==
    /\ pc[e] = "count"
    /\ draft[e].person \in people
    /\ GoTo(e, IF isNew[e] THEN "insert" ELSE "read")
    /\ UNCHANGED <<people, stored, history, draft, isNew, saves, failures>>

PersonNotFound(e) ==
    /\ pc[e] = "count"
    /\ draft[e].person \notin people
    /\ ClearSave(e)
    /\ UNCHANGED <<people, stored, history, saves, failures>>

\* The document id is fresh: nothing stored has it and no form names it.
InsertDocument(e) ==
    /\ pc[e] = "insert"
    /\ \E d \in Documents :
          /\ ~Exists(d)
          /\ \A f \in Editors : draft[f].id # d
          /\ draft' = [draft EXCEPT ![e].id = d, ![e].version = 1]
          /\ stored' = [stored EXCEPT ![d] = [Saved(e) EXCEPT !.version = 1]]
    /\ GoTo(e, "record")
    /\ UNCHANGED <<people, history, isNew, saves, failures>>

\* Fault: the version skips a number.
ReadSkippingVersion(e) ==
    /\ pc[e] = "read"
    /\ Exists(draft[e].id)
    /\ draft' = [draft EXCEPT ![e].version = stored[draft[e].id].version + 2]
    /\ GoTo(e, "replace")
    /\ UNCHANGED <<people, stored, history, isNew, saves, failures>>

ReadExisting(e) ==
    /\ pc[e] = "read"
    /\ Exists(draft[e].id)
    /\ draft' = [draft EXCEPT ![e].version = stored[draft[e].id].version + 1]
    /\ GoTo(e, "replace")
    /\ UNCHANGED <<people, stored, history, isNew, saves, failures>>

DocumentNotFound(e) ==
    /\ pc[e] = "read"
    /\ ~Exists(draft[e].id)
    /\ ClearSave(e)
    /\ UNCHANGED <<people, stored, history, saves, failures>>

\* ReplaceOne names the document and not the version that was read.
ReplaceDocument(e) ==
    /\ pc[e] = "replace"
    /\ stored' = [stored EXCEPT ![draft[e].id] = Saved(e)]
    /\ GoTo(e, "record")
    /\ UNCHANGED <<people, history, draft, isNew, saves, failures>>

\* Fault: the event type is one word for creations and updates alike.
SnapshotUnmapped(e) == [id |-> draft[e].id, event |-> "saved",
                        version |-> draft[e].version, snapshot |-> Saved(e)]

Snapshot(e) == [id |-> draft[e].id,
                event |-> IF isNew[e] THEN "created" ELSE "updated",
                version |-> draft[e].version,
                snapshot |-> Saved(e)]

RecordHistory(e) ==
    /\ pc[e] = "record"
    /\ ~Recorded(draft[e].id, draft[e].version)
    /\ history' = history \cup {Snapshot(e)}
    /\ GoTo(e, "saved")
    /\ UNCHANGED <<people, stored, draft, isNew, saves, failures>>

\* Fault: the error of the history insert is dropped.
RecordConflictIgnored(e) ==
    /\ pc[e] = "record"
    /\ Recorded(draft[e].id, draft[e].version)
    /\ GoTo(e, "saved")
    /\ UNCHANGED <<people, stored, history, draft, isNew, saves, failures>>

\* The unique index over tenant, document and version refuses the snapshot:
\* the call returns an error, the document stays replaced.
RecordConflict(e) ==
    /\ pc[e] = "record"
    /\ Recorded(draft[e].id, draft[e].version)
    /\ ClearSave(e)
    /\ UNCHANGED <<people, stored, history, saves, failures>>

Return(e) ==
    /\ pc[e] = "saved"
    /\ ClearSave(e)
    /\ UNCHANGED <<people, stored, history, saves, failures>>

Fail(e) ==
    /\ pc[e] \notin {"idle", "saved"}
    /\ failures < MaxFailures
    /\ failures' = failures + 1
    /\ ClearSave(e)
    /\ UNCHANGED <<people, stored, history, saves>>

\* A resolve run creates people while documents are being saved.
PersonAppears(p) ==
    /\ p \notin people
    /\ people' = people \cup {p}
    /\ UNCHANGED <<stored, history, pc, draft, isNew, saves, failures>>

SaveStep(e) ==
    \/ CountPerson(e)
    \/ PersonNotFound(e)
    \/ InsertDocument(e)
    \/ ReadExisting(e)
    \/ DocumentNotFound(e)
    \/ ReplaceDocument(e)
    \/ RecordHistory(e)
    \/ RecordConflict(e)
    \/ Return(e)

Next ==
    \/ \E e \in Editors : Save(e) \/ SaveStep(e) \/ Fail(e)
    \/ \E p \in People : PersonAppears(p)

Spec == Init /\ [][Next]_vars

-----------------------------------------------------------------------------
(***************************************************************************)
(* Safety.                                                                 *)
(***************************************************************************)

\* Version v of document d has its snapshot, or a call that is about to record it.
Covered(d, v) ==
    \/ Recorded(d, v)
    \/ \E e \in Editors : pc[e] = "record" /\ draft[e].id = d /\ draft[e].version = v

\* A call that reports success has its very document in the history, under
\* the version it reports.
AcknowledgedIsRecorded ==
    \A e \in Editors : pc[e] = "saved" => Snapshot(e) \in history

\* Two calls never report the same version of the same document.
AcknowledgedVersionsDiffer ==
    \A e, f \in Editors :
        /\ e # f /\ pc[e] = "saved" /\ pc[f] = "saved"
        /\ draft[e].id = draft[f].id
        => draft[e].version # draft[f].version

\* Every version up to the stored one is in the history or about to be offered
\* to it, but for one version at most for each database call that failed.
HistoryGapless ==
    Cardinality({g \in UNION {{d} \X (1..stored[d].version) : d \in Documents} :
                    ~Covered(g[1], g[2])}) <= failures

\* The trail of a document begins with its creation and has one: what is
\* recorded or stored names people that exist.
HistoryWellFounded ==
    /\ \A h \in history : h.event = "created" <=> h.version = 1
    /\ \A h \in history : h.snapshot.person \in people
    /\ \A d \in Documents : Exists(d) => stored[d].person \in people

\* Every stored document that no call is working on has its snapshot.
EveryUpdateRecorded ==
    \A d \in Documents :
        Exists(d) /\ (\A e \in Editors : draft[e].id # d)
            => \E h \in history : h.id = d /\ h.snapshot = stored[d]

(***************************************************************************)
(* Refinement.                                                             *)
(***************************************************************************)
Trail == INSTANCE Journal WITH
    journal <- history,
    receipt <- [e \in Editors |-> IF pc[e] = "saved" THEN {Snapshot(e)} ELSE {}]

\* Overlapping and failing saves keep the history as one journal would.
ImplementsJournal == Trail!Spec
=============================================================================
