------------------------------- MODULE Journal -------------------------------
(***************************************************************************)
(* What the history of identity documents promises, whichever saves        *)
(* overlap or fail: entries are only added, at most one for each version   *)
(* of a document, the first version as its creation; and a save is         *)
(* acknowledged in the step, and only in the step, that adds its entry.    *)
(***************************************************************************)
CONSTANT Editors

VARIABLES
    journal,  \* the entries so far
    receipt   \* receipt[e]: the entry that e's call is acknowledged with, if any

vars == <<journal, receipt>>

Init ==
    /\ journal = {}
    /\ receipt = [e \in Editors |-> {}]

\* A new entry is added and handed to the call that made it.
Record(e) ==
    \E entry \in journal' :
        /\ \A h \in journal : ~(h.id = entry.id /\ h.version = entry.version)
        /\ entry.event = "created" <=> entry.version = 1
        /\ journal' = journal \cup {entry}
        /\ receipt[e] = {}
        /\ receipt' = [receipt EXCEPT ![e] = {entry}]

\* The call has answered.
Answer(e) ==
    /\ receipt[e] # {}
    /\ receipt' = [receipt EXCEPT ![e] = {}]
    /\ UNCHANGED journal

Next == \E e \in Editors : Record(e) \/ Answer(e)

Spec == Init /\ [][Next]_vars
=============================================================================
