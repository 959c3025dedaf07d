----------------------------- MODULE Attribution -----------------------------
(***************************************************************************)
(* What resolving promises, whatever the number of runs and failures: an   *)
(* external key is bound to a person once and for all, and a raw record is *)
(* attributed, once and for all, to the person its key is bound to.        *)
(***************************************************************************)
CONSTANTS Raws, Persons, Keys, None

VARIABLES
    keyOf,    \* keyOf[r]: the external key of raw record r
    binding,  \* binding[k]: the people that key k is bound to
    owner     \* owner[r]: the person record r is attributed to

vars == <<keyOf, binding, owner>>

Init ==
    /\ keyOf \in [Raws -> Keys]
    /\ binding = [k \in Keys |-> {}]
    /\ owner = [r \in Raws |-> None]

\* An unbound key gets its one person.
Bind(k, p) ==
    /\ binding[k] = {}
    /\ binding' = [binding EXCEPT ![k] = {p}]
    /\ UNCHANGED <<keyOf, owner>>

\* An unattributed record gets the person of its key.
Attribute(r, p) ==
    /\ owner[r] = None
    /\ p \in binding[keyOf[r]]
    /\ owner' = [owner EXCEPT ![r] = p]
    /\ UNCHANGED <<keyOf, binding>>

Next ==
    \/ \E k \in Keys, p \in Persons : Bind(k, p)
    \/ \E r \in Raws, p \in Persons : Attribute(r, p)

Spec == Init /\ [][Next]_vars
=============================================================================
