-------------------------------- MODULE Ledger --------------------------------
(***************************************************************************)
(* What numbering assets promises, whichever calls overlap, are refused,   *)
(* fail or stop: a series gives out the numbers 1, 2, 3, ... one after the *)
(* other, and all of them to the tenant that asked for the first one.      *)
(*                                                                         *)
(* docs/ASSET_MANAGEMENT_SPEC.md and docs/ASSET_QUICK_REFERENCE.md give a  *)
(* series the serials 0001 to 9999, its Capacity here.  The code does not  *)
(* keep to that: Overrun, the one number beyond, is what it does and not   *)
(* what the documents say.                                                 *)
(***************************************************************************)
EXTENDS Naturals

CONSTANTS Tenants, Series, Capacity

VARIABLES
    issued,  \* issued[s]: the numbers of series s given out so far
    holder   \* holder[s]: the tenants they were given to

vars == <<issued, holder>>

Init ==
    /\ issued = [s \in Series |-> {}]
    /\ holder = [s \in Series |-> {}]

\* Tenant t gets the number after the last one of series s, up to Capacity.
Issue(s, t, n) ==
    /\ issued[s] = 1..(n - 1)
    /\ holder[s] \subseteq {t}
    /\ issued' = [issued EXCEPT ![s] = 1..n]
    /\ holder' = [holder EXCEPT ![s] = {t}]

\* Against the documents, tenant t gets one number, 10000, of the used-up series
\* s; none follows it.
Overrun(s, t) ==
    /\ issued[s] = 1..Capacity
    /\ holder[s] \subseteq {t}
    /\ issued' = [issued EXCEPT ![s] = 1..(Capacity + 1)]
    /\ holder' = [holder EXCEPT ![s] = {t}]

Next ==
    \E s \in Series, t \in Tenants :
        \/ \E n \in 1..Capacity : Issue(s, t, n)
        \/ Overrun(s, t)

Spec == Init /\ [][Next]_vars
=============================================================================
