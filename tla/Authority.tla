------------------------------ MODULE Authority ------------------------------
(***************************************************************************)
(* What API keys promise, whoever issues, revokes and uses them at once:   *)
(* a key is granted to one tenant for good and withdrawn once; a call is   *)
(* admitted under a key only while the key is in force; and every write    *)
(* under a key is made for the key's own tenant by a call that was         *)
(* admitted so, which uses its admission up.                               *)
(***************************************************************************)
CONSTANTS Keys, Tenants, Callers, Times, Nothing

VARIABLES
    grants,    \* grants[k]: the tenant of key k and when it was withdrawn
    admitted,  \* admitted[c]: the key that call c is admitted under, if any
    writings   \* the keys written under, each with the tenant written for

vars == <<grants, admitted, writings>>

Init ==
    /\ grants = [k \in Keys |-> Nothing]
    /\ admitted = [c \in Callers |-> {}]
    /\ writings = {}

InForce(k) == grants[k] # Nothing /\ grants[k].revokedAt = Nothing

Grant(k, t) ==
    /\ grants[k] = Nothing
    /\ grants' = [grants EXCEPT ![k] = [tenant |-> t, revokedAt |-> Nothing]]
    /\ UNCHANGED <<admitted, writings>>

Withdraw(k, at) ==
    /\ InForce(k)
    /\ grants' = [grants EXCEPT ![k].revokedAt = at]
    /\ UNCHANGED <<admitted, writings>>

Admit(c, k) ==
    /\ admitted[c] = {}
    /\ InForce(k)
    /\ admitted' = [admitted EXCEPT ![c] = {k}]
    /\ UNCHANGED <<grants, writings>>

\* The call writes, although its key may have been withdrawn by now.
Use(c, k) ==
    /\ k \in admitted[c]
    /\ writings' = writings \cup {[by |-> k, tenant |-> grants[k].tenant]}
    /\ admitted' = [admitted EXCEPT ![c] = {}]
    /\ UNCHANGED grants

\* Some calls end without having written.
Drop(lost) ==
    /\ UNCHANGED <<grants, writings>>
    /\ admitted' = [c \in Callers |-> IF c \in lost THEN {} ELSE admitted[c]]

Next ==
    \/ \E lost \in SUBSET Callers : Drop(lost)
    \/ \E k \in Keys : (\E t \in Tenants : Grant(k, t)) \/ (\E at \in Times : Withdraw(k, at))
    \/ \E c \in Callers, k \in Keys : Admit(c, k) \/ Use(c, k)

Spec == Init /\ [][Next]_vars
=============================================================================
