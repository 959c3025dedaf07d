------------------------------ MODULE MCResolve ------------------------------
(***************************************************************************)
(* Instances of Resolve for TLC: the payloads of each scenario, symmetry.  *)
(***************************************************************************)
EXTENDS Resolve, TLC

CONSTANTS a, b,   \* identifier values
          k       \* an external reference

RunSymmetry == Permutations(Raws) \cup Permutations(Persons) \cup Permutations(Resolvers)

Sent(nationalId, email, ref) ==
    [ids |-> [f \in Fields |-> IF f = "nationalId" THEN nationalId ELSE email],
     ref |-> ref]

\* Records that share identifiers, contradict each other over the person
\* behind one external reference, or name no identifier at all.
ConflictingPayloads ==
    {Sent(a, None, k), Sent(None, b, k), Sent(a, b, None), Sent(None, None, None)}

\* One identifier per record, so that sharing is transitive and agrees, and no
\* reference is used for two people.
ConsistentPayloads ==
    {Sent(a, None, k), Sent(None, b, None), Sent(None, None, None)}
=============================================================================
