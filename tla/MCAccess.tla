------------------------------- MODULE MCAccess -------------------------------
(***************************************************************************)
(* Instances of Access for TLC.                                            *)
(***************************************************************************)
EXTENDS Access, TLC

CONSTANTS acme, zen

\* The slug of one tenant, the same in capitals, another tenant's slug, and
\* text that is no slug.
MCSpellings ==
    {[slug |-> acme, form |-> "slug"], [slug |-> acme, form |-> "folded"],
     [slug |-> zen, form |-> "slug"], [slug |-> zen, form |-> "malformed"]}

\* One token; with a leeway of 1 it is in force from time 1 on, and for good.
MCJwts == {[tenant |-> [slug |-> acme, form |-> "slug"],
            issued |-> 1, notBefore |-> 2, expires |-> None]}

AccessSymmetry ==
    Permutations(Calls) \cup Permutations(KeyIds) \cup Permutations(Sessions)
        \cup Permutations(DisplayNames)
=============================================================================
