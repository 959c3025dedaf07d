------------------------------- MODULE MCLookup -------------------------------
(***************************************************************************)
(* The instance of Resolve with consistent payloads, and lookups beside    *)
(* its runs.                                                               *)
(***************************************************************************)
EXTENDS Lookup, MCResolve

ASSUME ConsistencyAssumption == SharingIsTransitive /\ SharingAgrees
=============================================================================
