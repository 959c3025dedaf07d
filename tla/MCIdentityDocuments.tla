------------------------- MODULE MCIdentityDocuments -------------------------
(***************************************************************************)
(* Instances of IdentityDocuments for TLC.                                 *)
(***************************************************************************)
EXTENDS IdentityDocuments, TLC

EditSymmetry == Permutations(Documents) \cup Permutations(Editors)
=============================================================================
