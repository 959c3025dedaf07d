--------------------------- MODULE MCAssetNumbering ---------------------------
(***************************************************************************)
(* Instances of AssetNumbering for TLC.                                    *)
(***************************************************************************)
EXTENDS AssetNumbering, TLC

CallSymmetry ==
    Permutations(Tenants) \cup Permutations(Series) \cup Permutations(Calls)
=============================================================================
