--------------------------- MODULE MCAssetLifecycle ---------------------------
(***************************************************************************)
(* Instances of AssetLifecycle for TLC.                                    *)
(***************************************************************************)
EXTENDS AssetLifecycle, TLC

CallSymmetry == Permutations(Calls) \cup Permutations(Locations \ {Origin})
=============================================================================
