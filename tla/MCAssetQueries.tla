---------------------------- MODULE MCAssetQueries ----------------------------
(***************************************************************************)
(* Instances of AssetQueries for TLC.                                      *)
(***************************************************************************)
EXTENDS AssetQueries, TLC

CONSTANT K1

\* One value of each field stands for them all.
SomeFilters == [class: {K1, Blank}, status: {Active, Blank}]

\* Assets differ only in what Init gives them.
Symmetry == Permutations(Assets)
=============================================================================
