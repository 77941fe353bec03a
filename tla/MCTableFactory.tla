--------------------------- MODULE MCTableFactory ---------------------------
(***************************************************************************)
(* Instances of TableFactory for TLC.                                      *)
(***************************************************************************)
EXTENDS TableFactory, TLC

\* Objects and channels are memory: any two may change places.
Symmetry == Permutations(Vtab) \cup Permutations(Channel)
=============================================================================
