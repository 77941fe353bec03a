----------------------------- MODULE MCMessages -----------------------------
(***************************************************************************)
(* An instance of Messages for TLC: two objects of any of the sixteen types.  *)
(***************************************************************************)
EXTENDS Messages, TLC

CONSTANTS x, y

MCObj == {x, y}
MCSymmetry == Permutations(MCObj)
=============================================================================
