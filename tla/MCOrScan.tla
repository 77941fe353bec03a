------------------------------ MODULE MCOrScan ------------------------------
(***************************************************************************)
(* Instances of OrScan for TLC: words of five bits, row ids from -16 to 15. *)
(***************************************************************************)
EXTENDS OrScan

\* Two ids strtoll can represent, one of them the largest, and two it cannot.
MCSymbolIds == {1, 15, 17, 28}

\* Three pairs with an even sum, which have the row ids 0, 4 and 3; one with an
\* odd sum and the row id 0 again; and one on which the arithmetic overflows.
MCPairs == {<<0, 0>>, <<1, 1>>, <<2, 0>>, <<1, 0>>, <<20, 30>>}
=============================================================================
