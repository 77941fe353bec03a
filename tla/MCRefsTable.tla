----------------------------- MODULE MCRefsTable -----------------------------
(***************************************************************************)
(* Instances of RefsTable for TLC.                                         *)
(***************************************************************************)
EXTENDS RefsTable, TLC

CONSTANTS a, b, here, there

Ref(kind, location) == [kind |-> kind, location |-> location]

\* One symbol with a declaration and, elsewhere, a definition, which is a
\* declaration as well; one symbol with a single unspelled use.
MCRefs ==
  (a :> {Ref({"Declaration", "Spelled"}, here),
         Ref({"Declaration", "Definition", "Spelled"}, there)})
  @@ (b :> {Ref({"Reference"}, here)})

Con(iColumn, op, usable) == [iColumn |-> iColumn, op |-> op, usable |-> usable]
Id_EQ == Con(0, "EQ", TRUE)

\* WHERE clauses: SymbolId alone; with each kind column and with all four; with
\* both of the columns that share a flag; with a column only SQLite tests;
\* two equalities on SymbolId; an unusable one; kinds without a symbol; nothing
\* the table can use.
MCConstraintLists ==
  {<<Id_EQ>>} \cup {<<Id_EQ, Con(k, "EQ", TRUE)>> : k \in 1..4}
  \cup { <<Id_EQ, Con(1, "EQ", TRUE), Con(2, "EQ", TRUE), Con(3, "EQ", TRUE), Con(4, "EQ", TRUE)>>,
         <<Con(2, "EQ", TRUE), Con(1, "EQ", TRUE), Id_EQ>>,
         <<Con(3, "NE", TRUE), Id_EQ, Con(PathColumn, "EQ", TRUE)>>,
         <<Id_EQ, Id_EQ>>,
         <<Con(0, "EQ", FALSE), Id_EQ, Con(4, "EQ", FALSE)>>,
         <<Con(2, "EQ", TRUE), Con(3, "EQ", TRUE)>>,
         <<Con(0, "NE", TRUE)>> }
=============================================================================
