--------------------------- MODULE MCSymbolsTable ---------------------------
(***************************************************************************)
(* Instances of SymbolsTable for TLC.                                      *)
(***************************************************************************)
EXTENDS SymbolsTable, TLC

CONSTANTS a, b, c, foo, food, std, llvm, p, q

Symbol(id, name, scope, path, properties) ==
  [id |-> id, name |-> name, scope |-> scope, signature |-> q, defPath |-> path,
   declPath |-> p, properties |-> properties]

\* Two symbols with one name in different scopes, and one whose name a query
\* for the other finds; one has no definition, one no SymbolInfo.  Properties
\* are zero, as README.md:96 says of the server.
foo_std == Symbol(a, foo, std, p, {})
foo_llvm == Symbol(b, foo, llvm, NULL, {})
food_std == Symbol(c, food, std, p, NULL)

MCSymbols == {foo_std, foo_llvm, food_std}

MCFuzzyMatch == (foo :> MCSymbols) @@ (food :> {food_std})

Con(iColumn, op, usable) == [iColumn |-> iColumn, op |-> op, usable |-> usable]
On(iColumn, op) == Con(iColumn, op, TRUE)

\* WHERE clauses: an Id, alone, after a Name and not usable in this position of
\* a join; a Name or a Scope, equal or LIKE, in either order; both of a kind;
\* a path between two others; columns the table does not search; a property;
\* nothing.
MCConstraintLists ==
  { <<>>,
    <<On(0, "EQ")>>,
    <<On(1, "LIKE"), On(0, "EQ")>>,
    <<Con(0, "EQ", FALSE), On(1, "EQ")>>,
    <<On(0, "EQ"), On(0, "EQ")>>,
    <<On(1, "EQ"), On(2, "EQ")>>,
    <<On(2, "LIKE"), On(1, "LIKE")>>,
    <<On(2, "LIKE"), On(2, "EQ")>>,
    <<On(2, "EQ"), On(2, "LIKE")>>,
    <<On(2, "EQ"), On(7, "LIKE"), On(1, "LIKE")>>,
    <<On(12, "LIKE"), On(1, "NE")>>,
    <<On(3, "EQ"), On(7, "EQ")>>,
    <<On(2, "NE"), On(23, "EQ")>> }

\* A server that does send properties, asked for whatever it has.
PropertySymbols ==
  {Symbol(a, foo, std, p, {"TemplateSpecialization"}), Symbol(b, foo, llvm, p, {"UnitTest"})}
PropertyFuzzyMatch == (foo :> PropertySymbols) @@ (food :> {})
PropertyConstraintLists == {<<>>, <<On(23, "EQ")>>}

\* Patterns on columns that are not searched, and on one that is.
LikeConstraintLists == {<<On(0, "EQ"), On(1, "LIKE")>>, <<On(3, "LIKE")>>}
=============================================================================
