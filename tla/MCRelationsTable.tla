-------------------------- MODULE MCRelationsTable --------------------------
(***************************************************************************)
(* Instances of RelationsTable for TLC.                                    *)
(***************************************************************************)
EXTENDS RelationsTable

CONSTANTS a, b, c

\* Two objects for a, one for b; the two relations overlap and differ.
MCRelations ==
  [BaseOf |-> {<<a, b>>, <<a, c>>, <<b, c>>},
   OverriddenBy |-> {<<a, c>>, <<b, a>>}]

Con(iColumn, op, usable) == [iColumn |-> iColumn, op |-> op, usable |-> usable]

\* WHERE clauses: the join on Subject alone; with a test on Object on either
\* side of it; two equalities on Subject, one of which is not usable in this
\* position of the join; an inequality on Subject before the equality; none
\* that the table can use.
MCConstraintLists ==
  { <<Con(SubjectColumn, "EQ", TRUE)>>,
    <<Con(ObjectColumn, "EQ", TRUE), Con(SubjectColumn, "EQ", TRUE)>>,
    <<Con(SubjectColumn, "EQ", FALSE), Con(SubjectColumn, "EQ", TRUE)>>,
    <<Con(SubjectColumn, "NE", TRUE), Con(SubjectColumn, "EQ", TRUE)>>,
    <<Con(ObjectColumn, "EQ", TRUE)>> }
=============================================================================
