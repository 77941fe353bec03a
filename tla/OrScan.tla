------------------------------- MODULE OrScan -------------------------------
(***************************************************************************)
(* What SQLite uses row ids for: WHERE term OR term OR ...                 *)
(*                                                                         *)
(* When every term can be searched for on its own, SQLite scans the table  *)
(* once per term, with a cursor opened for the term, and asks for the row  *)
(* id of each row it comes to.  A row whose id a row of an earlier term    *)
(* had is skipped.  Each scan is one that TableScan describes: it delivers  *)
(* the rows of the term in any order, or is cut short without an error.    *)
(*                                                                         *)
(* The ORs meant are those of terms on different columns, such as          *)
(* Id = x OR Name = n, and of conjunctions, such as                        *)
(* (Subject = x AND Object = y) OR (Subject = z AND Object = w).  An OR    *)
(* that only compares one column with several values is none of them:      *)
(* SQLite makes it an IN, filters one cursor once for each value and asks  *)
(* for no row id; that is a sequence of scans of a table module.           *)
(***************************************************************************)
EXTENDS RowIds, Sequences, FiniteSets

CONSTANTS
  SymbolIds,   \* the rows of a symbols table: its ids
  Pairs,       \* the rows of a base_of table: pairs of ids
  MaxTerms     \* bound: how many terms an OR has

ASSUME OrScanAssumption ==
  /\ SymbolIds \subseteq Word
  /\ Pairs \subseteq Word \X Word
  /\ MaxTerms \in Nat \ {0}

VARIABLES
  table,    \* which table the statement is about
  phase,    \* "idle", "scanning" or "ended"
  query,    \* the rows that satisfy each term
  term,     \* the term whose scan is on
  todo,     \* the rows this scan has still to deliver
  kept,     \* the row set: the row ids of earlier terms
  batch,    \* the row ids of this term
  out,      \* the rows of the result
  failed    \* a scan was cut short

vars == <<table, phase, query, term, todo, kept, batch, out, failed>>

\* A row of `symbols` is <<id>>, a row of `base_of` <<subject, object>>.
Rows(t) == IF t = "symbols" THEN {<<id>> : id \in SymbolIds} ELSE Pairs

\* A mistake in RowId: the rows of a scan are numbered.
RowIdCounted(row) == Cardinality(query[term] \ todo)

\* xRowid of the cursor.
RowId(row) ==
  IF table = "symbols" THEN SymbolRowId(row[1]) ELSE RelationRowId(row[1], row[2])

-----------------------------------------------------------------------------
Init ==
  /\ table \in {"symbols", "base_of"}
  /\ phase = "idle" /\ query = <<>> /\ term = 0
  /\ todo = {} /\ kept = {} /\ batch = {} /\ out = {} /\ failed = FALSE

\* The statement is run: the first term is filtered for.
Begin ==
  /\ phase = "idle"
  /\ \E n \in 1..MaxTerms : query' \in [1..n -> SUBSET Rows(table)]
  /\ phase' = "scanning" /\ term' = 1 /\ todo' = query'[1]
  /\ kept' = {} /\ batch' = {} /\ out' = {} /\ failed' = FALSE
  /\ UNCHANGED table

\* OP_RowSetTest: the row's id is among those of earlier terms.  The ids of this
\* same term are not looked at.
Seen(row) == RowId(row) \in kept

\* A row with a new id: it is returned, and its id put into the row set unless
\* no term is left that could meet it.
Return(row) ==
  /\ row \in todo /\ ~Seen(row)
  /\ todo' = todo \ {row}
  /\ out' = out \cup {row}
  /\ batch' = IF term < Len(query) THEN batch \cup {RowId(row)} ELSE batch
  /\ UNCHANGED <<table, phase, query, term, kept, failed>>

\* A row with an id that was seen: it is passed over.
Skip(row) ==
  /\ row \in todo /\ Seen(row)
  /\ todo' = todo \ {row}
  /\ UNCHANGED <<table, phase, query, term, kept, batch, out, failed>>

\* The server or the channel ends the scan early; the cursor is at its end.
BreakOff ==
  /\ todo # {}
  /\ todo' = {} /\ failed' = TRUE
  /\ UNCHANGED <<table, phase, query, term, kept, batch, out>>

NextTerm ==
  /\ phase = "scanning" /\ todo = {} /\ term < Len(query)
  /\ term' = term + 1 /\ todo' = query[term + 1]
  /\ kept' = kept \cup batch /\ batch' = {}
  /\ UNCHANGED <<table, phase, query, out, failed>>

LastTermDone ==
  /\ phase = "scanning" /\ todo = {} /\ term = Len(query)
  /\ phase' = "ended"
  /\ UNCHANGED <<table, query, term, todo, kept, batch, out, failed>>

\* sqlite3_reset, in the middle of the result or after it.
Reset ==
  /\ phase # "idle"
  /\ phase' = "idle" /\ query' = <<>> /\ term' = 0
  /\ todo' = {} /\ kept' = {} /\ batch' = {} /\ out' = {} /\ failed' = FALSE
  /\ UNCHANGED table

Next ==
  \/ Begin \/ BreakOff \/ NextTerm \/ LastTermDone \/ Reset
  \/ \E row \in todo : Return(row) \/ Skip(row)

Spec == Init /\ [][Next]_vars

-----------------------------------------------------------------------------
(* Properties.                                                             *)

\* The rows the WHERE clause selects.
Selected == UNION {query[i] : i \in 1..Len(query)}

\* Row ids can be relied on: symbol ids that strtoll can represent; pairs whose
\* sums are all even or all odd and whose numbers do not overflow.
TellsApart ==
  IF table = "symbols" THEN \A row \in Selected : row[1] =< Max
  ELSE /\ \A p \in Selected : (p[1] + p[2] + 2) * (p[1] + p[2] + 1) =< Max
       /\ \A p, q \in Selected : (p[1] + p[2]) % 2 = (q[1] + q[2]) % 2

TypeOK ==
  /\ table \in {"symbols", "base_of"}
  /\ phase \in {"idle", "scanning", "ended"}
  /\ query \in Seq(SUBSET Rows(table)) /\ term \in 0..Len(query)
  /\ todo \subseteq Selected /\ out \subseteq Selected
  /\ kept \subseteq Signed /\ batch \subseteq Signed
  /\ failed \in BOOLEAN

\* Of the terms that are over, every row has been returned, or one that has the
\* same row id.  Of the present one, so have those that are not still to come.
Progress ==
  phase # "idle" /\ ~failed =>
    \A i \in 1..term : \A row \in query[i] \ (IF i = term THEN todo ELSE {}) :
      \E r \in out : RowId(r) = RowId(row)

\* The row set holds the ids of rows that were returned.  It holds those of all
\* of them when a term comes to its end that is not the last, and of those that
\* the present term selects too.
RowSet ==
  /\ phase = "idle" => query = <<>> /\ todo = {}
  /\ phase # "idle" => term \in 1..Len(query) /\ todo \subseteq query[term]
  /\ phase = "ended" => todo = {} /\ term = Len(query)
  /\ kept \cup batch \subseteq {RowId(row) : row \in out}
  /\ term < Len(query) => \A row \in out : RowId(row) \in kept \cup batch
  /\ \A row \in out \cap todo : RowId(row) \in kept

\* The inductive invariant.
IInv == TypeOK /\ RowSet /\ Progress

\* Whatever the row ids are worth, a row is returned once at most: the step
\* that returns a row finds it not returned before, though several terms
\* select it.
NeverTwice == [][\A row \in todo : Return(row) => row \notin out]_vars

\* A result that was not cut short has every row the WHERE clause selects,
\* provided the row ids can be relied on.
OrExact ==
  phase = "ended" /\ ~failed /\ TellsApart => out = Selected

\* The OR behaves as one scan of the rows it selects.  One that meets row ids
\* which cannot be relied on may fail to deliver.
Scan == INSTANCE TableScan WITH
  Row <- Rows("symbols") \cup Rows("base_of"),
  state <- IF phase # "ended" THEN phase
           ELSE IF ~failed /\ TellsApart THEN "ended" ELSE "failed",
  want <- Selected,
  got <- out

ImplementsTableScan == Scan!Spec

\* README.md:22: "You can then query the codebase as if it was a regular
\* table": an OR of two conditions, Id = x OR Name = n say, selects what either
\* of them selects.
RegularTable == phase = "ended" /\ ~failed => out = Selected

\* RelationsTable.cc:54-55: "generate a new unique id from two unique ids": a
\* relation that is still to come has the row id of one returned by an earlier
\* term only if it is the same relation.
PairsAreUnique ==
  table = "base_of" =>
    \A p \in todo : RowId(p) \in kept => p \in out
=============================================================================
