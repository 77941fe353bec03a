------------------------------- MODULE RowIds -------------------------------
(***************************************************************************)
(* The row ids of the tables that have them: RowId of SymbolsTable.cc and  *)
(* of RelationsTable.cc.  A symbol id is a 64-bit number in hexadecimal,   *)
(* here a Word; a row id is a signed number of the same width.  `refs` is   *)
(* WITHOUT ROWID and is never asked.                                       *)
(***************************************************************************)
EXTENDS Integers

CONSTANT Max   \* LLONG_MAX

ASSUME MaxAssumption == Max \in Nat

Word == 0..(2 * Max + 1)
Signed == -(Max + 1)..Max

\* strtoll(id, nullptr, 16): numbers too large are turned into LLONG_MAX, and
\* errno is set to ERANGE.
Strtoll(word) == IF word > Max THEN Max ELSE word

\* What signed arithmetic that overflows gives in practice: the low bits.
Wrap(n) ==
  IF n \in Signed THEN n ELSE ((n + Max + 1) % (2 * Max + 2)) - (Max + 1)

\* errno is cleared before it is tested, so a saturated id is returned like any
\* other.
SymbolRowId(id) == Strtoll(id)

\* A mistake in RelationsTable's RowId: the object is left out of the sum.
RelationRowIdOfSum(subject, object) ==
  LET t == Wrap(Strtoll(subject) + Strtoll(object))
  IN  Wrap((t \div 2) * Wrap(t + 1))

\* Half the sum, rounded down, is multiplied by the sum plus one: Cantor's
\* pairing halves the product.
RelationRowId(subject, object) ==
  LET a == Strtoll(subject)
      b == Strtoll(object)
      t == Wrap(a + b)
  IN  Wrap(Wrap((t \div 2) * Wrap(t + 1)) + b)
=============================================================================
