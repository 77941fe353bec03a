---------------------------- MODULE OrScanProofs ----------------------------
(***************************************************************************)
(* Proofs about OrScan, for every width of a word, every set of rows and   *)
(* any number of terms: row ids that can be relied on tell rows apart, an  *)
(* OR never returns a row twice, and it implements the scan of TableScan.  *)
(***************************************************************************)
EXTENDS OrScan, TLAPS

-----------------------------------------------------------------------------
(* Row ids.                                                                *)

\* Arithmetic in a register stays in its width.
LEMMA WrapType ==
  ASSUME NEW n \in Int
  PROVE  Wrap(n) \in Signed
<1>1. ASSUME NEW m \in Int, NEW d \in Nat, d > 0
      PROVE  m % d \in 0..(d - 1)
  BY <1>1
<1>2. (n + Max + 1) % (2 * Max + 2) \in 0..(2 * Max + 2 - 1)
  BY <1>1, MaxAssumption
<1> QED
  BY <1>2, MaxAssumption DEF Wrap, Signed

LEMMA StrtollType ==
  ASSUME NEW word \in Word
  PROVE  Strtoll(word) \in 0..Max
BY MaxAssumption DEF Word, Strtoll

\* RowId of RelationsTable.cc returns a number of 64 bits, whatever the pair.
LEMMA RelationRowIdType ==
  ASSUME NEW s \in Word, NEW o \in Word
  PROVE  RelationRowId(s, o) \in Signed
<1> DEFINE a == Strtoll(s)
           b == Strtoll(o)
           t == Wrap(a + b)
<1>1. a \in Int /\ b \in Int
  BY StrtollType, MaxAssumption
<1>2. t \in Int
  BY <1>1, WrapType, MaxAssumption DEF Signed
<1>3. Wrap(t + 1) \in Int
  BY <1>2, WrapType, MaxAssumption DEF Signed
<1>4. (t \div 2) \in Int
  BY <1>2
<1>5. (t \div 2) * Wrap(t + 1) \in Int
  BY <1>3, <1>4
<1>6. Wrap((t \div 2) * Wrap(t + 1)) \in Int
  BY <1>5, WrapType, MaxAssumption DEF Signed
<1>7. Wrap(Wrap((t \div 2) * Wrap(t + 1)) + b) \in Signed
  BY <1>6, <1>1, WrapType
<1> QED
  BY <1>7 DEF RelationRowId

\* Symbol ids that strtoll can represent have different row ids.
THEOREM SmallIdsDistinct ==
  ASSUME NEW x \in Word, NEW y \in Word, x =< Max, y =< Max,
         SymbolRowId(x) = SymbolRowId(y)
  PROVE  x = y
BY MaxAssumption DEF SymbolRowId, Strtoll, Word

\* Two ids that it cannot represent have the same.
THEOREM LargeIdsCollide ==
  ASSUME NEW x \in Word, NEW y \in Word, x >= Max, y >= Max
  PROVE  SymbolRowId(x) = SymbolRowId(y)
BY MaxAssumption DEF SymbolRowId, Strtoll, Word

\* Without overflow, the row id of a pair is half its sum times the sum plus
\* one, plus the object.
LEMMA SmallPairId ==
  ASSUME NEW s \in Nat, NEW o \in Nat, (s + o + 2) * (s + o + 1) =< Max
  PROVE  RelationRowId(s, o) = ((s + o) \div 2) * (s + o + 1) + o
<1> DEFINE t == s + o
           h == t \div 2
<1>1. t \in Nat /\ h \in Nat /\ h + h =< t /\ o =< t
  OBVIOUS
<1>2. /\ (t + 2) * (t + 1) = t * (t + 1) + 2 * (t + 1)
      /\ t * (t + 1) \in Nat
  BY <1>1
<1>3. h * (t + 1) \in Nat /\ (h + h) * (t + 1) = h * (t + 1) + h * (t + 1)
  BY <1>1
<1>4. (h + h) * (t + 1) =< t * (t + 1)
  <2>1. ASSUME NEW u \in Nat, NEW v \in Nat, NEW w \in Nat, u =< v
        PROVE  u * w =< v * w
    BY <2>1
  <2> QED
    BY <2>1, <1>1
<1>5. h * (t + 1) + o =< Max /\ t + 1 =< Max
  <2> HIDE DEF h, t
  <2>1. (t + 2) * (t + 1) =< Max
    BY DEF t
  <2> QED
    BY <2>1, <1>1, <1>2, <1>3, <1>4, MaxAssumption
<1>6. s =< Max /\ o =< Max /\ s + o = t
  BY <1>1, <1>5, MaxAssumption
<1>7. Strtoll(s) = s /\ Strtoll(o) = o
  BY <1>6, MaxAssumption DEF Strtoll
<1>8. Wrap(t) = t /\ Wrap(t + 1) = t + 1
  BY <1>1, <1>5, MaxAssumption DEF Wrap, Signed
<1>9. Wrap(h * (t + 1)) = h * (t + 1) /\ Wrap(h * (t + 1) + o) = h * (t + 1) + o
  <2> HIDE DEF h, t
  <2> QED
    BY <1>1, <1>3, <1>5, MaxAssumption DEF Wrap, Signed
<1> QED
  BY <1>7, <1>8, <1>9 DEF RelationRowId

\* Half a number times the number plus one grows by more than the number.
LEMMA HalfProductGrows ==
  ASSUME NEW t \in Nat, NEW u \in Nat, t % 2 = u % 2, t < u
  PROVE  (t \div 2) * (t + 1) + t < (u \div 2) * (u + 1)
<1> DEFINE h == t \div 2
           k == u \div 2
           e == t % 2
<1>1. h \in Nat /\ k \in Nat /\ e \in {0, 1} /\ t = h + h + e /\ u = k + k + e
  OBVIOUS
<1> HIDE DEF h, k, e
<1>2. h + 1 =< k
  BY <1>1
<1>3. PICK d \in Nat : k = h + 1 + d
  <2>1. k - (h + 1) \in Nat /\ k = h + 1 + (k - (h + 1))
    BY <1>1, <1>2
  <2> QED
    BY <2>1
<1>4. u + 1 = (t + 1) + (2 + (d + d))
  BY <1>1, <1>3
<1>5. k * (u + 1) = h * (t + 1) + (h * (2 + (d + d)) + (1 + d) * (u + 1))
  <2>1. k * (u + 1) = h * (u + 1) + (1 + d) * (u + 1)
    BY <1>1, <1>3
  <2>2. h * (u + 1) = h * (t + 1) + h * (2 + (d + d))
    BY <1>1, <1>4
  <2>3. h * (t + 1) \in Nat /\ h * (2 + (d + d)) \in Nat /\ (1 + d) * (u + 1) \in Nat
    BY <1>1
  <2> QED
    BY <2>1, <2>2, <2>3
<1>6. (1 + d) * (u + 1) = (u + 1) + d * (u + 1)
  BY <1>1
<1>7. h * (t + 1) \in Nat /\ h * (2 + (d + d)) \in Nat /\ d * (u + 1) \in Nat
  BY <1>1
<1>8. h * (t + 1) + t < k * (u + 1)
  BY <1>5, <1>6, <1>7
<1> QED
  BY <1>8 DEF h, k

\* Pairs whose sums are both even or both odd, and too small to overflow, have
\* different row ids.
THEOREM SmallPairsDistinct ==
  ASSUME NEW s \in Nat, NEW o \in Nat, NEW p \in Nat, NEW q \in Nat,
         (s + o + 2) * (s + o + 1) =< Max,
         (p + q + 2) * (p + q + 1) =< Max,
         (s + o) % 2 = (p + q) % 2,
         RelationRowId(s, o) = RelationRowId(p, q)
  PROVE  s = p /\ o = q
<1> DEFINE t == s + o
           u == p + q
           f == (t \div 2) * (t + 1)
           g == (u \div 2) * (u + 1)
<1>1. t \in Nat /\ u \in Nat /\ f \in Nat /\ g \in Nat /\ o =< t /\ q =< u
  OBVIOUS
<1>2. f + o = g + q
  BY SmallPairId
<1>3. t < u => f + t < g
  BY <1>1, HalfProductGrows
<1>4. u < t => g + u < f
  BY <1>1, HalfProductGrows
<1>5. t = u
  <2> HIDE DEF t, u, f, g
  <2> QED
    BY <1>1, <1>2, <1>3, <1>4
<1>6. f = g
  BY <1>5
<1>7. o = q
  <2> HIDE DEF f, g
  <2> QED
    BY <1>1, <1>2, <1>6
<1> QED
  BY <1>5, <1>7

-----------------------------------------------------------------------------
(* The OR.                                                                 *)

LEMMA RowIdType ==
  ASSUME table \in {"symbols", "base_of"}, NEW row \in Rows(table)
  PROVE  RowId(row) \in Signed
<1>1. CASE table = "symbols"
  <2>1. row[1] \in Word
    BY <1>1, OrScanAssumption DEF Rows
  <2> QED
    BY <1>1, <2>1, StrtollType, MaxAssumption DEF RowId, SymbolRowId, Signed
<1>2. CASE table = "base_of"
  <2>1. row[1] \in Word /\ row[2] \in Word
    BY <1>2, OrScanAssumption DEF Rows
  <2> QED
    BY <1>2, <2>1, RelationRowIdType DEF RowId
<1> QED
  BY <1>1, <1>2

\* What a step leaves of the query leaves of the rows it selects and of their ids.
LEMMA SameRows ==
  ASSUME UNCHANGED <<table, query>>
  PROVE  Selected' = Selected /\ \A row : RowId(row)' = RowId(row)
BY DEF Selected, RowId

LEMMA SelectedRow ==
  ASSUME TypeOK, NEW row \in Selected
  PROVE  row \in Rows(table) /\ RowId(row) \in Signed
<1>1. row \in Rows(table)
  BY DEF TypeOK, Selected
<1> QED
  BY <1>1, RowIdType DEF TypeOK

LEMMA InitInductive == Init => IInv
<1> SUFFICES ASSUME Init PROVE IInv
  OBVIOUS
<1>1. query \in Seq(SUBSET Rows(table)) /\ Len(query) = 0
  BY DEF Init
<1>2. TypeOK
  <2>1. term \in 0..Len(query)
    BY <1>1 DEF Init
  <2>2. todo \subseteq Selected /\ out \subseteq Selected
    BY DEF Init
  <2>3. kept \subseteq Signed /\ batch \subseteq Signed /\ failed \in BOOLEAN
    BY DEF Init
  <2> QED
    BY <1>1, <2>1, <2>2, <2>3 DEF Init, TypeOK
<1>3. RowSet /\ Progress
  BY DEF Init, RowSet, Progress
<1> QED
  BY <1>2, <1>3 DEF IInv

LEMMA BeginInductive ==
  ASSUME IInv, Begin
  PROVE  IInv'
<1> USE DEF IInv
<1>1. PICK n \in 1..MaxTerms : query' \in [1..n -> SUBSET Rows(table)]
  BY DEF Begin
<1>2. query' \in Seq(SUBSET Rows(table)) /\ Len(query') = n /\ n \in Nat /\ n >= 1
  BY <1>1, OrScanAssumption
<1>3. query'[1] \subseteq Selected'
  BY <1>2 DEF Selected
<1>4. TypeOK'
  <2>1. table' = table /\ Rows(table)' = Rows(table)
    BY DEF Begin, Rows
  <2>2. query' \in Seq(SUBSET Rows(table))' /\ term' \in 0..Len(query')
    BY <1>2, <2>1 DEF Begin
  <2>3. todo' \subseteq Selected' /\ out' \subseteq Selected'
    BY <1>3 DEF Begin
  <2> QED
    BY <2>2, <2>3 DEF TypeOK, Begin
<1>5. RowSet'
  BY <1>2 DEF RowSet, Begin
<1>6. Progress'
  BY <1>2 DEF Progress, Begin
<1> QED
  BY <1>4, <1>5, <1>6

LEMMA ReturnInductive ==
  ASSUME IInv, NEW row \in todo, Return(row)
  PROVE  IInv' /\ row \notin out
<1> USE DEF IInv
<1>1. row \in Selected /\ RowId(row) \in Signed
  BY SelectedRow DEF TypeOK
<1>2. Selected' = Selected /\ \A r : RowId(r)' = RowId(r)
  BY SameRows DEF Return
<1>3. row \notin out
  BY DEF Return, Seen, RowSet
<1>4. TypeOK'
  BY <1>1, <1>2 DEF TypeOK, Return, Rows
<1>5. RowSet'
  BY <1>2 DEF RowSet, Return
<1>6. Progress'
  BY <1>2 DEF Progress, Return
<1> QED
  BY <1>3, <1>4, <1>5, <1>6

LEMMA SkipInductive ==
  ASSUME IInv, NEW row \in todo, Skip(row)
  PROVE  IInv'
<1> USE DEF IInv
<1>1. Selected' = Selected /\ \A r : RowId(r)' = RowId(r)
  BY SameRows DEF Skip
<1>2. TypeOK'
  BY <1>1 DEF TypeOK, Skip, Rows
<1>3. RowSet'
  BY <1>1 DEF RowSet, Skip
<1>4. PICK r \in out : RowId(r) = RowId(row)
  BY DEF Skip, Seen, RowSet
<1>5. Progress'
  BY <1>1, <1>4 DEF Progress, Skip
<1> QED
  BY <1>2, <1>3, <1>5

LEMMA BreakOffInductive ==
  ASSUME IInv, BreakOff
  PROVE  IInv'
<1>1. Selected' = Selected /\ \A r : RowId(r)' = RowId(r)
  BY SameRows DEF BreakOff
<1> QED
  BY <1>1 DEF IInv, TypeOK, RowSet, Progress, BreakOff, Rows

LEMMA NextTermInductive ==
  ASSUME IInv, NextTerm
  PROVE  IInv'
<1> USE DEF IInv
<1>1. Selected' = Selected /\ \A r : RowId(r)' = RowId(r)
  BY SameRows DEF NextTerm
<1>2. term \in 1..Len(query) /\ term + 1 \in 1..Len(query)
  BY DEF NextTerm, TypeOK, RowSet
<1>3. TypeOK'
  BY <1>1, <1>2 DEF TypeOK, NextTerm, Rows, Selected
<1>4. kept' \subseteq {RowId(row) : row \in out}
  BY DEF NextTerm, RowSet
<1>5. RowSet'
  BY <1>1, <1>2, <1>4 DEF RowSet, NextTerm, TypeOK
<1>6. Progress'
  <2> SUFFICES ASSUME ~failed, NEW i \in 1..(term + 1),
                      NEW row \in query[i] \ (IF i = term + 1 THEN query[term + 1] ELSE {})
               PROVE  \E r \in out : RowId(r) = RowId(row)
    BY <1>1 DEF Progress, NextTerm
  <2>1. i \in 1..term
    BY <1>2 DEF TypeOK
  <2> QED
    BY <2>1 DEF Progress, NextTerm
<1> QED
  BY <1>3, <1>5, <1>6

LEMMA OtherInductive ==
  ASSUME IInv, LastTermDone \/ Reset \/ UNCHANGED vars
  PROVE  IInv'
<1>1. CASE LastTermDone
  <2>1. Selected' = Selected /\ \A r : RowId(r)' = RowId(r)
    BY <1>1, SameRows DEF LastTermDone
  <2> QED
    BY <1>1, <2>1 DEF IInv, TypeOK, RowSet, Progress, LastTermDone, Rows
<1>2. CASE Reset
  <2>1. query' \in Seq(SUBSET Rows(table)') /\ Len(query') = 0
    BY <1>2 DEF Reset
  <2>2. term' \in 0..Len(query')
    BY <1>2, <2>1 DEF Reset
  <2>3. todo' \subseteq Selected' /\ out' \subseteq Selected'
    BY <1>2 DEF Reset
  <2>4. table' \in {"symbols", "base_of"} /\ failed' \in BOOLEAN
    BY <1>2 DEF Reset, IInv, TypeOK
  <2>5. TypeOK'
    BY <1>2, <2>1, <2>2, <2>3, <2>4 DEF TypeOK, Reset
  <2> QED
    BY <1>2, <2>5 DEF IInv, RowSet, Progress, Reset
<1>3. CASE UNCHANGED vars
  <2>1. Selected' = Selected /\ \A r : RowId(r)' = RowId(r)
    BY <1>3, SameRows DEF vars
  <2> QED
    BY <1>3, <2>1 DEF IInv, TypeOK, RowSet, Progress, vars, Rows
<1> QED
  BY <1>1, <1>2, <1>3

LEMMA StepInductive == IInv /\ [Next]_vars => IInv'
BY BeginInductive, ReturnInductive, SkipInductive, BreakOffInductive,
   NextTermInductive, OtherInductive DEF Next

\* The row set and the result are in step with the terms that are over.
THEOREM Inductive == Spec => []IInv
BY InitInductive, StepInductive, PTL DEF Spec

\* The type invariant holds.
THEOREM TypeCorrect == Spec => []TypeOK
BY Inductive, PTL DEF IInv

\* No row is returned twice, whatever the row ids.
THEOREM ReturnsOnce == Spec => NeverTwice
<1>1. IInv /\ [Next]_vars => [\A row \in todo : Return(row) => row \notin out]_vars
  BY ReturnInductive
<1> QED
  BY <1>1, Inductive, PTL DEF Spec, NeverTwice

\* Row ids that can be relied on tell the rows of a query apart.
LEMMA RowIdInjective ==
  ASSUME TypeOK, TellsApart, NEW r \in Selected, NEW s \in Selected,
         RowId(r) = RowId(s)
  PROVE  r = s
<1>1. r \in Rows(table) /\ s \in Rows(table)
  BY SelectedRow
<1>2. CASE table = "symbols"
  <2>1. PICK x \in Word : r = <<x>>
    BY <1>1, <1>2, OrScanAssumption DEF Rows
  <2>2. PICK y \in Word : s = <<y>>
    BY <1>1, <1>2, OrScanAssumption DEF Rows
  <2>3. x =< Max /\ y =< Max /\ SymbolRowId(x) = SymbolRowId(y)
    BY <1>2, <2>1, <2>2 DEF TellsApart, RowId
  <2> QED
    BY <2>1, <2>2, <2>3, SmallIdsDistinct
<1>3. CASE table = "base_of"
  <2>1. PICK a \in Word, b \in Word : r = <<a, b>>
    BY <1>1, <1>3, OrScanAssumption DEF Rows
  <2>2. PICK c \in Word, d \in Word : s = <<c, d>>
    BY <1>1, <1>3, OrScanAssumption DEF Rows
  <2>3. a \in Nat /\ b \in Nat /\ c \in Nat /\ d \in Nat
    BY MaxAssumption DEF Word
  <2>4. /\ (a + b + 2) * (a + b + 1) =< Max
        /\ (c + d + 2) * (c + d + 1) =< Max
        /\ (a + b) % 2 = (c + d) % 2
    BY <1>3, <2>1, <2>2 DEF TellsApart
  <2>5. RelationRowId(a, b) = RelationRowId(c, d)
    BY <1>3, <2>1, <2>2 DEF RowId
  <2>6. a = c /\ b = d
    BY <2>3, <2>4, <2>5, SmallPairsDistinct
  <2> QED
    BY <2>1, <2>2, <2>6
<1> QED
  BY <1>2, <1>3 DEF TypeOK

LEMMA Exact == IInv => OrExact
<1> SUFFICES ASSUME IInv, phase = "ended", ~failed, TellsApart,
                    NEW row \in Selected
             PROVE  row \in out
  BY DEF OrExact, IInv, TypeOK
<1>1. PICK i \in 1..Len(query) : row \in query[i]
  BY DEF Selected
<1>2. PICK r \in out : RowId(r) = RowId(row)
  BY <1>1 DEF IInv, RowSet, Progress
<1>3. r \in Selected
  BY DEF IInv, TypeOK
<1> QED
  BY <1>2, <1>3, RowIdInjective DEF IInv

\* With row ids that can be relied on, an OR that is not cut short returns what
\* it selects.
THEOREM ReturnsAll == Spec => []OrExact
BY Inductive, Exact, PTL

-----------------------------------------------------------------------------
(* The OR is one scan of the rows it selects.                              *)

LEMMA TypedSelection ==
  ASSUME TypeOK
  PROVE  Selected \subseteq Rows("symbols") \cup Rows("base_of")
BY SelectedRow DEF TypeOK

LEMMA SameTellsApart ==
  ASSUME UNCHANGED <<table, query>>
  PROVE  TellsApart' = TellsApart
BY SameRows DEF TellsApart

LEMMA StepRefines ==
  ASSUME IInv, IInv', OrExact', [Next]_vars
  PROVE  [Scan!Next]_Scan!vars
<1> USE DEF Scan!Next, Scan!vars
<1>1. CASE Begin
  <2>1. Selected' \in SUBSET (Rows("symbols") \cup Rows("base_of"))'
    BY TypedSelection DEF IInv, TypeOK, Rows, Selected
  <2> QED
    BY <1>1, <2>1 DEF Begin, Scan!Begin
<1>2. ASSUME NEW row \in todo, Return(row)
      PROVE  Scan!Deliver
  <2>1. row \in Selected \ out
    BY <1>2, ReturnInductive DEF IInv, TypeOK
  <2>2. phase = "scanning" /\ phase' = "scanning"
    BY <1>2 DEF Return, IInv, RowSet, TypeOK
  <2> QED
    BY <1>2, <2>1, <2>2, SameRows DEF Return, Scan!Deliver
<1>3. CASE (\E row \in todo : Skip(row)) \/ BreakOff \/ NextTerm
  <2>1. phase # "ended" /\ phase' = phase /\ out' = out /\ UNCHANGED <<table, query>>
    BY <1>3 DEF Skip, BreakOff, NextTerm, IInv, RowSet
  <2> QED
    BY <2>1, SameRows
<1>4. CASE LastTermDone
  <2>1. Selected' = Selected /\ TellsApart' = TellsApart
    BY <1>4, SameRows, SameTellsApart DEF LastTermDone
  <2>2. ~failed /\ TellsApart => out = Selected
    BY <1>4, <2>1 DEF LastTermDone, OrExact
  <2> QED
    BY <1>4, <2>1, <2>2 DEF LastTermDone, Scan!End, Scan!Fail
<1>5. CASE Reset
  BY <1>5 DEF Reset, Scan!Drop, Selected
<1>6. CASE UNCHANGED vars
  BY <1>6, SameRows, SameTellsApart DEF vars
<1> QED
  BY <1>1, <1>2, <1>3, <1>4, <1>5, <1>6 DEF Next

\* The OR implements TableScan.
THEOREM Refines == Spec => ImplementsTableScan
<1>1. Init => Scan!Init
  BY DEF Init, Scan!Init, Selected
<1>2. IInv /\ IInv' /\ OrExact' /\ [Next]_vars => [Scan!Next]_Scan!vars
  BY StepRefines
<1> QED
  BY <1>1, <1>2, Inductive, ReturnsAll, PTL DEF Spec, ImplementsTableScan, Scan!Spec
=============================================================================
