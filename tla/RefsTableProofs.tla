-------------------------- MODULE RefsTableProofs --------------------------
(***************************************************************************)
(* The inductive invariant of RefsTable, and what follows from it.         *)
(***************************************************************************)
EXTENDS RefsTable, VtabScanProofs

-----------------------------------------------------------------------------
(* Flags and arguments.                                                    *)

WhereClause == Seq(Constraint(0..PathColumn, Comparison))

\* Which equalities set which flag.
LEMMA FlagsOf ==
  ASSUME NEW cs
  PROVE  /\ Flags(cs) \subseteq Flag
         /\ "CONSTR_ID" \in Flags(cs) <=> Equalities(cs, 0) # {}
         /\ "CONSTR_DEF" \in Flags(cs) <=> Equalities(cs, 1) # {} \/ Equalities(cs, 2) # {}
         /\ "CONSTR_DECL" \notin Flags(cs)
         /\ "CONSTR_REF" \in Flags(cs) <=> Equalities(cs, 3) # {}
         /\ "CONSTR_SPE" \in Flags(cs) <=> Equalities(cs, 4) # {}
<1>1. /\ FlagOfColumn[0] = "CONSTR_ID"
      /\ FlagOfColumn[1] = "CONSTR_DEF"
      /\ FlagOfColumn[2] = "CONSTR_DEF"
      /\ FlagOfColumn[3] = "CONSTR_REF"
      /\ FlagOfColumn[4] = "CONSTR_SPE"
  BY DEF FlagOfColumn
<1>2. \A c \in 0..4 : c = 0 \/ c = 1 \/ c = 2 \/ c = 3 \/ c = 4
  OBVIOUS
<1>3. \A flag : flag \in Flags(cs) <=>
        \/ flag = "CONSTR_ID" /\ Equalities(cs, 0) # {}
        \/ flag = "CONSTR_DEF" /\ (Equalities(cs, 1) # {} \/ Equalities(cs, 2) # {})
        \/ flag = "CONSTR_REF" /\ Equalities(cs, 3) # {}
        \/ flag = "CONSTR_SPE" /\ Equalities(cs, 4) # {}
  BY <1>1, <1>2 DEF Flags
<1> QED
  BY <1>3 DEF Flag

\* A column has one argument or none, the index of a usable equality on it.
LEMMA FirstOfColumn ==
  ASSUME NEW cs \in WhereClause, NEW c \in 0..4
  PROVE  /\ FirstOf(cs, c) \in Seq(Nat)
         /\ Len(FirstOf(cs, c)) = IF Equalities(cs, c) = {} THEN 0 ELSE 1
         /\ \A k \in 1..Len(FirstOf(cs, c)) : FirstOf(cs, c)[k] \in Equalities(cs, c)
<1>1. Equalities(cs, c) \in SUBSET Nat
  BY UsableIndices DEF Equalities, WhereClause
<1>2. CASE Equalities(cs, c) = {}
  BY <1>2, EmptySeq DEF FirstOf
<1>3. CASE Equalities(cs, c) # {}
  <2>1. Min(Equalities(cs, c)) \in Equalities(cs, c)
    BY <1>1, <1>3, MinOfIndices
  <2>2. FirstOf(cs, c) = <<Min(Equalities(cs, c))>>
    BY <1>3 DEF FirstOf
  <2>3. <<Min(Equalities(cs, c))>> \in Seq(Nat)
    <3>1. Min(Equalities(cs, c)) \in Nat
      BY <1>1, <2>1
    <3> QED
      BY <3>1
  <2> QED
    BY <1>3, <2>1, <2>2, <2>3
<1> QED
  BY <1>2, <1>3

\* What a sequence has from some place on, it still has when more of it follows.
LEMMA JoinedArguments ==
  ASSUME NEW s \in Seq(Nat), NEW t \in Seq(Nat), NEW S, NEW n \in Nat,
         \A k \in 1..Len(s) : k > n => s[k] \in S,
         \A k \in 1..Len(t) : t[k] \in S
  PROVE  /\ s \o t \in Seq(Nat)
         /\ Len(s \o t) = Len(s) + Len(t)
         /\ \A k \in 1..Len(s) : (s \o t)[k] = s[k]
         /\ \A k \in 1..Len(s \o t) : k > n => (s \o t)[k] \in S
<1>1. Len(s) \in Nat /\ Len(t) \in Nat
  BY LenProperties
<1>2. /\ s \o t \in Seq(Nat)
      /\ Len(s \o t) = Len(s) + Len(t)
      /\ \A k \in 1..(Len(s) + Len(t)) : (s \o t)[k] = IF k <= Len(s) THEN s[k] ELSE t[k - Len(s)]
  BY ConcatProperties
<1>3. ASSUME NEW k \in 1..(Len(s) + Len(t)), k > n PROVE (s \o t)[k] \in S
  <2>1. CASE k <= Len(s)
    BY <1>1, <1>2, <1>3, <2>1
  <2>2. CASE ~(k <= Len(s))
    <3>1. k - Len(s) \in 1..Len(t)
      BY <1>1, <2>2
    <3> QED
      BY <1>2, <2>2, <3>1
  <2> QED
    BY <2>1, <2>2
<1> QED
  BY <1>1, <1>2, <1>3

\* The arguments: one for each column that has an equality, that on SymbolId
\* first and those on kinds after it.
LEMMA ArgumentsOf ==
  ASSUME NEW cs \in WhereClause
  PROVE  /\ Arguments(cs) \in Seq(Nat)
         /\ Len(Arguments(cs)) = Len(FirstOf(cs, 0)) + Len(FirstOf(cs, 1)) + Len(FirstOf(cs, 2))
                                   + Len(FirstOf(cs, 3)) + Len(FirstOf(cs, 4))
         /\ Equalities(cs, 0) # {} => Arguments(cs)[1] \in Equalities(cs, 0)
         /\ \A k \in 1..Len(Arguments(cs)) :
              k > Len(FirstOf(cs, 0)) => Arguments(cs)[k] \in Usable(cs, 1..4, {"EQ"})
<1>a. PICK S, n : S = Usable(cs, 1..4, {"EQ"}) /\ n = Len(FirstOf(cs, 0))
  OBVIOUS
<1>b. PICK s1 : s1 = FirstOf(cs, 0) \o FirstOf(cs, 1)
  OBVIOUS
<1>c. PICK s2 : s2 = s1 \o FirstOf(cs, 2)
  OBVIOUS
<1>d. PICK s3 : s3 = s2 \o FirstOf(cs, 3)
  OBVIOUS
<1>e. PICK s4 : s4 = s3 \o FirstOf(cs, 4)
  OBVIOUS
<1>1. \A c \in 0..4 : /\ FirstOf(cs, c) \in Seq(Nat)
                      /\ Len(FirstOf(cs, c)) \in {0, 1}
                      /\ \A k \in 1..Len(FirstOf(cs, c)) : FirstOf(cs, c)[k] \in Equalities(cs, c)
  BY FirstOfColumn
<1>2. \A c \in 1..4 : \A k \in 1..Len(FirstOf(cs, c)) : FirstOf(cs, c)[k] \in S
  BY <1>a, <1>1 DEF Equalities, Usable
<1>3. /\ FirstOf(cs, 0) \in Seq(Nat) /\ n \in {0, 1} /\ n \in Nat
      /\ \A k \in 1..Len(FirstOf(cs, 0)) : k > n => FirstOf(cs, 0)[k] \in S
  BY <1>a, <1>1
<1>4. /\ s1 \in Seq(Nat) /\ Len(s1) = n + Len(FirstOf(cs, 1))
      /\ \A k \in 1..n : s1[k] = FirstOf(cs, 0)[k]
      /\ \A k \in 1..Len(s1) : k > n => s1[k] \in S
  <2>1. FirstOf(cs, 1) \in Seq(Nat) /\ \A k \in 1..Len(FirstOf(cs, 1)) : FirstOf(cs, 1)[k] \in S
    BY <1>1, <1>2
  <2> QED
    BY <1>3, <1>a, <1>b, <2>1, JoinedArguments
<1>5. /\ s2 \in Seq(Nat) /\ Len(s2) = Len(s1) + Len(FirstOf(cs, 2))
      /\ \A k \in 1..Len(s1) : s2[k] = s1[k]
      /\ \A k \in 1..Len(s2) : k > n => s2[k] \in S
  <2>1. FirstOf(cs, 2) \in Seq(Nat) /\ \A k \in 1..Len(FirstOf(cs, 2)) : FirstOf(cs, 2)[k] \in S
    BY <1>1, <1>2
  <2> QED
    <3>1. s1 \in Seq(Nat) /\ \A k \in 1..Len(s1) : k > n => s1[k] \in S
      BY <1>4
    <3> QED
      BY <1>3, <1>c, <2>1, <3>1, JoinedArguments
<1>6. /\ s3 \in Seq(Nat) /\ Len(s3) = Len(s2) + Len(FirstOf(cs, 3))
      /\ \A k \in 1..Len(s2) : s3[k] = s2[k]
      /\ \A k \in 1..Len(s3) : k > n => s3[k] \in S
  <2>1. FirstOf(cs, 3) \in Seq(Nat) /\ \A k \in 1..Len(FirstOf(cs, 3)) : FirstOf(cs, 3)[k] \in S
    BY <1>1, <1>2
  <2> QED
    <3>1. s2 \in Seq(Nat) /\ \A k \in 1..Len(s2) : k > n => s2[k] \in S
      BY <1>5
    <3> QED
      BY <1>3, <1>d, <2>1, <3>1, JoinedArguments
<1>7. /\ s4 \in Seq(Nat) /\ Len(s4) = Len(s3) + Len(FirstOf(cs, 4))
      /\ \A k \in 1..Len(s3) : s4[k] = s3[k]
      /\ \A k \in 1..Len(s4) : k > n => s4[k] \in S
  <2>1. FirstOf(cs, 4) \in Seq(Nat) /\ \A k \in 1..Len(FirstOf(cs, 4)) : FirstOf(cs, 4)[k] \in S
    BY <1>1, <1>2
  <2> QED
    <3>1. s3 \in Seq(Nat) /\ \A k \in 1..Len(s3) : k > n => s3[k] \in S
      BY <1>6
    <3> QED
      BY <1>3, <1>e, <2>1, <3>1, JoinedArguments
<1>8. Arguments(cs) = s4
  BY <1>b, <1>c, <1>d, <1>e DEF Arguments
<1>9. /\ Len(FirstOf(cs, 1)) \in {0, 1} /\ Len(FirstOf(cs, 2)) \in {0, 1}
      /\ Len(FirstOf(cs, 3)) \in {0, 1} /\ Len(FirstOf(cs, 4)) \in {0, 1}
  BY <1>1
<1>10. ASSUME Equalities(cs, 0) # {} PROVE s4[1] \in Equalities(cs, 0)
  <2>1. n = 1
    BY <1>10, <1>a, FirstOfColumn
  <2>2. FirstOf(cs, 0)[1] \in Equalities(cs, 0)
    BY <1>1, <1>a, <2>1
  <2>3. 1 \in 1..n /\ 1 \in 1..Len(s1) /\ 1 \in 1..Len(s2) /\ 1 \in 1..Len(s3)
    BY <1>4, <1>5, <1>6, <1>9, <2>1
  <2>4. s4[1] = FirstOf(cs, 0)[1]
    <3>1. s4[1] = s3[1]
      BY <1>7, <2>3
    <3>2. s3[1] = s2[1]
      BY <1>6, <2>3
    <3>3. s2[1] = s1[1]
      BY <1>5, <2>3
    <3>4. s1[1] = FirstOf(cs, 0)[1]
      BY <1>4, <2>3
    <3> QED
      BY <3>1, <3>2, <3>3, <3>4
  <2> QED
    BY <2>2, <2>4
<1>11. Len(s4) = n + Len(FirstOf(cs, 1)) + Len(FirstOf(cs, 2)) + Len(FirstOf(cs, 3)) + Len(FirstOf(cs, 4))
  BY <1>4, <1>5, <1>6, <1>7
<1> QED
  BY <1>7, <1>8, <1>10, <1>11, <1>a

\* BestIndex answers with a plan as PlanOK describes it.
LEMMA BestIndexPlan ==
  ASSUME RefsAssumption, NEW cs \in ConstraintLists, cons' = cs, plan' = BestIndex(cs)
  PROVE  /\ PlanOK'
         /\ cons' \in WhereClause
         /\ plan' \in [idxNum : SUBSET Flag, argv : Seq(Nat), omit : SUBSET Nat]
<1>1. cs \in WhereClause
  BY DEF RefsAssumption, WhereClause
<1>2. plan'.idxNum = Flags(cs) /\ plan'.argv = Arguments(cs) /\ plan'.omit = {}
  BY DEF BestIndex
<1>3. plan' \in [idxNum : SUBSET Flag, argv : Seq(Nat), omit : SUBSET Nat]
  BY <1>1, FlagsOf, ArgumentsOf DEF BestIndex
<1>4. /\ Given("CONSTR_ID")' = Len(FirstOf(cs, 0))
      /\ Given("CONSTR_DEF")' =< Len(FirstOf(cs, 1)) + Len(FirstOf(cs, 2))
      /\ Given("CONSTR_DECL")' = 0
      /\ Given("CONSTR_REF")' = Len(FirstOf(cs, 3))
      /\ Given("CONSTR_SPE")' = Len(FirstOf(cs, 4))
  <2>1. /\ "CONSTR_ID" \in plan'.idxNum <=> Equalities(cs, 0) # {}
        /\ "CONSTR_DEF" \in plan'.idxNum <=> Equalities(cs, 1) # {} \/ Equalities(cs, 2) # {}
        /\ "CONSTR_DECL" \notin plan'.idxNum
        /\ "CONSTR_REF" \in plan'.idxNum <=> Equalities(cs, 3) # {}
        /\ "CONSTR_SPE" \in plan'.idxNum <=> Equalities(cs, 4) # {}
    BY <1>2, FlagsOf
  <2>2. \A c \in 0..4 : Len(FirstOf(cs, c)) = IF Equalities(cs, c) = {} THEN 0 ELSE 1
    BY <1>1, FirstOfColumn
  <2>3. /\ Len(FirstOf(cs, 0)) = IF Equalities(cs, 0) = {} THEN 0 ELSE 1
        /\ Len(FirstOf(cs, 1)) = IF Equalities(cs, 1) = {} THEN 0 ELSE 1
        /\ Len(FirstOf(cs, 2)) = IF Equalities(cs, 2) = {} THEN 0 ELSE 1
        /\ Len(FirstOf(cs, 3)) = IF Equalities(cs, 3) = {} THEN 0 ELSE 1
        /\ Len(FirstOf(cs, 4)) = IF Equalities(cs, 4) = {} THEN 0 ELSE 1
    BY <2>2
  <2>4. /\ Given("CONSTR_ID")' = IF "CONSTR_ID" \in plan'.idxNum THEN 1 ELSE 0
        /\ Given("CONSTR_DEF")' = IF "CONSTR_DEF" \in plan'.idxNum THEN 1 ELSE 0
        /\ Given("CONSTR_DECL")' = IF "CONSTR_DECL" \in plan'.idxNum THEN 1 ELSE 0
        /\ Given("CONSTR_REF")' = IF "CONSTR_REF" \in plan'.idxNum THEN 1 ELSE 0
        /\ Given("CONSTR_SPE")' = IF "CONSTR_SPE" \in plan'.idxNum THEN 1 ELSE 0
    BY DEF Given
  <2>5. /\ Given("CONSTR_DECL")' = 0 /\ Given("CONSTR_DEF")' \in {0, 1}
        /\ Given("CONSTR_ID")' = Len(FirstOf(cs, 0))
        /\ Given("CONSTR_REF")' = Len(FirstOf(cs, 3))
        /\ Given("CONSTR_SPE")' = Len(FirstOf(cs, 4))
    BY <2>1, <2>3, <2>4
  <2>6. Given("CONSTR_DEF")' =< Len(FirstOf(cs, 1)) + Len(FirstOf(cs, 2))
    <3>1. CASE "CONSTR_DEF" \in plan'.idxNum
      <4>1. Len(FirstOf(cs, 1)) + Len(FirstOf(cs, 2)) >= 1
        <5>1. Equalities(cs, 1) # {} \/ Equalities(cs, 2) # {}
          BY <2>1, <3>1
        <5>2. Len(FirstOf(cs, 1)) = 1 \/ Len(FirstOf(cs, 2)) = 1
          BY <2>3, <5>1
        <5>3. Len(FirstOf(cs, 1)) \in {0, 1} /\ Len(FirstOf(cs, 2)) \in {0, 1}
          BY <2>3
        <5>4. \A i, j \in {0, 1} : i = 1 \/ j = 1 => i + j >= 1
          OBVIOUS
        <5> QED
          BY <5>2, <5>3, <5>4
      <4>2. Given("CONSTR_DEF")' = 1
        BY <2>4, <3>1
      <4> QED
        BY <4>1, <4>2, <2>3
    <3>2. CASE "CONSTR_DEF" \notin plan'.idxNum
      <4>1. Given("CONSTR_DEF")' = 0
        BY <2>4, <3>2
      <4> QED
        BY <4>1, <2>3
    <3> QED
      BY <3>1, <3>2
  <2> QED
    BY <2>5, <2>6
<1>5. \A flag \in Flag : Given(flag)' \in {0, 1}
  BY DEF Given
<1>6. ArgIndex'["CONSTR_SPE"] = Given("CONSTR_ID")' + Given("CONSTR_DEF")' + Given("CONSTR_DECL")'
                                  + Given("CONSTR_REF")' + Given("CONSTR_SPE")'
  BY DEF ArgIndex
<1>7. ArgIndex'["CONSTR_SPE"] =< Len(plan'.argv)
  <2>1. \A c \in 0..4 : Len(FirstOf(cs, c)) \in {0, 1}
    BY <1>1, FirstOfColumn
  <2>2. Len(plan'.argv) = Len(FirstOf(cs, 0)) + Len(FirstOf(cs, 1)) + Len(FirstOf(cs, 2))
                            + Len(FirstOf(cs, 3)) + Len(FirstOf(cs, 4))
    BY <1>1, <1>2, ArgumentsOf
  <2>3. Given("CONSTR_DEF")' \in {0, 1}
    BY <1>5 DEF Flag
  <2> QED
    BY <1>4, <1>6, <2>1, <2>2, <2>3
<1>8. \A k \in 1..Len(plan'.argv) :
        k > Given("CONSTR_ID")' => plan'.argv[k] \in Usable(cs, 1..4, {"EQ"})
  BY <1>1, <1>2, <1>4, ArgumentsOf
<1>9. /\ "CONSTR_ID" \in plan'.idxNum <=> Equalities(cs, SymbolIdColumn) # {}
      /\ "CONSTR_ID" \in plan'.idxNum => plan'.argv[1] \in Equalities(cs, SymbolIdColumn)
  BY <1>1, <1>2, FlagsOf, ArgumentsOf DEF SymbolIdColumn
<1>10. Usable(cons, 1..4, {"EQ"})' = Usable(cs, 1..4, {"EQ"})
       /\ Equalities(cons, SymbolIdColumn)' = Equalities(cs, SymbolIdColumn)
  BY DEF Usable, Equalities
<1> QED
  BY <1>1, <1>2, <1>3, <1>7, <1>8, <1>9, <1>10 DEF PlanOK

\* The argument Filter reads for a flag other than that of SymbolId is the value
\* of an equality on some kind column, if not always on the flag's own.
LEMMA KindArgument ==
  ASSUME TypeOK, PlanOK, NEW flag \in plan.idxNum \ {"CONSTR_ID"}
  PROVE  plan.argv[ArgIndex[flag]] \in Usable(cons, 1..4, {"EQ"})
<1>1. flag \in {"CONSTR_DEF", "CONSTR_DECL", "CONSTR_REF", "CONSTR_SPE"}
  BY DEF TypeOK, Flag
<1>2. \A f \in Flag : Given(f) \in {0, 1}
  BY DEF Given
<1>3. Given(flag) = 1
  BY DEF Given
<1>4. /\ ArgIndex["CONSTR_DEF"] = Given("CONSTR_ID") + Given("CONSTR_DEF")
      /\ ArgIndex["CONSTR_DECL"] = ArgIndex["CONSTR_DEF"] + Given("CONSTR_DECL")
      /\ ArgIndex["CONSTR_REF"] = ArgIndex["CONSTR_DECL"] + Given("CONSTR_REF")
      /\ ArgIndex["CONSTR_SPE"] = ArgIndex["CONSTR_REF"] + Given("CONSTR_SPE")
  BY DEF ArgIndex
<1>5. /\ Given("CONSTR_ID") \in {0, 1} /\ Given("CONSTR_DEF") \in {0, 1}
      /\ Given("CONSTR_DECL") \in {0, 1} /\ Given("CONSTR_REF") \in {0, 1}
      /\ Given("CONSTR_SPE") \in {0, 1}
  BY <1>2 DEF Flag
<1>6. /\ ArgIndex[flag] \in Nat /\ ArgIndex[flag] > Given("CONSTR_ID")
      /\ ArgIndex[flag] =< ArgIndex["CONSTR_SPE"]
  BY <1>1, <1>3, <1>4, <1>5
<1>7. Len(plan.argv) \in Nat /\ ArgIndex["CONSTR_SPE"] =< Len(plan.argv)
      /\ ArgIndex["CONSTR_SPE"] \in Nat
  BY <1>4, <1>5, LenProperties DEF TypeOK, PlanOK
<1>8. ArgIndex[flag] \in 1..Len(plan.argv)
  BY <1>5, <1>6, <1>7
<1> QED
  BY <1>6, <1>8 DEF PlanOK

\* The argument Filter reads for the flag of SymbolId is the value of an
\* equality on SymbolId.
LEMMA SymbolArgument ==
  ASSUME PlanOK, NEW vs
  PROVE  /\ plan.omit = {}
         /\ "CONSTR_ID" \in plan.idxNum <=> Usable(cons, {SymbolIdColumn}, {"EQ"}) # {}
         /\ "CONSTR_ID" \in plan.idxNum =>
              /\ FlagArg(vs, "CONSTR_ID") = vs[plan.argv[1]]
              /\ plan.argv[1] \in DOMAIN cons
              /\ cons[plan.argv[1]].iColumn = SymbolIdColumn
              /\ cons[plan.argv[1]].op = "EQ"
<1>1. ArgIndex["CONSTR_ID"] = IF "CONSTR_ID" \in plan.idxNum THEN 1 ELSE 0
  BY DEF ArgIndex, Given
<1>2. "CONSTR_ID" \in plan.idxNum => FlagArg(vs, "CONSTR_ID") = vs[plan.argv[1]]
  BY <1>1 DEF FlagArg, Arg
<1> QED
  BY <1>2 DEF PlanOK, Equalities, Usable

\* The values bound at an xFilter have the types TypeOK asks for.
LEMMA BoundValues ==
  ASSUME cons \in WhereClause, NEW vs \in Values(cons)
  PROVE  vs \in Seq(Id \cup {0, 1, NULL} \cup Location)
<1>1. DOMAIN cons = 1..Len(cons) /\ Len(cons) \in Nat
  BY LenProperties DEF WhereClause
<1>2. vs \in [DOMAIN cons -> Id \cup {0, 1, NULL} \cup Location]
  BY DEF Values
<1> QED
  BY <1>1, <1>2, SeqDef

\* What SymbolId and the kinds are compared with.
LEMMA BoundValue ==
  ASSUME NEW vs \in Values(cons), NEW i \in DOMAIN cons
  PROVE  /\ cons[i].iColumn = SymbolIdColumn => vs[i] \in Id \cup {NULL}
         /\ cons[i].iColumn \in 1..4 => vs[i] \in {0, 1, NULL}
<1>1. vs[i] \in Domain(cons[i].iColumn) \cup {NULL}
  BY DEF Values
<1> QED
  BY <1>1 DEF Domain, SymbolIdColumn, PathColumn

-----------------------------------------------------------------------------
(* The inductive invariant.                                                *)

\* A step that neither starts, drops nor examines: what the scan owes and has
\* delivered stays the same, and only a broken channel takes rows away.
LEMMA FrameStep ==
  ASSUME IInv,
         UNCHANGED <<cons, plan, vals, emitted, m_req>>,
         phase' = phase \/ (Scanning /\ (Scanning' \/ phase' = "done")),
         StreamInv(Row)', Unread' \subseteq Unread,
         rpc' = "broken" \/ Unread' = Unread,
         rpc = "broken" => rpc' = "broken",
         rpc' = "none" <=> rpc = "none"
  PROVE  IInv'
<1> USE DEF IInv
<1>1. TypeOK'
  BY DEF TypeOK, StreamInv
<1>2. PlanOK'
  BY DEF PlanOK, Usable, Equalities, ArgIndex, Given
<1>3. RequestOK'
  BY DEF RequestOK, Started, Scanning, Usable, Values, Domain
<1>4. Promised' = Promised /\ AsksForZero' = AsksForZero
  BY DEF Promised, AsksForZero, Usable, Value, Holds
<1>5. Answer(m_req)' = Answer(m_req)
  BY DEF Answer, Range
<1>6. Accounting'
  BY <1>4, <1>5 DEF Accounting, Started, Scanning
<1> QED
  BY <1>1, <1>2, <1>3, <1>6

\* A step to a phase in which no scan is going on.
LEMMA IdleStep ==
  ASSUME IInv, PlanOK', TypeOK', StreamInv(Row)',
         plan'.idxNum = {} \/ phase' = "prepared" => rpc' = "none" /\ m_req' = NoRequest,
         phase' \in {"prepared", "opened", "aborted"}
  PROVE  IInv'
<1>1. ~Started'
  BY DEF Started, Scanning
<1>2. RequestOK'
  BY <1>1 DEF RequestOK
<1>3. Accounting'
  BY <1>1 DEF Accounting
<1> QED
  BY <1>2, <1>3 DEF IInv

\* Before anything is prepared the invariant holds.
LEMMA InitIInv ==
  ASSUME RefsAssumption, Init
  PROVE  IInv
<1> USE DEF Init, ScanInit
<1>1. wire = <<>> /\ 1..Len(wire) = {} /\ ~AtRow /\ ~MayRead /\ ~AtEnd
  BY EmptySeq DEF AtRow, MayRead, AtEnd
<1>2. ScanTypeOK(Row)
  BY EmptySeq DEF ScanTypeOK, NotSet
<1>3. StreamInv(Row)
  BY <1>1, <1>2 DEF StreamInv, EndOfStream, OnePlace, Unread, OnWire
<1>4. TypeOK
  <2>1. NoPlan \in [idxNum : SUBSET Flag, argv : Seq(Nat), omit : SUBSET Nat]
    BY EmptySeq DEF NoPlan
  <2>2. NoRequest \in [ids : Seq(Id), filter : SUBSET RefKind]
    BY EmptySeq DEF NoRequest
  <2> QED
    BY <1>2, <2>1, <2>2, EmptySeq DEF TypeOK
<1>5. PlanOK
  <2>1. DOMAIN cons = {} /\ Equalities(cons, SymbolIdColumn) = {}
    BY EmptySeq DEF Equalities, Usable
  <2>2. plan.idxNum = {} /\ plan.argv = <<>> /\ plan.omit = {} /\ Len(plan.argv) = 0
    BY EmptySeq DEF NoPlan
  <2>3. ArgIndex["CONSTR_SPE"] = 0
    BY <2>2 DEF ArgIndex, Given
  <2> QED
    BY <2>1, <2>2, <2>3 DEF PlanOK
<1>6. RequestOK /\ Accounting
  BY DEF RequestOK, Accounting, Started, Scanning
<1> QED
  BY <1>3, <1>4, <1>5, <1>6 DEF IInv

\* xBestIndex.
LEMMA PrepareIInv ==
  ASSUME RefsAssumption, IInv, UNCHANGED m_req,
         NEW cs \in ConstraintLists, Prepare(cs, BestIndex(cs))
  PROVE  IInv'
<1> USE DEF IInv
<1>1. cons' = cs /\ plan' = BestIndex(cs)
  BY DEF Prepare
<1>2. /\ phase = "unprepared" /\ phase' = "prepared"
      /\ UNCHANGED <<vals, m_eof, streamVars, emitted>>
  BY DEF Prepare
<1>3. /\ PlanOK'
      /\ cons' \in WhereClause
      /\ plan' \in [idxNum : SUBSET Flag, argv : Seq(Nat), omit : SUBSET Nat]
  BY <1>1, BestIndexPlan
<1>4. StreamInv(Row)'
  BY <1>2, OutsideStream
<1>5. TypeOK'
  BY <1>2, <1>3, <1>4 DEF TypeOK, StreamInv, WhereClause
<1>6. rpc' = "none" /\ m_req' = NoRequest
  BY <1>2 DEF RequestOK, streamVars
<1> QED
  BY <1>2, <1>3, <1>4, <1>5, <1>6, IdleStep

\* xOpen.
LEMMA OpenIInv ==
  ASSUME IInv, OpenCursor, UNCHANGED m_req
  PROVE  IInv'
<1> USE DEF IInv
<1>1. /\ phase' = "opened"
      /\ UNCHANGED <<cons, plan, vals, m_eof, streamVars, emitted>>
  BY DEF OpenCursor
<1>2. StreamInv(Row)'
  BY <1>1, OutsideStream
<1>3. TypeOK'
  BY <1>1, <1>2 DEF TypeOK, StreamInv
<1>4. PlanOK'
  BY <1>1 DEF PlanOK, Usable, Equalities, ArgIndex, Given
<1> QED
  BY <1>1, <1>2, <1>3, <1>4, IdleStep DEF RequestOK, streamVars

\* xClose.
LEMMA CloseIInv ==
  ASSUME IInv, Close
  PROVE  IInv'
<1> USE DEF IInv
<1>1. /\ phase' = "prepared" /\ m_req' = NoRequest /\ vals' = <<>> /\ rpc' = "none"
      /\ UNCHANGED <<cons, plan>>
  BY DEF Close, CloseCursor
<1>2. StreamInv(Row)'
  BY CloseCursorStream DEF Close
<1>3. TypeOK'
  <2>1. NoRequest \in [ids : Seq(Id), filter : SUBSET RefKind]
    BY EmptySeq DEF NoRequest
  <2>2. vals' \in Seq(Id \cup {0, 1, NULL} \cup Location)
    BY <1>1, EmptySeq
  <2> QED
    BY <1>1, <1>2, <2>1, <2>2 DEF TypeOK, StreamInv
<1>4. PlanOK'
  BY <1>1 DEF PlanOK, Usable, Equalities, ArgIndex, Given
<1> QED
  BY <1>1, <1>2, <1>3, <1>4, IdleStep

\* The request of an xFilter: it names the symbol SQLite compares SymbolId
\* with, and leaves kinds out only for a kind compared with zero or NULL.
LEMMA RequestOf ==
  ASSUME TypeOK, PlanOK, NEW vs \in Values(cons),
         "CONSTR_ID" \in plan.idxNum => FlagArg(vs, "CONSTR_ID") # NULL,
         NEW req,
         req = [ids |-> IF "CONSTR_ID" \in plan.idxNum THEN <<FlagArg(vs, "CONSTR_ID")>> ELSE <<>>,
                filter |-> RequestFilter(vs)]
  PROVE  /\ req \in [ids : Seq(Id), filter : SUBSET RefKind]
         /\ req.ids = IF "CONSTR_ID" \in plan.idxNum THEN <<vs[plan.argv[1]]>> ELSE <<>>
         /\ \/ req.filter = RefKind
            \/ \E i \in Usable(cons, 1..4, {"EQ"}) : vs[i] \in {0, NULL}
<1>1. RequestFilter(vs) \in SUBSET RefKind
  BY DEF RequestFilter
<1>2. /\ req.ids = IF "CONSTR_ID" \in plan.idxNum THEN <<vs[plan.argv[1]]>> ELSE <<>>
      /\ req.ids \in Seq(Id)
  <2>1. CASE "CONSTR_ID" \in plan.idxNum
    <3>1. /\ FlagArg(vs, "CONSTR_ID") = vs[plan.argv[1]]
          /\ plan.argv[1] \in DOMAIN cons /\ cons[plan.argv[1]].iColumn = SymbolIdColumn
      BY <2>1, SymbolArgument
    <3>2. vs[plan.argv[1]] \in Id
      BY <2>1, <3>1, BoundValue
    <3>3. <<vs[plan.argv[1]]>> \in Seq(Id)
      BY <3>2
    <3> QED
      BY <2>1, <3>1, <3>3
  <2>2. CASE "CONSTR_ID" \notin plan.idxNum
    BY <2>2, EmptySeq
  <2> QED
    BY <2>1, <2>2
<1>3. ASSUME RequestFilter(vs) # RefKind
      PROVE  \E i \in Usable(cons, 1..4, {"EQ"}) : vs[i] \in {0, NULL}
  <2>1. PICK flag \in plan.idxNum \ {"CONSTR_ID"} : IntValue(FlagArg(vs, flag)) = 0
    BY <1>3 DEF RequestFilter
  <2>2. PICK i : i = plan.argv[ArgIndex[flag]]
    OBVIOUS
  <2>3. i \in Usable(cons, 1..4, {"EQ"}) /\ i \in DOMAIN cons /\ cons[i].iColumn \in 1..4
    BY <2>2, KindArgument DEF Usable
  <2>4. vs[i] \in {0, 1, NULL}
    BY <2>3, BoundValue
  <2>5. vs[i] # 1
    BY <2>1, <2>2 DEF IntValue, FlagArg, Arg
  <2> QED
    BY <2>3, <2>4, <2>5
<1> QED
  BY <1>1, <1>2, <1>3

\* xFilter with arguments: what the scan owes is part of the answer, because the
\* request names the one symbol whose references it owes.
LEMMA FilterRequestIInv ==
  ASSUME RefsAssumption, IInv, FilterRequest
  PROVE  IInv'
<1> USE DEF IInv
<1>1. PICK vs \in Values(cons) :
        /\ "CONSTR_ID" \in plan.idxNum => FlagArg(vs, "CONSTR_ID") # NULL
        /\ vals' = vs
        /\ m_req' = [ids |-> IF "CONSTR_ID" \in plan.idxNum
                               THEN <<FlagArg(vs, "CONSTR_ID")>> ELSE <<>>,
                     filter |-> RequestFilter(vs)]
  BY DEF FilterRequest
<1> DEFINE rows == Answer(m_req')
<1>2. /\ StartStream(rows) /\ plan.idxNum # {}
      /\ emitted' = {} /\ phase' = "reading"
      /\ UNCHANGED <<cons, plan, m_eof>>
  BY DEF FilterRequest
<1>3. rows \in SUBSET Row
  BY DEF Answer, RefsAssumption
<1>4. StreamInv(Row)' /\ Unread' = rows /\ rpc' = "streaming"
  BY <1>2, <1>3, StartStreamStream DEF StartStream
<1>5. /\ m_req' \in [ids : Seq(Id), filter : SUBSET RefKind]
      /\ m_req'.ids = IF "CONSTR_ID" \in plan.idxNum THEN <<vs[plan.argv[1]]>> ELSE <<>>
      /\ \/ m_req'.filter = RefKind
         \/ \E i \in Usable(cons, 1..4, {"EQ"}) : vs[i] \in {0, NULL}
  BY <1>1, RequestOf
<1>6. TypeOK'
  <2>1. vals' \in Seq(Id \cup {0, 1, NULL} \cup Location)
    BY <1>1, BoundValues DEF TypeOK, WhereClause
  <2> QED
    BY <1>2, <1>4, <1>5, <2>1 DEF TypeOK, StreamInv
<1>7. PlanOK'
  BY <1>2 DEF PlanOK, Usable, Equalities, ArgIndex, Given
<1>8. RequestOK'
  <2>1. Values(cons)' = Values(cons) /\ Usable(cons, 1..4, {"EQ"})' = Usable(cons, 1..4, {"EQ"})
    BY <1>2 DEF Values, Domain, Usable
  <2> QED
    BY <1>1, <1>2, <1>4, <1>5, <2>1 DEF RequestOK
<1>9. ASSUME NEW row \in Promised', ~AsksForZero' PROVE row \in rows
  <2>1. PICK id \in Id : /\ row \in Refs[id]
                         /\ \A i \in DOMAIN cons :
                              Holds(cons[i].op, Value(id, row, cons[i].iColumn), vs[i])
    BY <1>1, <1>2, <1>9 DEF Promised
  <2>2. "CONSTR_ID" \in plan.idxNum
    BY <1>2, <1>9, SymbolArgument DEF Promised
  <2>3. PICK k : k = plan.argv[1]
    OBVIOUS
  <2>4. k \in DOMAIN cons /\ cons[k].iColumn = SymbolIdColumn /\ cons[k].op = "EQ"
    BY <2>2, <2>3, SymbolArgument
  <2>5. vs[k] = id
    BY <2>1, <2>4 DEF Holds, Value
  <2>6. id \in Range(m_req'.ids)
    BY <1>5, <2>2, <2>3, <2>5 DEF Range
  <2>7. m_req'.filter = RefKind
    <3>1. SUFFICES ASSUME NEW i \in Usable(cons, 1..4, {"EQ"}), vs[i] \in {0, NULL} PROVE FALSE
      BY <1>5
    <3>2. vs[i] # NULL
      BY <2>1 DEF Holds, Usable
    <3> QED
      BY <1>1, <1>2, <1>9, <3>1, <3>2 DEF AsksForZero
  <2>8. row \in Row
    BY <2>1 DEF RefsAssumption
  <2>9. row.kind \cap RefKind # {}
    <3>1. row.kind \in (SUBSET RefKind) \ {{}}
      BY <2>8 DEF Row
    <3>2. PICK kind : kind \in row.kind
      BY <3>1
    <3> QED
      BY <3>1, <3>2
  <2> QED
    BY <2>1, <2>6, <2>7, <2>9 DEF Answer
<1>10. Accounting'
  BY <1>2, <1>4, <1>9 DEF Accounting
<1> QED
  BY <1>4, <1>6, <1>7, <1>8, <1>10

\* xFilter without arguments: nothing is owed and nothing is delivered.
LEMMA FilterNothingIInv ==
  ASSUME IInv, FilterNothing
  PROVE  IInv'
<1> USE DEF IInv
<1>1. /\ plan.idxNum = {} /\ vals' \in Values(cons) /\ m_eof' = TRUE
      /\ emitted' = {} /\ phase' = "positioned"
      /\ UNCHANGED <<cons, plan, rpc, pending, wire, m_reply, m_req>>
  BY DEF FilterNothing, streamVars
<1>2. rpc = "none" /\ m_req = NoRequest
  BY <1>1 DEF RequestOK
<1>3. pending = {} /\ wire = <<>> /\ 1..Len(wire) = {}
  BY <1>2, EmptySeq DEF StreamInv, EndOfStream
<1>4. ~AtRow' /\ ~MayRead' /\ Unread' = {}
  BY <1>1, <1>3 DEF AtRow, MayRead, Unread, OnWire
<1>5. StreamInv(Row)'
  <2>1. ScanTypeOK(Row)'
    BY <1>1 DEF StreamInv, ScanTypeOK
  <2>2. EndOfStream'
    BY <1>1, <1>2, <1>3, <1>4 DEF EndOfStream
  <2>3. OnePlace'
    BY <1>1, <1>3, <1>4 DEF OnePlace
  <2> QED
    BY <2>1, <2>2, <2>3 DEF StreamInv
<1>6. TypeOK'
  <2>1. vals' \in Seq(Id \cup {0, 1, NULL} \cup Location)
    BY <1>1, BoundValues DEF TypeOK, WhereClause
  <2> QED
    BY <1>1, <1>5, <2>1 DEF TypeOK, StreamInv
<1>7. PlanOK'
  BY <1>1 DEF PlanOK, Usable, Equalities, ArgIndex, Given
<1>8. RequestOK'
  BY <1>1, <1>2 DEF RequestOK, NoRequest, Values, Domain
<1>9. Promised' = {}
  BY <1>1, SymbolArgument DEF Promised, Usable
<1>10. Accounting'
  BY <1>1, <1>4, <1>9 DEF Accounting
<1> QED
  BY <1>5, <1>6, <1>7, <1>8, <1>10

\* xFilter with a NULL for SymbolId ends the process.
LEMMA FilterNullIInv ==
  ASSUME IInv, FilterNull
  PROVE  IInv'
<1> USE DEF IInv
<1>1. /\ "CONSTR_ID" \in plan.idxNum /\ vals' \in Values(cons) /\ phase' = "aborted"
      /\ UNCHANGED <<cons, plan, m_eof, streamVars, emitted, m_req>>
  BY DEF FilterNull
<1>2. StreamInv(Row)'
  BY <1>1, OutsideStream
<1>3. TypeOK'
  <2>1. vals' \in Seq(Id \cup {0, 1, NULL} \cup Location)
    BY <1>1, BoundValues DEF TypeOK, WhereClause
  <2> QED
    BY <1>1, <1>2, <2>1 DEF TypeOK, StreamInv
<1>4. PlanOK'
  BY <1>1 DEF PlanOK, Usable, Equalities, ArgIndex, Given
<1> QED
  BY <1>1, <1>2, <1>3, <1>4, IdleStep

\* A row of the answer refers to the symbol SymbolId is compared with.
LEMMA AnsweredRow ==
  ASSUME RequestOK, PlanOK, Started, NEW row \in Answer(m_req)
  PROVE  /\ "CONSTR_ID" \in plan.idxNum
         /\ m_req.ids = <<vals[plan.argv[1]]>>
         /\ vals[plan.argv[1]] \in Id /\ row \in Refs[vals[plan.argv[1]]]
<1>1. m_req.ids = IF "CONSTR_ID" \in plan.idxNum THEN <<vals[plan.argv[1]]>> ELSE <<>>
  BY DEF RequestOK
<1>2. PICK id \in Id \cap Range(m_req.ids) : row \in Refs[id]
  BY DEF Answer
<1>3. "CONSTR_ID" \in plan.idxNum
  BY <1>1, <1>2, EmptySeq DEF Range
<1>4. id = vals[plan.argv[1]]
  BY <1>1, <1>2, <1>3 DEF Range
<1> QED
  BY <1>1, <1>2, <1>3, <1>4

\* xEof, xColumn and SQLite's test: a row is accepted exactly if the scan owes it.
LEMMA ExamineIInv ==
  ASSUME IInv, Examine(Passes), UNCHANGED m_req
  PROVE  IInv'
<1> USE DEF IInv
<1> DEFINE row == m_reply.row
           symbol == vals[plan.argv[1]]
           Matches(id) == \A i \in DOMAIN cons :
                            Holds(cons[i].op, Value(id, row, cons[i].iColumn), vals[i])
<1>1. /\ AtRow /\ Started /\ Started' /\ phase' = "examined"
      /\ UNCHANGED <<cons, plan, vals, m_eof, streamVars>>
  BY DEF Examine, AtRow, Started, Scanning
<1>2. row \in Unread /\ row \in Answer(m_req)
  BY <1>1 DEF Unread, Accounting
<1>3. /\ "CONSTR_ID" \in plan.idxNum /\ m_req.ids = <<symbol>>
      /\ symbol \in Id /\ row \in Refs[symbol]
  BY <1>1, <1>2, AnsweredRow
<1>4. emitted' = IF Matches(symbol) THEN emitted \cup {row} ELSE emitted
  <2>1. plan.omit = {} /\ m_req.ids[1] = symbol
    BY <1>3, SymbolArgument
  <2>2. Passes <=> Matches(symbol)
    BY <2>1 DEF Passes, Column
  <2> HIDE DEF Matches
  <2> QED
    BY <2>2 DEF Examine
<1>5. row \in Promised <=> Matches(symbol)
  <2>1. /\ plan.argv[1] \in DOMAIN cons /\ cons[plan.argv[1]].iColumn = SymbolIdColumn
        /\ cons[plan.argv[1]].op = "EQ" /\ Usable(cons, {SymbolIdColumn}, {"EQ"}) # {}
    BY <1>3, SymbolArgument
  <2>2. ASSUME NEW id, Matches(id) PROVE id = symbol
    BY <2>1, <2>2 DEF Holds, Value
  <2>3. row \in Promised <=> \E id \in Id : row \in Refs[id] /\ Matches(id)
    <3>1. Promised = UNION {{r \in Refs[id] :
                              \A i \in DOMAIN cons :
                                Holds(cons[i].op, Value(id, r, cons[i].iColumn), vals[i])} :
                            id \in Id}
      BY <2>1 DEF Promised
    <3> HIDE DEF row
    <3> QED
      BY <3>1
  <2> HIDE DEF Matches, symbol, row
  <2> QED
    BY <1>3, <2>2, <2>3
<1> HIDE DEF Matches
<1>6. StreamInv(Row)' /\ Unread' = Unread \ {row}
  BY <1>1, <1>4, ExamineStream
<1>7. TypeOK'
  BY <1>1, <1>6 DEF TypeOK, StreamInv
<1>8. PlanOK'
  BY <1>1 DEF PlanOK, Usable, Equalities, ArgIndex, Given
<1>9. RequestOK'
  BY <1>1 DEF RequestOK, streamVars, Usable, Values, Domain
<1>10. Promised' = Promised /\ AsksForZero' = AsksForZero
  BY <1>1 DEF Promised, AsksForZero, Usable, Value, Holds
<1>11. Answer(m_req)' = Answer(m_req) /\ rpc' = rpc
  BY <1>1 DEF Answer, Range, streamVars
<1>12. Accounting'
  BY <1>1, <1>4, <1>5, <1>6, <1>10, <1>11 DEF Accounting
<1> QED
  BY <1>6, <1>7, <1>8, <1>9, <1>12

\* The steps that only move rows along.
LEMMA StreamIInv ==
  ASSUME IInv, UNCHANGED m_req,
         SeeEof \/ CallNext \/ ReadReply \/ ServerSend \/ ServerFinish \/ ChannelBreak
  PROVE  IInv'
<1>1. StreamInv(Row)
  BY DEF IInv
<1>2. CASE SeeEof
  BY <1>1, <1>2, SeeEofStream, FrameStep DEF SeeEof, streamVars, Scanning
<1>3. CASE CallNext
  BY <1>1, <1>3, CallNextStream, FrameStep DEF CallNext, streamVars, Scanning
<1>4. CASE ReadReply
  BY <1>1, <1>4, ReadReplyStream, FrameStep DEF ReadReply, Scanning
<1>5. CASE ServerSend
  BY <1>1, <1>5, ServerSendStream, FrameStep DEF ServerSend
<1>6. CASE ServerFinish
  BY <1>1, <1>6, ServerFinishStream, FrameStep DEF ServerFinish
<1>7. CASE ChannelBreak
  BY <1>1, <1>7, ChannelBreakStream, FrameStep DEF ChannelBreak
<1> QED
  BY <1>2, <1>3, <1>4, <1>5, <1>6, <1>7

\* A step that changes nothing.
LEMMA StutterIInv ==
  ASSUME IInv, UNCHANGED vars
  PROVE  IInv'
<1> USE DEF vars, scanVars
<1>1. StreamInv(Row)' /\ Unread' = Unread
  BY DEF IInv, StreamInv, ScanTypeOK, EndOfStream, OnePlace, Unread, OnWire,
         MayRead, AtEnd, AtRow
<1> QED
  BY <1>1, FrameStep

\* Every step preserves the invariant.
LEMMA NextIInv ==
  ASSUME RefsAssumption, IInv, [Next]_vars
  PROVE  IInv'
<1>1. CASE Client
  BY <1>1, PrepareIInv, OpenIInv, StreamIInv, ExamineIInv, FilterRequestIInv, FilterNothingIInv,
     FilterNullIInv, CloseIInv DEF Client
<1>2. CASE Server
  BY <1>2, StreamIInv DEF Server
<1>3. CASE Aborted \/ UNCHANGED vars
  BY <1>3, StutterIInv DEF Aborted
<1> QED
  BY <1>1, <1>2, <1>3 DEF Next

\* The inductive invariant holds in every reachable state.
THEOREM Inductive == Spec => []IInv
<1>1. Init => IInv
  BY InitIInv, RefsAssumption
<1>2. IInv /\ [Next]_vars => IInv'
  BY NextIInv, RefsAssumption
<1> QED
  BY <1>1, <1>2, PTL DEF Spec

-----------------------------------------------------------------------------
(* What follows from it.                                                   *)

\* Type correctness: a request never names a NULL, and no reply is taken for a
\* row that is none.
THEOREM TypeCorrect == Spec => []TypeOK
<1>1. IInv => TypeOK
  BY DEF IInv
<1> QED
  BY <1>1, Inductive, PTL

\* SQLite accepts only references that satisfy the WHERE clause, whichever
\* argument is read for which flag and whatever the server and the channel do.
THEOREM Sound == Spec => []ScanSound
<1>1. IInv => ScanSound
  BY DEF IInv, Accounting, ScanSound
<1> QED
  BY <1>1, Inductive, PTL

\* At the end of a complete answer the scan has delivered exactly what it owes,
\* unless it asks for a zero.
LEMMA EndedScan ==
  ASSUME IInv, AtEnd, ServerComplete, ~AsksForZero
  PROVE  emitted = Promised
<1>1. Unread = {}
  BY EndedStream DEF IInv
<1>2. rpc # "broken" /\ Started
  BY DEF ServerComplete, AtEnd, Started, Scanning
<1> QED
  BY <1>1, <1>2 DEF IInv, Accounting

\* A scan that asks for no zero and runs to the end of a complete answer misses
\* no reference.
THEOREM Complete == Spec => []ScanComplete
<1>1. IInv => ScanComplete
  BY EndedScan DEF ScanComplete, AtEnd
<1> QED
  BY <1>1, Inductive, PTL

\* The row under the cursor belongs to the request in force, from which its
\* SymbolId can be read back, and is new.
THEOREM Fresh == Spec => []CurrentRowIsFresh
<1>1. IInv => CurrentRowIsFresh
  <2> SUFFICES ASSUME IInv, AtRow
               PROVE  /\ IsRow(m_reply)
                      /\ m_req.ids # <<>>
                      /\ m_reply.row \in Answer(m_req)
                      /\ m_reply.row \notin emitted
    BY DEF CurrentRowIsFresh, AtRow
  <2>1. Started /\ m_reply.row \in Unread
    BY DEF AtRow, Started, Scanning, Unread
  <2>2. m_reply.row \in Answer(m_req) /\ m_reply.row \notin emitted /\ IsRow(m_reply)
    BY <2>1 DEF IInv, Accounting, StreamInv, OnePlace
  <2>3. m_req.ids # <<>>
    BY <2>1, <2>2, AnsweredRow DEF IInv
  <2> QED
    BY <2>2, <2>3
<1> QED
  BY <1>1, Inductive, PTL

-----------------------------------------------------------------------------
(* RefsTable implements TableScan.                                         *)

\* What is owed is part of the index.
LEMMA PromisedRows ==
  ASSUME RefsAssumption
  PROVE  (Promised \in SUBSET Row)'
<1>1. \A id \in Id : Refs[id] \subseteq Row
  BY DEF RefsAssumption
<1> QED
  BY <1>1 DEF Promised

\* As long as the scan and its values are the same, so are what it owes and
\* whether it asks for a zero.
LEMMA SamePromise ==
  ASSUME UNCHANGED <<cons, vals>>
  PROVE  Promised' = Promised /\ AsksForZero' = AsksForZero
BY DEF Promised, AsksForZero, Usable, Value, Holds

\* Every step of the table is a step of the abstract scan, or changes nothing
\* in it.
LEMMA StepRefines ==
  ASSUME RefsAssumption, IInv, IInv', [Next]_vars
  PROVE  [Scan!Next]_(Scan!vars)
<1> DEFINE state == ScanState(ServerComplete /\ ~AsksForZero)
           want == IF Started THEN Promised ELSE {}
           got == IF Started THEN emitted ELSE {}
<1>a. [Scan!Next]_(Scan!vars) <=>
        \/ state' = "scanning" /\ want' \in SUBSET Row /\ got' = {}
        \/ /\ state = "scanning" /\ \E row \in want \ got : got' = got \cup {row}
           /\ state' = state /\ want' = want
        \/ state = "scanning" /\ got = want /\ state' = "ended" /\ want' = want /\ got' = got
        \/ state = "scanning" /\ state' = "failed" /\ want' = want /\ got' = got
        \/ state' = "idle" /\ want' = {} /\ got' = {}
        \/ state' = state /\ want' = want /\ got' = got
  BY DEF Scan!Next, Scan!vars, Scan!Begin, Scan!Deliver, Scan!End, Scan!Fail, Scan!Drop
<1>b. ASSUME ~Started' PROVE state' = "idle" /\ want' = {} /\ got' = {}
  BY <1>b DEF Started, ScanState
<1>c. ASSUME Scanning, Scanning', UNCHANGED <<cons, vals>>
      PROVE  /\ state = "scanning" /\ state' = "scanning" /\ want' = want
             /\ want = Promised /\ got = emitted /\ got' = emitted'
  BY <1>c, SamePromise DEF Started, ScanState
<1> HIDE DEF state, want, got
<1>1. CASE ~Started'
  BY <1>1, <1>a, <1>b
<1>2. CASE FilterRequest \/ FilterNothing
  <2>1. Started' /\ Scanning' /\ emitted' = {}
    BY <1>2 DEF FilterRequest, FilterNothing, Started, Scanning
  <2>2. state' = "scanning" /\ want' = Promised' /\ got' = {}
    BY <2>1 DEF state, want, got, ScanState
  <2>3. Promised' \in SUBSET Row
    BY PromisedRows
  <2> QED
    BY <1>a, <2>2, <2>3
<1>3. CASE SeeEof /\ UNCHANGED m_req
  <2>1. /\ Scanning /\ Started /\ Started' /\ phase' = "done" /\ ~Scanning' /\ AtEnd
        /\ UNCHANGED <<cons, vals, rpc, pending, emitted>>
    BY <1>3 DEF SeeEof, Scanning, Started, AtEnd, streamVars
  <2>2. Promised' = Promised /\ AsksForZero' = AsksForZero
    BY <2>1, SamePromise
  <2>3. state = "scanning" /\ want' = want /\ got' = got /\ want = Promised /\ got = emitted
    BY <2>1, <2>2 DEF state, want, got, ScanState
  <2>4. CASE ServerComplete' /\ ~AsksForZero'
    <3>1. emitted = Promised
      BY <2>1, <2>2, <2>4, EndedScan DEF ServerComplete
    <3>2. state' = "ended"
      BY <2>1, <2>4 DEF state, ScanState
    <3> QED
      BY <1>a, <2>3, <3>1, <3>2
  <2>5. CASE ~(ServerComplete' /\ ~AsksForZero')
    <3>1. state' = "failed"
      BY <2>1, <2>5 DEF state, ScanState
    <3> QED
      BY <1>a, <2>3, <3>1
  <2> QED
    BY <2>4, <2>5
<1>4. CASE Examine(Passes) /\ UNCHANGED m_req
  <2>1. /\ AtRow /\ Scanning /\ Scanning' /\ Started /\ Started'
        /\ emitted' \in {emitted, emitted \cup {m_reply.row}}
        /\ UNCHANGED <<cons, vals>>
    BY <1>4 DEF Examine, AtRow, Scanning, Started
  <2>2. /\ state = "scanning" /\ state' = "scanning" /\ want' = want
        /\ want = Promised /\ got = emitted /\ got' = emitted'
    BY <1>c, <2>1
  <2>3. m_reply.row \notin emitted
    BY <2>1 DEF IInv, StreamInv, OnePlace, Unread
  <2>4. emitted' \subseteq Promised
    BY <2>1, SamePromise DEF IInv, Accounting
  <2> QED
    BY <1>a, <2>1, <2>2, <2>3, <2>4
<1>5. CASE (CallNext \/ ReadReply) /\ UNCHANGED m_req
  <2>1. Scanning /\ Scanning' /\ UNCHANGED <<cons, vals, emitted>>
    BY <1>5 DEF CallNext, ReadReply, Scanning
  <2> QED
    BY <1>a, <1>c, <2>1
<1>6. CASE Server /\ Started'
  <2>1. UNCHANGED <<phase, cons, vals, m_eof, emitted>>
    BY <1>6 DEF Server, ServerSend, ServerFinish, ChannelBreak
  <2>2. rpc = "streaming" \/ wire # <<>>
    BY <1>6 DEF Server, ServerSend, ServerFinish, ChannelBreak
  <2>3. phase # "done"
    BY <2>2 DEF IInv, StreamInv, EndOfStream, AtEnd
  <2>4. Scanning /\ Scanning'
    BY <1>6, <2>1, <2>3 DEF Started, Scanning
  <2> QED
    BY <1>a, <1>c, <2>1, <2>4
<1>7. CASE UNCHANGED vars
  <2>1. state' = state /\ want' = want /\ got' = got
    BY <1>7, SamePromise
    DEF vars, scanVars, state, want, got, ScanState, ServerComplete, Started, Scanning
  <2> QED
    BY <1>a, <2>1
<1> QED
  <2>1. /\ OpenCursor \/ FilterNull \/ Close => ~Started'
        /\ \A cs \in ConstraintLists : Prepare(cs, BestIndex(cs)) => ~Started'
    BY DEF Prepare, OpenCursor, FilterNull, Close, CloseCursor, Started, Scanning
  <2> QED
    BY <1>1, <1>2, <1>3, <1>4, <1>5, <1>6, <1>7, <2>1 DEF Next, Client, Aborted

\* The cursor implements the scan a virtual table promises SQLite; a scan that
\* asks for a zero counts as one that fails.
THEOREM Refines == Spec => ImplementsTableScan
<1>1. Init => Scan!Init
  BY DEF Init, ScanInit, Scan!Init, ScanState, Started, Scanning
<1>2. IInv /\ IInv' /\ [Next]_vars => [Scan!Next]_(Scan!vars)
  BY StepRefines, RefsAssumption
<1> QED
  BY <1>1, <1>2, Inductive, PTL DEF Spec, ImplementsTableScan, Scan!Spec

-----------------------------------------------------------------------------
(* A scan gets on.  The index has to be finite: what the server answers    *)
(* otherwise has no end.                                                   *)

\* What the server has not sent yet is part of what it says of one symbol.
LEMMA PendingFinite ==
  ASSUME RefsAssumption, \A id \in Id : IsFiniteSet(Refs[id]), IInv, Scanning
  PROVE  IsFiniteSet(pending)
<1>1. pending \subseteq Answer(m_req) /\ m_req.ids \in Seq(Id)
  BY DEF IInv, Accounting, Started, Unread, TypeOK
<1>2. Started
  BY DEF Started
<1>3. CASE m_req.ids = <<>>
  <2>1. Range(m_req.ids) = {}
    BY <1>3 DEF Range
  <2>2. Answer(m_req) = {}
    BY <2>1 DEF Answer
  <2> QED
    BY <1>1, <2>2, FS_EmptySet
<1>4. CASE m_req.ids = <<vals[plan.argv[1]]>>
  <2> DEFINE id == vals[plan.argv[1]]
  <2>1. m_req.ids = <<id>>
    BY <1>4
  <2>2. 1 \in DOMAIN m_req.ids /\ m_req.ids[1] = id /\ DOMAIN m_req.ids = {1}
    BY <2>1
  <2>3. Range(m_req.ids) = {id}
    BY <2>2 DEF Range
  <2>4. id \in Id
    BY <1>1, <2>2
  <2>5. Answer(m_req) \subseteq Refs[id]
    BY <2>3, <2>4 DEF Answer
  <2> QED
    BY <1>1, <2>4, <2>5, FS_Subset
<1> QED
  BY <1>2, <1>3, <1>4 DEF IInv, RequestOK

\* Each step of a scan leaves less of it to do, or is an xFilter.
LEMMA StepGetsOn ==
  ASSUME RefsAssumption, \A id \in Id : IsFiniteSet(Refs[id]), IInv, IInv', Scanning, Next
  PROVE  Work' < Work \/ StartStream(pending') \/ FilterNothing
<1>1. IsFiniteSet(pending)
  BY PendingFinite
<1>2. StreamInv(Row) /\ StreamInv(Row)' /\ ScanTypeOK(Row)
  BY DEF IInv, StreamInv
<1>3. CASE Server
  BY <1>1, <1>2, <1>3, ServerWork DEF Server
<1>4. CASE ReadReply
  BY <1>1, <1>2, <1>4, ReadWork
<1>5. CASE SeeEof \/ Examine(Passes) \/ CallNext \/ FilterNull
  <2>1. UNCHANGED streamVars /\ UNCHANGED m_eof
    BY <1>5 DEF SeeEof, Examine, CallNext, FilterNull
  <2>2. \/ phase = "positioned" /\ ~m_eof /\ phase' = "examined"
        \/ phase = "positioned" /\ m_eof /\ phase' = "done"
        \/ phase = "examined" /\ phase' = "reading"
        \/ Scanning /\ phase # "reading" /\ phase' = "aborted"
    BY <1>5 DEF SeeEof, Examine, CallNext, FilterNull, Idle
  <2> QED
    BY <1>1, <1>2, <2>1, <2>2, ClientWork
<1>6. CASE Close
  BY <1>1, <1>2, <1>6, CloseWork DEF Close
<1>7. CASE FilterRequest
  BY <1>7 DEF FilterRequest, StartStream
<1>8. /\ ~Aborted /\ ~OpenCursor
      /\ \A cs \in ConstraintLists : ~Prepare(cs, BestIndex(cs))
  BY DEF Aborted, OpenCursor, Prepare, Scanning
<1> QED
  BY <1>3, <1>4, <1>5, <1>6, <1>7, <1>8 DEF Next, Client

\* A scan of refs has a last step, whatever the server, the channel and SQLite do, and
\* in whatever order.
THEOREM GetsOn ==
  ASSUME \A id \in Id : IsFiniteSet(Refs[id])
  PROVE  Spec => ScanGetsOn
<1>1. IInv /\ IInv' /\ [Next]_vars
        => [Scanning => Work' < Work \/ StartStream(pending') \/ FilterNothing]_vars
  BY StepGetsOn, RefsAssumption
<1> QED
  BY <1>1, Inductive, PTL DEF Spec, ScanGetsOn
=============================================================================
