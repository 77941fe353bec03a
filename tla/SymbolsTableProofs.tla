------------------------- MODULE SymbolsTableProofs -------------------------
(***************************************************************************)
(* The inductive invariant of SymbolsTable, and what follows from it.      *)
(***************************************************************************)
EXTENDS SymbolsTable, VtabScanProofs

-----------------------------------------------------------------------------
(* Plans and arguments.                                                    *)

WhereClause == Seq(Constraint(Columns, Operators))

\* What a place of a sequence of three parts holds.
LEMMA ThreeParts ==
  ASSUME NEW s \in Seq(Nat), NEW t \in Seq(Nat), NEW r \in Seq(Nat)
  PROVE  /\ s \o t \o r \in Seq(Nat)
         /\ Len(s \o t \o r) = Len(s) + Len(t) + Len(r)
         /\ \A k \in 1..Len(s) : (s \o t \o r)[k] = s[k]
         /\ \A k \in 1..Len(t) : (s \o t \o r)[Len(s) + k] = t[k]
         /\ \A k \in 1..Len(r) : (s \o t \o r)[Len(s) + Len(t) + k] = r[k]
<1>1. Len(s) \in Nat /\ Len(t) \in Nat /\ Len(r) \in Nat
  BY LenProperties
<1>2. PICK u : u = s \o t
  OBVIOUS
<1>3. /\ u \in Seq(Nat) /\ Len(u) = Len(s) + Len(t)
      /\ \A k \in 1..(Len(s) + Len(t)) : u[k] = IF k <= Len(s) THEN s[k] ELSE t[k - Len(s)]
  BY <1>2, ConcatProperties
<1>4. /\ u \o r \in Seq(Nat) /\ Len(u \o r) = Len(u) + Len(r)
      /\ \A k \in 1..(Len(u) + Len(r)) : (u \o r)[k] = IF k <= Len(u) THEN u[k] ELSE r[k - Len(u)]
  <2>1. u \in Seq(Nat)
    BY <1>3
  <2> QED
    BY <2>1, ConcatProperties
<1>5. ASSUME NEW k \in 1..Len(s) PROVE (u \o r)[k] = s[k]
  <2>1. k \in 1..(Len(s) + Len(t)) /\ k \in 1..(Len(u) + Len(r)) /\ k <= Len(s) /\ k <= Len(u)
    BY <1>1, <1>3
  <2> QED
    BY <1>3, <1>4, <2>1
<1>6. ASSUME NEW k \in 1..Len(t) PROVE (u \o r)[Len(s) + k] = t[k]
  <2>1. PICK j : j = Len(s) + k
    OBVIOUS
  <2>2. /\ j \in 1..(Len(s) + Len(t)) /\ j \in 1..(Len(u) + Len(r)) /\ ~(j <= Len(s))
        /\ j <= Len(u) /\ j - Len(s) = k
    BY <1>1, <1>3, <2>1
  <2> QED
    BY <1>3, <1>4, <2>1, <2>2
<1>7. ASSUME NEW k \in 1..Len(r) PROVE (u \o r)[Len(s) + Len(t) + k] = r[k]
  <2>1. PICK j : j = Len(s) + Len(t) + k
    OBVIOUS
  <2>2. j \in 1..(Len(u) + Len(r)) /\ ~(j <= Len(u)) /\ j - Len(u) = k
    BY <1>1, <1>3, <2>1
  <2> QED
    BY <1>4, <2>1, <2>2
<1> QED
  BY <1>2, <1>3, <1>4, <1>5, <1>6, <1>7

\* The constraints of a search are indices of the WHERE clause.
LEMMA SearchIndices ==
  ASSUME NEW cs \in WhereClause
  PROVE  /\ Ids(cs) \in SUBSET Nat /\ Names(cs) \in SUBSET Nat
         /\ Scopes(cs) \in SUBSET Nat /\ Paths(cs) \in SUBSET Nat
BY UsableIndices DEF WhereClause, Ids, Names, Scopes, Paths

\* A search has one argument or none.
LEMMA FirstOfSet ==
  ASSUME NEW S \in SUBSET Nat
  PROVE  /\ FirstOf(S) \in Seq(Nat)
         /\ S = {} => FirstOf(S) = <<>> /\ Len(FirstOf(S)) = 0
         /\ S # {} => Len(FirstOf(S)) = 1 /\ FirstOf(S)[1] = Min(S) /\ Min(S) \in S
<1>1. CASE S = {}
  BY <1>1, EmptySeq DEF FirstOf
<1>2. CASE S # {}
  <2>1. Min(S) \in S
    BY <1>2, MinOfIndices
  <2>2. FirstOf(S) = <<Min(S)>>
    BY <1>2 DEF FirstOf
  <2>3. <<Min(S)>> \in Seq(Nat)
    <3>1. Min(S) \in Nat
      BY <2>1
    <3> QED
      BY <3>1
  <2> QED
    BY <1>2, <2>1, <2>2, <2>3
<1> QED
  BY <1>1, <1>2

\* The arguments of a search without an Id.
LEMMA ArgumentsOf ==
  ASSUME NEW cs \in WhereClause
  PROVE  /\ Arguments(cs) \in Seq(Nat)
         /\ Len(Arguments(cs)) = Len(FirstOf(Names(cs))) + Len(FirstOf(Scopes(cs)))
                                   + Len(FirstOf(Paths(cs)))
         /\ Names(cs) # {} => Arguments(cs)[1] = Min(Names(cs))
         /\ Scopes(cs) # {} =>
              Arguments(cs)[Len(FirstOf(Names(cs))) + 1] = Min(Scopes(cs))
         /\ Paths(cs) # {} =>
              Arguments(cs)[Len(FirstOf(Names(cs))) + Len(FirstOf(Scopes(cs))) + 1] = Min(Paths(cs))
<1>1. PICK s, t, r : s = FirstOf(Names(cs)) /\ t = FirstOf(Scopes(cs)) /\ r = FirstOf(Paths(cs))
  OBVIOUS
<1>2. /\ s \in Seq(Nat) /\ (Names(cs) # {} => Len(s) = 1 /\ s[1] = Min(Names(cs)))
      /\ t \in Seq(Nat) /\ (Scopes(cs) # {} => Len(t) = 1 /\ t[1] = Min(Scopes(cs)))
      /\ r \in Seq(Nat) /\ (Paths(cs) # {} => Len(r) = 1 /\ r[1] = Min(Paths(cs)))
  BY <1>1, SearchIndices, FirstOfSet
<1>3. Arguments(cs) = s \o t \o r
  BY <1>1 DEF Arguments
<1>4. /\ s \o t \o r \in Seq(Nat)
      /\ Len(s \o t \o r) = Len(s) + Len(t) + Len(r)
      /\ \A k \in 1..Len(s) : (s \o t \o r)[k] = s[k]
      /\ \A k \in 1..Len(t) : (s \o t \o r)[Len(s) + k] = t[k]
      /\ \A k \in 1..Len(r) : (s \o t \o r)[Len(s) + Len(t) + k] = r[k]
  <2>1. s \in Seq(Nat) /\ t \in Seq(Nat) /\ r \in Seq(Nat)
    BY <1>2
  <2> QED
    BY <2>1, ThreeParts
<1>5. Names(cs) # {} => Arguments(cs)[1] = Min(Names(cs))
  BY <1>2, <1>3, <1>4
<1>6. Scopes(cs) # {} => Arguments(cs)[Len(s) + 1] = Min(Scopes(cs))
  BY <1>2, <1>3, <1>4
<1>7. Paths(cs) # {} => Arguments(cs)[Len(s) + Len(t) + 1] = Min(Paths(cs))
  BY <1>2, <1>3, <1>4
<1> QED
  BY <1>1, <1>3, <1>4, <1>5, <1>6, <1>7

\* BestIndex answers with a plan of the right type.
LEMMA BestIndexType ==
  ASSUME NEW cs \in WhereClause
  PROVE  BestIndex(cs) \in [idxNum : SUBSET SearchFlag, argv : Seq(Nat), omit : SUBSET Nat]
<1>1. CASE Ids(cs) # {}
  BY <1>1, SearchIndices, FirstOfSet DEF BestIndex, SearchFlag
<1>2. CASE Ids(cs) = {}
  <2>1. Flags(cs) \in SUBSET SearchFlag
    BY DEF Flags
  <2>2. Arguments(cs) \in Seq(Nat)
    BY ArgumentsOf
  <2>3. Range(Arguments(cs)) \in SUBSET Nat
    BY <2>2 DEF Range
  <2>4. Omitted(cs, Range(Arguments(cs))) \in SUBSET Nat
    BY <2>3 DEF Omitted
  <2> QED
    BY <1>2, <2>1, <2>2, <2>4 DEF BestIndex
<1> QED
  BY <1>1, <1>2

\* A lookup has the first equality on Id for its one argument.
LEMMA LookupPlan ==
  ASSUME TypeOK, plan = BestIndex(cons), Ids(cons) # {}
  PROVE  /\ plan.idxNum = {"SEARCH_ID"}
         /\ DOMAIN plan.argv = {1}
         /\ plan.argv[1] = Min(Ids(cons)) /\ plan.omit = {Min(Ids(cons))}
         /\ Min(Ids(cons)) \in DOMAIN cons
         /\ cons[Min(Ids(cons))].iColumn = IdColumn /\ cons[Min(Ids(cons))].op = "EQ"
<1>1. Ids(cons) \in SUBSET Nat
  BY SearchIndices DEF TypeOK, WhereClause
<1>2. /\ plan.idxNum = {"SEARCH_ID"} /\ plan.argv = FirstOf(Ids(cons))
      /\ plan.omit = {Min(Ids(cons))}
  BY DEF BestIndex
<1>3. Min(Ids(cons)) \in Ids(cons) /\ Len(plan.argv) = 1 /\ plan.argv[1] = Min(Ids(cons))
      /\ plan.argv \in Seq(Nat)
  BY <1>1, <1>2, FirstOfSet
<1>4. DOMAIN plan.argv = {1}
  BY <1>3
<1> QED
  BY <1>2, <1>3, <1>4 DEF Ids, Usable

\* A search has the first constraint on Name, on Scope and on a path for its
\* arguments, Filter finds each in its place, and no equality is left untested.
LEMMA SearchPlan ==
  ASSUME TypeOK, plan = BestIndex(cons), Ids(cons) = {}, NEW vs
  PROVE  /\ plan.idxNum # {"SEARCH_ID"}
         /\ \A i \in plan.omit : cons[i].op = "LIKE"
         /\ FlagArgs(vs, "SEARCH_FUZZYNAME")
              = IF Names(cons) = {} THEN <<>> ELSE <<vs[Min(Names(cons))]>>
         /\ FlagArgs(vs, "SEARCH_SCOPE")
              = IF Scopes(cons) = {} THEN <<>> ELSE <<vs[Min(Scopes(cons))]>>
         /\ FlagArgs(vs, "SEARCH_PATH")
              = IF Paths(cons) = {} THEN <<>> ELSE <<vs[Min(Paths(cons))]>>
         /\ AnyScope <=> ~ScopeIsExact(cons)
         /\ Names(cons) # {} => \E k \in DOMAIN plan.argv : plan.argv[k] = Min(Names(cons))
         /\ Scopes(cons) # {} => \E k \in DOMAIN plan.argv : plan.argv[k] = Min(Scopes(cons))
         /\ Paths(cons) # {} => \E k \in DOMAIN plan.argv : plan.argv[k] = Min(Paths(cons))
<1>1. /\ plan.idxNum = Flags(cons) /\ plan.argv = Arguments(cons)
      /\ plan.omit = Omitted(cons, Range(Arguments(cons)))
  BY DEF BestIndex
<1>2. /\ "SEARCH_ID" \notin plan.idxNum
      /\ "SEARCH_FUZZYNAME" \in plan.idxNum <=> Names(cons) # {}
      /\ "SEARCH_SCOPE" \in plan.idxNum <=> Scopes(cons) # {}
      /\ "SEARCH_SCOPE_EXACT" \in plan.idxNum <=> ScopeIsExact(cons)
      /\ "SEARCH_PATH" \in plan.idxNum <=> Paths(cons) # {}
  BY <1>1 DEF Flags, SearchFlag
<1>3. PICK n, s, p : /\ n = Len(FirstOf(Names(cons))) /\ s = Len(FirstOf(Scopes(cons)))
                     /\ p = Len(FirstOf(Paths(cons)))
  OBVIOUS
<1>4. /\ n = IF Names(cons) = {} THEN 0 ELSE 1
      /\ s = IF Scopes(cons) = {} THEN 0 ELSE 1
      /\ p = IF Paths(cons) = {} THEN 0 ELSE 1
  BY <1>3, SearchIndices, FirstOfSet DEF TypeOK, WhereClause
<1>5. /\ Given("SEARCH_FUZZYNAME") = n /\ Given("SEARCH_SCOPE") = s /\ Given("SEARCH_PATH") = p
  BY <1>2, <1>4 DEF Given
<1>6. /\ ArgIndex["SEARCH_FUZZYNAME"] = n /\ ArgIndex["SEARCH_SCOPE"] = n + s
      /\ ArgIndex["SEARCH_PATH"] = n + s + p
  BY <1>5 DEF ArgIndex
<1>7. /\ Names(cons) # {} => plan.argv[n] = Min(Names(cons))
      /\ Scopes(cons) # {} => plan.argv[n + s] = Min(Scopes(cons))
      /\ Paths(cons) # {} => plan.argv[n + s + p] = Min(Paths(cons))
  BY <1>1, <1>3, <1>4, ArgumentsOf DEF TypeOK, WhereClause
<1>8. \A i \in plan.omit : cons[i].op = "LIKE"
  BY <1>1 DEF Omitted
<1>9. /\ FlagArgs(vs, "SEARCH_FUZZYNAME")
           = IF Names(cons) = {} THEN <<>> ELSE <<vs[Min(Names(cons))]>>
      /\ FlagArgs(vs, "SEARCH_SCOPE")
           = IF Scopes(cons) = {} THEN <<>> ELSE <<vs[Min(Scopes(cons))]>>
      /\ FlagArgs(vs, "SEARCH_PATH")
           = IF Paths(cons) = {} THEN <<>> ELSE <<vs[Min(Paths(cons))]>>
  BY <1>2, <1>6, <1>7 DEF FlagArgs, Arg
<1>10. AnyScope <=> ~ScopeIsExact(cons)
  BY <1>2 DEF AnyScope
<1>11. plan.argv \in Seq(Nat) /\ Len(plan.argv) = n + s + p
  BY <1>1, <1>3, ArgumentsOf DEF TypeOK, WhereClause
<1>12. /\ Names(cons) # {} => n \in DOMAIN plan.argv
       /\ Scopes(cons) # {} => n + s \in DOMAIN plan.argv
       /\ Paths(cons) # {} => n + s + p \in DOMAIN plan.argv
  BY <1>4, <1>11
<1> QED
  BY <1>2, <1>7, <1>8, <1>9, <1>10, <1>12

\* The values bound at an xFilter have the types TypeOK asks for.
LEMMA BoundValues ==
  ASSUME cons \in WhereClause, NEW vs \in Values(cons)
  PROVE  vs \in Seq(Id \cup Name \cup Scope \cup Text \cup {0, 1, NULL})
<1>1. DOMAIN cons = 1..Len(cons) /\ Len(cons) \in Nat
  BY LenProperties DEF WhereClause
<1>2. vs \in [DOMAIN cons -> Id \cup Name \cup Scope \cup Text \cup {0, 1, NULL}]
  BY DEF Values
<1> QED
  BY <1>1, <1>2, SeqDef

\* What the columns that become arguments are compared with.
LEMMA BoundValue ==
  ASSUME NEW vs \in Values(cons), NEW i \in DOMAIN cons, vs[i] # NULL
  PROVE  /\ cons[i].iColumn = IdColumn => vs[i] \in Id
         /\ cons[i].iColumn = NameColumn => vs[i] \in Name
         /\ cons[i].iColumn = ScopeColumn => vs[i] \in Scope
         /\ cons[i].iColumn \in PathColumns => vs[i] \in Text
<1>1. vs[i] \in Domain(cons[i].iColumn)
  BY DEF Values
<1>2. /\ Domain(0) = Id /\ Domain(1) = Name /\ Domain(2) = Scope
      /\ Domain(7) = Text /\ Domain(12) = Text
  BY DEF Domain, IdColumn, NameColumn, ScopeColumn, GenericColumn
<1> QED
  BY <1>1, <1>2 DEF IdColumn, NameColumn, ScopeColumn, PathColumns

\* What the arguments of a search are worth.
LEMMA SearchValues ==
  ASSUME TypeOK, plan = BestIndex(cons), Ids(cons) = {}, NEW vs \in Values(cons),
         \A k \in DOMAIN plan.argv : Arg(vs, k) # NULL
  PROVE  /\ Names(cons) # {} =>
              /\ Min(Names(cons)) \in DOMAIN cons /\ vs[Min(Names(cons))] \in Name
              /\ cons[Min(Names(cons))].iColumn = NameColumn
              /\ cons[Min(Names(cons))].op \in {"EQ", "LIKE"}
         /\ Scopes(cons) # {} =>
              /\ Min(Scopes(cons)) \in DOMAIN cons /\ vs[Min(Scopes(cons))] \in Scope
              /\ cons[Min(Scopes(cons))].iColumn = ScopeColumn
         /\ Paths(cons) # {} =>
              /\ Min(Paths(cons)) \in DOMAIN cons /\ vs[Min(Paths(cons))] \in Text
<1>1. /\ Names(cons) # {} => Min(Names(cons)) \in Names(cons)
      /\ Scopes(cons) # {} => Min(Scopes(cons)) \in Scopes(cons)
      /\ Paths(cons) # {} => Min(Paths(cons)) \in Paths(cons)
  BY SearchIndices, FirstOfSet DEF TypeOK, WhereClause
<1>2. ASSUME NEW i, \E k \in DOMAIN plan.argv : plan.argv[k] = i PROVE vs[i] # NULL
  BY <1>2 DEF Arg
<1>3. ASSUME Names(cons) # {}
      PROVE  /\ Min(Names(cons)) \in DOMAIN cons /\ vs[Min(Names(cons))] \in Name
             /\ cons[Min(Names(cons))].iColumn = NameColumn
             /\ cons[Min(Names(cons))].op \in {"EQ", "LIKE"}
  <2>1. vs[Min(Names(cons))] # NULL
    BY <1>2, <1>3, SearchPlan
  <2>2. /\ Min(Names(cons)) \in DOMAIN cons /\ cons[Min(Names(cons))].iColumn = NameColumn
        /\ cons[Min(Names(cons))].op \in {"EQ", "LIKE"}
    BY <1>1, <1>3 DEF Names, Usable
  <2> QED
    BY <2>1, <2>2, BoundValue
<1>4. ASSUME Scopes(cons) # {}
      PROVE  /\ Min(Scopes(cons)) \in DOMAIN cons /\ vs[Min(Scopes(cons))] \in Scope
             /\ cons[Min(Scopes(cons))].iColumn = ScopeColumn
  <2>1. vs[Min(Scopes(cons))] # NULL
    BY <1>2, <1>4, SearchPlan
  <2>2. Min(Scopes(cons)) \in DOMAIN cons /\ cons[Min(Scopes(cons))].iColumn = ScopeColumn
    BY <1>1, <1>4 DEF Scopes, Usable
  <2> QED
    BY <2>1, <2>2, BoundValue
<1>5. ASSUME Paths(cons) # {}
      PROVE  Min(Paths(cons)) \in DOMAIN cons /\ vs[Min(Paths(cons))] \in Text
  <2>1. vs[Min(Paths(cons))] # NULL
    BY <1>2, <1>5, SearchPlan
  <2>2. Min(Paths(cons)) \in DOMAIN cons /\ cons[Min(Paths(cons))].iColumn \in PathColumns
    BY <1>1, <1>5 DEF Paths, Usable
  <2> QED
    BY <2>1, <2>2, BoundValue
<1> QED
  BY <1>3, <1>4, <1>5

\* The columns that become arguments are fields of the symbol.
LEMMA ArgumentColumns ==
  ASSUME NEW row
  PROVE  /\ Column(row, IdColumn) = row.id
         /\ Column(row, NameColumn) = row.name
         /\ Column(row, ScopeColumn) = row.scope
BY DEF Column, Field, IdColumn, NameColumn, ScopeColumn, GenericColumn

\* Where no property is ever set, the shifted columns do not show.
LEMMA ColumnsAgree ==
  ASSUME NoProperties, NEW row \in Symbols, NEW iColumn
  PROVE  Column(row, iColumn) = SchemaValue(row, iColumn)
<1>1. row.properties = {} \/ row.properties = NULL
  BY DEF NoProperties
<1> QED
  BY <1>1 DEF Column, SchemaValue, HasProperty

\* So the rows selected are those promised.
LEMMA SelectedPromised ==
  ASSUME NoProperties
  PROVE  Selected = Promised
<1>1. \A row \in Symbols, i \in DOMAIN cons :
        Column(row, cons[i].iColumn) = SchemaValue(row, cons[i].iColumn)
  BY ColumnsAgree
<1> QED
  BY <1>1 DEF Selected, Promised

\* The request is a Lookup if there is an equality on Id.
LEMMA LookupRequest ==
  ASSUME TypeOK, plan = BestIndex(cons), Ids(cons) # {}, NEW vs
  PROVE  Request(vs) = [rpc |-> "Lookup", ids |-> <<vs[Min(Ids(cons))]>>]
BY LookupPlan DEF Request, Arg

\* Otherwise it is a FuzzyFind with the first constraint of each search.
LEMMA SearchRequest ==
  ASSUME TypeOK, plan = BestIndex(cons), Ids(cons) = {}, NEW vs
  PROVE  /\ Request(vs) = [rpc |-> "FuzzyFind",
                           query |-> FlagArgs(vs, "SEARCH_FUZZYNAME"),
                           scopes |-> FlagArgs(vs, "SEARCH_SCOPE"),
                           proximity_paths |-> FlagArgs(vs, "SEARCH_PATH"),
                           any_scope |-> AnyScope]
         /\ Request(vs).rpc = "FuzzyFind"
         /\ Request(vs).query = IF Names(cons) = {} THEN <<>> ELSE <<vs[Min(Names(cons))]>>
         /\ Request(vs).scopes = IF Scopes(cons) = {} THEN <<>> ELSE <<vs[Min(Scopes(cons))]>>
         /\ Request(vs).any_scope <=> ~ScopeIsExact(cons)
<1>1. plan.idxNum # {"SEARCH_ID"}
  BY SearchPlan
<1>2. Request(vs) = [rpc |-> "FuzzyFind",
                     query |-> FlagArgs(vs, "SEARCH_FUZZYNAME"),
                     scopes |-> FlagArgs(vs, "SEARCH_SCOPE"),
                     proximity_paths |-> FlagArgs(vs, "SEARCH_PATH"),
                     any_scope |-> AnyScope]
  BY <1>1 DEF Request
<1>3. /\ Request(vs).rpc = "FuzzyFind"
      /\ Request(vs).query = FlagArgs(vs, "SEARCH_FUZZYNAME")
      /\ Request(vs).scopes = FlagArgs(vs, "SEARCH_SCOPE")
      /\ Request(vs).any_scope = AnyScope
  BY <1>2
<1> QED
  BY <1>2, <1>3, SearchPlan

\* A request without NULLs has the type of a request.
LEMMA RequestType ==
  ASSUME TypeOK, plan = BestIndex(cons), NEW vs \in Values(cons),
         \A k \in DOMAIN plan.argv : Arg(vs, k) # NULL
  PROVE  Request(vs) \in [rpc : {"Lookup"}, ids : Seq(Id)]
           \cup [rpc : {"FuzzyFind"}, query : Seq(Name), scopes : Seq(Scope),
                 proximity_paths : Seq(Text), any_scope : BOOLEAN]
<1>1. CASE Ids(cons) # {}
  <2>1. PICK k : k = Min(Ids(cons))
    OBVIOUS
  <2>2. k \in DOMAIN cons /\ cons[k].iColumn = IdColumn /\ vs[k] # NULL
    BY <1>1, <2>1, LookupPlan DEF Arg
  <2>3. vs[k] \in Id
    BY <2>2, BoundValue
  <2>4. <<vs[k]>> \in Seq(Id)
    BY <2>3
  <2> QED
    <3>1. Request(vs) = [rpc |-> "Lookup", ids |-> <<vs[k]>>]
      BY <1>1, <2>1, LookupRequest
    <3> QED
      BY <2>4, <3>1
<1>2. CASE Ids(cons) = {}
  <2>1. PICK query, scopes, paths :
          /\ query = FlagArgs(vs, "SEARCH_FUZZYNAME")
          /\ scopes = FlagArgs(vs, "SEARCH_SCOPE")
          /\ paths = FlagArgs(vs, "SEARCH_PATH")
    OBVIOUS
  <2>2. /\ query = IF Names(cons) = {} THEN <<>> ELSE <<vs[Min(Names(cons))]>>
        /\ scopes = IF Scopes(cons) = {} THEN <<>> ELSE <<vs[Min(Scopes(cons))]>>
        /\ paths = IF Paths(cons) = {} THEN <<>> ELSE <<vs[Min(Paths(cons))]>>
    BY <1>2, <2>1, SearchPlan
  <2>3. /\ Names(cons) # {} => vs[Min(Names(cons))] \in Name
        /\ Scopes(cons) # {} => vs[Min(Scopes(cons))] \in Scope
        /\ Paths(cons) # {} => vs[Min(Paths(cons))] \in Text
    BY <1>2, SearchValues
  <2>4. query \in Seq(Name)
    BY <2>2, <2>3, EmptySeq
  <2>5. scopes \in Seq(Scope)
    BY <2>2, <2>3, EmptySeq
  <2>6. paths \in Seq(Text)
    BY <2>2, <2>3, EmptySeq
  <2>7. AnyScope \in BOOLEAN
    BY DEF AnyScope
  <2>8. Request(vs) = [rpc |-> "FuzzyFind", query |-> query, scopes |-> scopes,
                       proximity_paths |-> paths, any_scope |-> AnyScope]
    BY <1>2, <2>1, SearchRequest
  <2> QED
    BY <2>4, <2>5, <2>6, <2>7, <2>8
<1> QED
  BY <1>1, <1>2

\* No request is narrower than the WHERE clause it was made from.
LEMMA SelectedAnswered ==
  ASSUME SymbolsAssumption
  PROVE  TypeOK /\ RequestOK /\ Started => Selected \subseteq Answer(req)
<1> SUFFICES ASSUME TypeOK, RequestOK, Started, NEW row \in Selected PROVE row \in Answer(req)
  OBVIOUS
<1>1. /\ plan = BestIndex(cons) /\ vals \in Values(cons)
      /\ \A k \in DOMAIN plan.argv : Arg(vals, k) # NULL
      /\ req = Request(vals)
  BY DEF RequestOK
<1>2. /\ row \in Symbols
      /\ \A i \in DOMAIN cons : Satisfies(row, Column(row, cons[i].iColumn), i)
  BY DEF Selected
<1>3. CASE Ids(cons) # {}
  <2>1. PICK k : k = Min(Ids(cons))
    OBVIOUS
  <2>2. k \in DOMAIN cons /\ cons[k].iColumn = IdColumn /\ cons[k].op = "EQ"
    BY <1>1, <1>3, <2>1, LookupPlan
  <2>3. row.id = vals[k]
    BY <1>2, <2>2, ArgumentColumns DEF Satisfies, Holds
  <2>4. req = [rpc |-> "Lookup", ids |-> <<vals[k]>>]
    BY <1>1, <1>3, <2>1, LookupRequest
  <2> QED
    BY <1>2, <2>3, <2>4 DEF Answer
<1>4. CASE Ids(cons) = {}
  <2>1. PICK n, s : n = Min(Names(cons)) /\ s = Min(Scopes(cons))
    OBVIOUS
  <2>2. /\ req.rpc = "FuzzyFind"
        /\ req.query = IF Names(cons) = {} THEN <<>> ELSE <<vals[n]>>
        /\ req.scopes = IF Scopes(cons) = {} THEN <<>> ELSE <<vals[s]>>
        /\ req.any_scope <=> ~ScopeIsExact(cons)
    BY <1>1, <1>4, <2>1, SearchRequest
  <2>3. ASSUME Names(cons) # {} PROVE vals[n] \in Name /\ row \in FuzzyMatch[vals[n]]
    <3>1. /\ n \in DOMAIN cons /\ cons[n].iColumn = NameColumn /\ cons[n].op \in {"EQ", "LIKE"}
          /\ vals[n] \in Name
      BY <1>1, <1>4, <2>1, <2>3, SearchValues
    <3>2. CASE cons[n].op = "LIKE"
      BY <1>2, <1>4, <2>1, <2>3, <3>1, <3>2 DEF Satisfies, FuzzySearch
    <3>3. CASE cons[n].op = "EQ"
      <4>1. row.name = vals[n]
        BY <1>2, <3>1, <3>3, ArgumentColumns DEF Satisfies, Holds
      <4> QED
        BY <1>2, <3>1, <4>1 DEF SymbolsAssumption
    <3> QED
      BY <3>1, <3>2, <3>3
  <2>4. ASSUME ScopeIsExact(cons) PROVE row.scope \in Range(req.scopes)
    <3>1. Scopes(cons) # {} /\ cons[s].op = "EQ"
      BY <2>1, <2>4 DEF ScopeIsExact
    <3>2. s \in DOMAIN cons /\ cons[s].iColumn = ScopeColumn
      BY <1>1, <1>4, <2>1, <3>1, SearchValues
    <3>3. row.scope = vals[s]
      BY <1>2, <3>1, <3>2, ArgumentColumns DEF Satisfies, Holds
    <3>4. req.scopes = <<vals[s]>>
      BY <2>2, <3>1
    <3> QED
      BY <3>3, <3>4 DEF Range
  <2> QED
    BY <1>2, <2>2, <2>3, <2>4 DEF Answer
<1> QED
  BY <1>3, <1>4

\* What SQLite is told not to test, the request has made certain: of the rows of
\* the answer, those that pass are those the WHERE clause selects.
LEMMA AnsweredSelected ==
  ASSUME SymbolsAssumption, TypeOK, RequestOK, Started, NEW row \in Answer(req)
  PROVE  row \in Selected <=>
           \A i \in DOMAIN cons \ plan.omit :
             Test(cons[i].op, Column(row, cons[i].iColumn), vals[i])
<1>1. /\ plan = BestIndex(cons) /\ vals \in Values(cons)
      /\ \A k \in DOMAIN plan.argv : Arg(vals, k) # NULL
      /\ req = Request(vals)
  BY DEF RequestOK
<1>2. row \in Symbols
  BY DEF Answer
<1>3. \A i \in DOMAIN cons : cons[i].op = "LIKE" => Satisfies(row, Column(row, cons[i].iColumn), i)
  <2>1. SUFFICES ASSUME NEW i \in FuzzySearch PROVE row \in FuzzyMatch[vals[i]]
    BY DEF Satisfies
  <2>2. Ids(cons) = {} /\ Names(cons) # {} /\ i = Min(Names(cons))
    BY DEF FuzzySearch
  <2>3. req.rpc = "FuzzyFind" /\ req.query = <<vals[i]>>
    BY <1>1, <2>2, SearchRequest
  <2>4. PICK name \in Name : req.query = <<name>> /\ row \in FuzzyMatch[name]
    BY <2>3, EmptySeq DEF Answer
  <2> QED
    BY <2>3, <2>4
<1>4. \A i \in DOMAIN cons :
        cons[i].op # "LIKE" =>
          (Satisfies(row, Column(row, cons[i].iColumn), i)
             <=> Test(cons[i].op, Column(row, cons[i].iColumn), vals[i]))
  BY DEF Satisfies, Test
<1>5. \A i \in plan.omit \cap DOMAIN cons : Satisfies(row, Column(row, cons[i].iColumn), i)
  <2>1. CASE Ids(cons) # {}
    <3>1. PICK k : k = Min(Ids(cons))
      OBVIOUS
    <3>2. /\ k \in DOMAIN cons /\ cons[k].iColumn = IdColumn /\ cons[k].op = "EQ"
          /\ plan.omit = {k}
      BY <1>1, <2>1, <3>1, LookupPlan
    <3>3. req = [rpc |-> "Lookup", ids |-> <<vals[k]>>]
      BY <1>1, <2>1, <3>1, LookupRequest
    <3>4. row.id = vals[k]
      BY <3>3 DEF Answer
    <3>5. row.id # NULL
      <4>1. row.id \in Id
        BY <1>2 DEF SymbolsAssumption, Row
      <4> QED
        BY <4>1 DEF SymbolsAssumption
    <3>6. Satisfies(row, Column(row, cons[k].iColumn), k)
      BY <3>2, <3>4, <3>5, ArgumentColumns DEF Satisfies, Holds
    <3> QED
      BY <3>2, <3>6
  <2>2. CASE Ids(cons) = {}
    <3>1. \A i \in plan.omit : cons[i].op = "LIKE"
      BY <1>1, <2>2, SearchPlan
    <3> QED
      BY <1>3, <3>1
  <2> QED
    BY <2>1, <2>2
<1>6. row \in Selected <=> \A i \in DOMAIN cons : Satisfies(row, Column(row, cons[i].iColumn), i)
  BY <1>2 DEF Selected
<1>7. \A i \in DOMAIN cons : cons[i].op = "LIKE" =>
        Test(cons[i].op, Column(row, cons[i].iColumn), vals[i])
  BY DEF Test
<1> QED
  BY <1>3, <1>4, <1>5, <1>6, <1>7

\* As long as the plan and the values are the same, so is the request.
LEMMA SameRequest ==
  ASSUME UNCHANGED <<cons, plan, vals>>
  PROVE  /\ Request(vals)' = Request(vals) /\ Values(cons)' = Values(cons)
         /\ BestIndex(cons)' = BestIndex(cons)
         /\ \A k : Arg(vals, k)' = Arg(vals, k)
BY DEF Request, FlagArgs, Arg, ArgIndex, Given, AnyScope

\* And so are the rows selected and promised.
LEMMA SameSelection ==
  ASSUME UNCHANGED <<cons, vals, req>>
  PROVE  Selected' = Selected /\ Promised' = Promised /\ Answer(req)' = Answer(req)
BY DEF Selected, Promised, Satisfies, FuzzySearch

-----------------------------------------------------------------------------
(* The inductive invariant.                                                *)

\* A step that neither starts, drops nor examines: what the scan owes and has
\* delivered stays the same, and only a broken channel takes rows away.
LEMMA FrameStep ==
  ASSUME IInv,
         UNCHANGED <<cons, plan, vals, emitted, req>>,
         phase' = phase \/ (Scanning /\ (Scanning' \/ phase' = "done")),
         StreamInv(Row)', Unread' \subseteq Unread,
         rpc' = "broken" \/ Unread' = Unread,
         rpc = "broken" => rpc' = "broken"
  PROVE  IInv'
<1> USE DEF IInv
<1>1. TypeOK'
  BY DEF TypeOK, StreamInv
<1>2. Started' <=> Started
  BY DEF Started, Scanning
<1>3. RequestOK'
  BY <1>2, SameRequest DEF RequestOK
<1>4. Selected' = Selected /\ Answer(req)' = Answer(req)
  BY SameSelection
<1>5. Accounting'
  BY <1>2, <1>4 DEF Accounting
<1> QED
  BY <1>1, <1>3, <1>5

\* A step to a phase in which no scan is going on.
LEMMA IdleStep ==
  ASSUME TypeOK', StreamInv(Row)', plan' = BestIndex(cons'),
         phase' \in {"unprepared", "prepared", "opened", "aborted"}
  PROVE  IInv'
<1>1. ~Started'
  BY DEF Started, Scanning
<1>2. RequestOK' /\ Accounting'
  BY <1>1 DEF RequestOK, Accounting
<1> QED
  BY <1>2 DEF IInv

\* Before anything is prepared the invariant holds.
LEMMA InitIInv ==
  ASSUME SymbolsAssumption, Init
  PROVE  IInv
<1> USE DEF Init, ScanInit
<1>1. wire = <<>> /\ 1..Len(wire) = {} /\ ~AtRow /\ ~MayRead /\ ~AtEnd
  BY EmptySeq DEF AtRow, MayRead, AtEnd
<1>2. ScanTypeOK(Row)
  BY EmptySeq DEF ScanTypeOK, NotSet
<1>3. StreamInv(Row)
  BY <1>1, <1>2 DEF StreamInv, EndOfStream, OnePlace, Unread, OnWire
<1>4. TypeOK
  <2>1. NoPlan \in [idxNum : SUBSET SearchFlag, argv : Seq(Nat), omit : SUBSET Nat]
    BY EmptySeq DEF NoPlan
  <2> QED
    BY <1>2, <2>1, EmptySeq DEF TypeOK
<1>5. plan = BestIndex(cons)
  <2>1. DOMAIN cons = {}
    BY EmptySeq
  <2>2. Ids(cons) = {} /\ Names(cons) = {} /\ Scopes(cons) = {} /\ Paths(cons) = {}
    BY <2>1 DEF Ids, Names, Scopes, Paths, Usable
  <2>3. Flags(cons) = {}
    BY <2>2 DEF Flags, ScopeIsExact
  <2>4. Arguments(cons) = <<>>
    BY <2>2, EmptySeq DEF Arguments, FirstOf
  <2>5. Omitted(cons, Range(Arguments(cons))) = {}
    BY <2>4, EmptySeq DEF Omitted, Range
  <2> QED
    BY <2>2, <2>3, <2>4, <2>5 DEF BestIndex, NoPlan
<1>6. RequestOK /\ Accounting
  BY <1>5 DEF RequestOK, Accounting, Started, Scanning
<1> QED
  BY <1>3, <1>4, <1>6 DEF IInv

\* xBestIndex.
LEMMA PrepareIInv ==
  ASSUME SymbolsAssumption, IInv, UNCHANGED req,
         NEW cs \in ConstraintLists, Prepare(cs, BestIndex(cs))
  PROVE  IInv'
<1> USE DEF IInv
<1>1. /\ cons' = cs /\ plan' = BestIndex(cs) /\ phase' = "prepared"
      /\ UNCHANGED <<vals, m_eof, streamVars, emitted>>
  BY DEF Prepare
<1>2. cs \in WhereClause
  BY DEF SymbolsAssumption, WhereClause
<1>3. StreamInv(Row)'
  BY <1>1, OutsideStream
<1>4. TypeOK'
  <2>1. plan' \in [idxNum : SUBSET SearchFlag, argv : Seq(Nat), omit : SUBSET Nat]
    BY <1>1, <1>2, BestIndexType
  <2> QED
    BY <1>1, <1>2, <1>3, <2>1 DEF TypeOK, StreamInv, WhereClause
<1> QED
  BY <1>1, <1>3, <1>4, IdleStep

\* xOpen.
LEMMA OpenIInv ==
  ASSUME IInv, OpenCursor, UNCHANGED req
  PROVE  IInv'
<1> USE DEF IInv
<1>1. /\ phase' = "opened"
      /\ UNCHANGED <<cons, plan, vals, m_eof, streamVars, emitted>>
  BY DEF OpenCursor
<1>2. StreamInv(Row)'
  BY <1>1, OutsideStream
<1>3. TypeOK'
  BY <1>1, <1>2 DEF TypeOK, StreamInv
<1> QED
  BY <1>1, <1>2, <1>3, IdleStep DEF RequestOK

\* xClose.
LEMMA CloseIInv ==
  ASSUME IInv, Close
  PROVE  IInv'
<1> USE DEF IInv
<1>1. /\ phase' = "prepared" /\ req' = NoRequest /\ vals' = <<>>
      /\ UNCHANGED <<cons, plan>>
  BY DEF Close, CloseCursor
<1>2. StreamInv(Row)'
  BY CloseCursorStream DEF Close
<1>3. TypeOK'
  <2>1. vals' \in Seq(Id \cup Name \cup Scope \cup Text \cup {0, 1, NULL})
    BY <1>1, EmptySeq
  <2> QED
    BY <1>1, <1>2, <2>1 DEF TypeOK, StreamInv
<1> QED
  BY <1>1, <1>2, <1>3, IdleStep DEF RequestOK

\* xFilter: what the scan is to deliver is part of the answer, because the
\* request is no narrower than the WHERE clause.
LEMMA FilterIInv ==
  ASSUME SymbolsAssumption, IInv, Filter
  PROVE  IInv'
<1> USE DEF IInv
<1>1. PICK vs \in Values(cons) :
        /\ \A k \in DOMAIN plan.argv : Arg(vs, k) # NULL
        /\ vals' = vs
        /\ req' = Request(vs)
  BY DEF Filter
<1> DEFINE rows == Answer(req')
<1>2. /\ StartStream(rows)
      /\ emitted' = {} /\ phase' = "reading"
      /\ UNCHANGED <<cons, plan, m_eof>>
  BY DEF Filter
<1>3. rows \in SUBSET Row
  BY DEF Answer, SymbolsAssumption
<1>4. StreamInv(Row)' /\ Unread' = rows
  BY <1>2, <1>3, StartStreamStream
<1>5. TypeOK'
  <2>1. vals' \in Seq(Id \cup Name \cup Scope \cup Text \cup {0, 1, NULL})
    BY <1>1, BoundValues DEF TypeOK, WhereClause
  <2>2. req' \in [rpc : {"Lookup"}, ids : Seq(Id)]
                  \cup [rpc : {"FuzzyFind"}, query : Seq(Name), scopes : Seq(Scope),
                        proximity_paths : Seq(Text), any_scope : BOOLEAN]
    BY <1>1, RequestType DEF RequestOK
  <2> QED
    BY <1>2, <1>4, <2>1, <2>2 DEF TypeOK, StreamInv
<1>6. RequestOK'
  <2>1. Values(cons)' = Values(cons) /\ (plan = BestIndex(cons))'
    BY <1>2 DEF RequestOK
  <2>2. \A k \in DOMAIN plan'.argv : Arg(vals, k)' # NULL
    BY <1>1, <1>2 DEF Arg
  <2>3. (req = Request(vals))'
    BY <1>1, <1>2 DEF Request, FlagArgs, Arg, ArgIndex, Given, AnyScope
  <2> QED
    BY <1>1, <2>1, <2>2, <2>3 DEF RequestOK
<1>7. (Selected \subseteq Answer(req))'
  <2>1. (TypeOK /\ RequestOK /\ Started => Selected \subseteq Answer(req))'
    BY SelectedAnswered, PTL
  <2>2. Started'
    BY <1>2 DEF Started, Scanning
  <2> QED
    BY <1>5, <1>6, <2>1, <2>2
<1>8. Accounting'
  BY <1>2, <1>4, <1>7 DEF Accounting
<1> QED
  BY <1>4, <1>5, <1>6, <1>8

\* xFilter with a NULL argument ends the process.
LEMMA FilterNullIInv ==
  ASSUME IInv, FilterNull
  PROVE  IInv'
<1> USE DEF IInv
<1>1. /\ vals' \in Values(cons) /\ phase' = "aborted"
      /\ UNCHANGED <<cons, plan, m_eof, streamVars, emitted, req>>
  BY DEF FilterNull
<1>2. StreamInv(Row)'
  BY <1>1, OutsideStream
<1>3. TypeOK'
  <2>1. vals' \in Seq(Id \cup Name \cup Scope \cup Text \cup {0, 1, NULL})
    BY <1>1, BoundValues DEF TypeOK, WhereClause
  <2> QED
    BY <1>1, <1>2, <2>1 DEF TypeOK, StreamInv
<1> QED
  BY <1>1, <1>2, <1>3, IdleStep DEF RequestOK

\* xEof, xColumn and SQLite's test: a row is accepted exactly if the WHERE
\* clause selects it.
LEMMA ExamineIInv ==
  ASSUME SymbolsAssumption, IInv, Examine(Passes), UNCHANGED req
  PROVE  IInv'
<1> USE DEF IInv
<1> DEFINE row == m_reply.row
<1>1. /\ AtRow /\ Started /\ Started' /\ phase' = "examined"
      /\ UNCHANGED <<cons, plan, vals, m_eof, streamVars>>
  BY DEF Examine, AtRow, Started, Scanning
<1>2. row \in Unread /\ row \in Answer(req)
  BY <1>1 DEF Unread, Accounting
<1>3. row \in Selected <=> Passes
  BY <1>1, <1>2, AnsweredSelected DEF Passes
<1>4. emitted' = IF Passes THEN emitted \cup {row} ELSE emitted
  BY DEF Examine
<1> HIDE DEF row
<1>5. StreamInv(Row)' /\ Unread' = Unread \ {row}
  BY <1>1, <1>4, ExamineStream DEF row
<1>6. TypeOK'
  BY <1>1, <1>5 DEF TypeOK, StreamInv
<1>7. RequestOK'
  BY <1>1, SameRequest DEF RequestOK
<1>8. Selected' = Selected /\ Answer(req)' = Answer(req) /\ rpc' = rpc
  BY <1>1, SameSelection DEF streamVars
<1>9. Accounting'
  BY <1>1, <1>3, <1>4, <1>5, <1>8 DEF Accounting
<1> QED
  BY <1>5, <1>6, <1>7, <1>9

\* The steps that only move rows along.
LEMMA StreamIInv ==
  ASSUME IInv, UNCHANGED req,
         SeeEof \/ CallNext \/ ReadReply \/ ServerSend \/ ServerFinish \/ ChannelBreak
  PROVE  IInv'
<1>1. StreamInv(Row)
  BY DEF IInv
<1>2. CASE SeeEof
  BY <1>1, <1>2, SeeEofStream, FrameStep DEF SeeEof, streamVars, Scanning
<1>3. CASE CallNext
  BY <1>1, <1>3, CallNextStream, FrameStep DEF CallNext, streamVars, Scanning
<1>4. CASE ReadReply
  BY <1>1, <1>4, ReadReplyStream, FrameStep DEF ReadReply, Scanning
<1>5. CASE ServerSend
  BY <1>1, <1>5, ServerSendStream, FrameStep DEF ServerSend
<1>6. CASE ServerFinish
  BY <1>1, <1>6, ServerFinishStream, FrameStep DEF ServerFinish
<1>7. CASE ChannelBreak
  BY <1>1, <1>7, ChannelBreakStream, FrameStep DEF ChannelBreak
<1> QED
  BY <1>2, <1>3, <1>4, <1>5, <1>6, <1>7

\* A step that changes nothing.
LEMMA StutterIInv ==
  ASSUME IInv, UNCHANGED vars
  PROVE  IInv'
<1> USE DEF vars, scanVars
<1>1. StreamInv(Row)' /\ Unread' = Unread
  BY DEF IInv, StreamInv, ScanTypeOK, EndOfStream, OnePlace, Unread, OnWire,
         MayRead, AtEnd, AtRow
<1> QED
  BY <1>1, FrameStep

\* Every step preserves the invariant.
LEMMA NextIInv ==
  ASSUME SymbolsAssumption, IInv, [Next]_vars
  PROVE  IInv'
<1>1. CASE Client
  BY <1>1, PrepareIInv, OpenIInv, StreamIInv, ExamineIInv, FilterIInv, FilterNullIInv, CloseIInv DEF Client
<1>2. CASE Server
  BY <1>2, StreamIInv DEF Server
<1>3. CASE Aborted \/ UNCHANGED vars
  BY <1>3, StutterIInv DEF Aborted
<1> QED
  BY <1>1, <1>2, <1>3 DEF Next

\* The inductive invariant holds in every reachable state.
THEOREM Inductive == Spec => []IInv
<1>1. Init => IInv
  BY InitIInv, SymbolsAssumption
<1>2. IInv /\ [Next]_vars => IInv'
  BY NextIInv, SymbolsAssumption
<1> QED
  BY <1>1, <1>2, PTL DEF Spec

-----------------------------------------------------------------------------
(* What follows from it.  That SQLite gets what the WHERE clause asks for  *)
(* needs NoProperties, because the columns of the properties are shifted.   *)

\* Type correctness: a request never names a NULL, and no reply is taken for a
\* row that is none.
THEOREM TypeCorrect == Spec => []TypeOK
<1>1. IInv => TypeOK
  BY DEF IInv
<1> QED
  BY <1>1, Inductive, PTL

\* SQLite accepts only symbols that satisfy the WHERE clause, although it does
\* not test what it is told to omit, whatever the server and the channel do.
THEOREM Sound ==
  ASSUME NoProperties
  PROVE  Spec => []ScanSound
<1>1. IInv => ScanSound
  BY SelectedPromised DEF IInv, Accounting, ScanSound
<1> QED
  BY <1>1, Inductive, PTL

\* At the end of a complete answer the scan has delivered exactly what it owes.
LEMMA EndedScan ==
  ASSUME NoProperties, IInv, AtEnd, Started, ServerComplete
  PROVE  emitted = Promised
<1>1. Unread = {}
  BY EndedStream DEF IInv
<1>2. rpc # "broken"
  BY DEF ServerComplete
<1> QED
  BY <1>1, <1>2, SelectedPromised DEF IInv, Accounting

\* A scan that runs to the end of a complete answer misses no symbol.
THEOREM Complete ==
  ASSUME NoProperties
  PROVE  Spec => []ScanComplete
<1>1. IInv => ScanComplete
  BY EndedScan DEF ScanComplete, AtEnd, Started
<1> QED
  BY <1>1, Inductive, PTL

\* The row under the cursor belongs to the request in force and is new.
THEOREM Fresh == Spec => []CurrentRowIsFresh
<1>1. IInv => CurrentRowIsFresh
  <2> SUFFICES ASSUME IInv, AtRow
               PROVE  IsRow(m_reply) /\ m_reply.row \in Answer(req) /\ m_reply.row \notin emitted
    BY DEF CurrentRowIsFresh, AtRow
  <2>1. Started /\ m_reply.row \in Unread
    BY DEF AtRow, Started, Scanning, Unread
  <2> QED
    BY <2>1 DEF IInv, Accounting, StreamInv, OnePlace
<1> QED
  BY <1>1, Inductive, PTL

-----------------------------------------------------------------------------
(* SymbolsTable implements TableScan.                                      *)

\* What is owed is part of the index.
LEMMA PromisedRows ==
  ASSUME SymbolsAssumption
  PROVE  (Promised \in SUBSET Row)'
BY DEF Promised, SymbolsAssumption

\* Every step of the table is a step of the abstract scan, or changes nothing
\* in it.
LEMMA StepRefines ==
  ASSUME SymbolsAssumption, NoProperties, IInv, IInv', [Next]_vars
  PROVE  [Scan!Next]_(Scan!vars)
<1> DEFINE state == ScanState(ServerComplete)
           want == IF Started THEN Promised ELSE {}
           got == IF Started THEN emitted ELSE {}
<1>a. [Scan!Next]_(Scan!vars) <=>
        \/ state' = "scanning" /\ want' \in SUBSET Row /\ got' = {}
        \/ /\ state = "scanning" /\ \E row \in want \ got : got' = got \cup {row}
           /\ state' = state /\ want' = want
        \/ state = "scanning" /\ got = want /\ state' = "ended" /\ want' = want /\ got' = got
        \/ state = "scanning" /\ state' = "failed" /\ want' = want /\ got' = got
        \/ state' = "idle" /\ want' = {} /\ got' = {}
        \/ state' = state /\ want' = want /\ got' = got
  BY DEF Scan!Next, Scan!vars, Scan!Begin, Scan!Deliver, Scan!End, Scan!Fail, Scan!Drop
<1>b. ASSUME ~Started' PROVE state' = "idle" /\ want' = {} /\ got' = {}
  BY <1>b DEF Started, ScanState
<1>c. ASSUME Scanning, Scanning', UNCHANGED <<cons, vals, req>>
      PROVE  /\ state = "scanning" /\ state' = "scanning" /\ want' = want
             /\ want = Promised /\ got = emitted /\ got' = emitted'
  BY <1>c, SameSelection DEF Started, ScanState
<1> HIDE DEF state, want, got
<1>1. CASE ~Started'
  BY <1>1, <1>a, <1>b
<1>2. CASE Filter
  <2>1. Started' /\ Scanning' /\ emitted' = {}
    BY <1>2 DEF Filter, Started, Scanning
  <2>2. state' = "scanning" /\ want' = Promised' /\ got' = {}
    BY <2>1 DEF state, want, got, ScanState
  <2>3. Promised' \in SUBSET Row
    BY PromisedRows
  <2> QED
    BY <1>a, <2>2, <2>3
<1>3. CASE SeeEof /\ UNCHANGED req
  <2>1. /\ Scanning /\ Started /\ Started' /\ phase' = "done" /\ ~Scanning' /\ AtEnd
        /\ UNCHANGED <<cons, vals, req, rpc, pending, emitted>>
    BY <1>3 DEF SeeEof, Scanning, Started, AtEnd, streamVars
  <2>2. Promised' = Promised
    BY <2>1, SameSelection
  <2>3. state = "scanning" /\ want' = want /\ got' = got /\ want = Promised /\ got = emitted
    BY <2>1, <2>2 DEF state, want, got, ScanState
  <2>4. CASE ServerComplete'
    <3>1. emitted = Promised
      BY <2>1, <2>2, <2>4, EndedScan DEF ServerComplete
    <3>2. state' = "ended"
      BY <2>1, <2>4 DEF state, ScanState
    <3> QED
      BY <1>a, <2>3, <3>1, <3>2
  <2>5. CASE ~ServerComplete'
    <3>1. state' = "failed"
      BY <2>1, <2>5 DEF state, ScanState
    <3> QED
      BY <1>a, <2>3, <3>1
  <2> QED
    BY <2>4, <2>5
<1>4. CASE Examine(Passes) /\ UNCHANGED req
  <2>1. /\ AtRow /\ Scanning /\ Scanning' /\ Started /\ Started'
        /\ emitted' \in {emitted, emitted \cup {m_reply.row}}
        /\ UNCHANGED <<cons, vals, req>>
    BY <1>4 DEF Examine, AtRow, Scanning, Started
  <2>2. /\ state = "scanning" /\ state' = "scanning" /\ want' = want
        /\ want = Promised /\ got = emitted /\ got' = emitted'
    BY <1>c, <2>1
  <2>3. m_reply.row \notin emitted
    BY <2>1 DEF IInv, StreamInv, OnePlace, Unread
  <2>4. emitted' \subseteq Promised
    BY <2>1, SameSelection, SelectedPromised DEF IInv, Accounting
  <2> QED
    BY <1>a, <2>1, <2>2, <2>3, <2>4
<1>5. CASE (CallNext \/ ReadReply) /\ UNCHANGED req
  <2>1. Scanning /\ Scanning' /\ UNCHANGED <<cons, vals, req, emitted>>
    BY <1>5 DEF CallNext, ReadReply, Scanning
  <2> QED
    BY <1>a, <1>c, <2>1
<1>6. CASE Server /\ Started'
  <2>1. UNCHANGED <<phase, cons, vals, req, m_eof, emitted>>
    BY <1>6 DEF Server, ServerSend, ServerFinish, ChannelBreak
  <2>2. rpc = "streaming" \/ wire # <<>>
    BY <1>6 DEF Server, ServerSend, ServerFinish, ChannelBreak
  <2>3. phase # "done"
    BY <2>2 DEF IInv, StreamInv, EndOfStream, AtEnd
  <2>4. Scanning /\ Scanning'
    BY <1>6, <2>1, <2>3 DEF Started, Scanning
  <2> QED
    BY <1>a, <1>c, <2>1, <2>4
<1>7. CASE UNCHANGED vars
  <2>1. state' = state /\ want' = want /\ got' = got
    BY <1>7, SameSelection
    DEF vars, scanVars, state, want, got, ScanState, ServerComplete, Started, Scanning
  <2> QED
    BY <1>a, <2>1
<1> QED
  <2>1. /\ OpenCursor \/ FilterNull \/ Close => ~Started'
        /\ \A cs \in ConstraintLists : Prepare(cs, BestIndex(cs)) => ~Started'
    BY DEF Prepare, OpenCursor, FilterNull, Close, CloseCursor, Started, Scanning
  <2> QED
    BY <1>1, <1>2, <1>3, <1>4, <1>5, <1>6, <1>7, <2>1 DEF Next, Client, Aborted

\* The cursor implements the scan a virtual table promises SQLite.
THEOREM Refines ==
  ASSUME NoProperties
  PROVE  Spec => ImplementsTableScan
<1>1. Init => Scan!Init
  BY DEF Init, ScanInit, Scan!Init, ScanState, Started, Scanning
<1>2. IInv /\ IInv' /\ [Next]_vars => [Scan!Next]_(Scan!vars)
  BY StepRefines, SymbolsAssumption
<1> QED
  BY <1>1, <1>2, Inductive, PTL DEF Spec, ImplementsTableScan, Scan!Spec

-----------------------------------------------------------------------------
(* A scan gets on.  The index has to be finite: what the server answers    *)
(* otherwise has no end.                                                   *)

\* What the server has not sent yet is part of the index.
LEMMA PendingFinite ==
  ASSUME IsFiniteSet(Symbols), IInv, Scanning
  PROVE  IsFiniteSet(pending)
<1>1. pending \subseteq Answer(req)
  BY DEF IInv, Accounting, Started, Unread
<1>2. Answer(req) \subseteq Symbols
  BY DEF Answer
<1> QED
  BY <1>1, <1>2, FS_Subset

\* Each step of a scan leaves less of it to do, or starts a new stream.
LEMMA StepGetsOn ==
  ASSUME IsFiniteSet(Symbols), IInv, IInv', Scanning, Next
  PROVE  Work' < Work \/ StartStream(pending')
<1>1. IsFiniteSet(pending)
  BY PendingFinite
<1>2. StreamInv(Row) /\ StreamInv(Row)' /\ ScanTypeOK(Row)
  BY DEF IInv, StreamInv
<1>3. CASE Server
  BY <1>1, <1>2, <1>3, ServerWork DEF Server
<1>4. CASE ReadReply
  BY <1>1, <1>2, <1>4, ReadWork
<1>5. CASE SeeEof \/ Examine(Passes) \/ CallNext \/ FilterNull
  <2>1. UNCHANGED streamVars /\ UNCHANGED m_eof
    BY <1>5 DEF SeeEof, Examine, CallNext, FilterNull
  <2>2. \/ phase = "positioned" /\ ~m_eof /\ phase' = "examined"
        \/ phase = "positioned" /\ m_eof /\ phase' = "done"
        \/ phase = "examined" /\ phase' = "reading"
        \/ Scanning /\ phase # "reading" /\ phase' = "aborted"
    BY <1>5 DEF SeeEof, Examine, CallNext, FilterNull, Idle
  <2> QED
    BY <1>1, <1>2, <2>1, <2>2, ClientWork
<1>6. CASE Close
  BY <1>1, <1>2, <1>6, CloseWork DEF Close
<1>7. CASE Filter
  BY <1>7 DEF Filter, StartStream
<1>8. /\ ~Aborted /\ ~OpenCursor
      /\ \A cs \in ConstraintLists : ~Prepare(cs, BestIndex(cs))
  BY DEF Aborted, OpenCursor, Prepare, Scanning
<1> QED
  BY <1>3, <1>4, <1>5, <1>6, <1>7, <1>8 DEF Next, Client

\* A scan of symbols has a last step, whatever the server, the channel and SQLite do,
\* and in whatever order.
THEOREM GetsOn ==
  ASSUME IsFiniteSet(Symbols)
  PROVE  Spec => ScanGetsOn
<1>1. IInv /\ IInv' /\ [Next]_vars => [Scanning => Work' < Work \/ StartStream(pending')]_vars
  BY StepGetsOn
<1> QED
  BY <1>1, Inductive, PTL DEF Spec, ScanGetsOn
=============================================================================
