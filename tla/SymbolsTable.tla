---------------------------- MODULE SymbolsTable ----------------------------
(***************************************************************************)
(* The `symbols` table (SymbolsTable.cc): one cursor, driven by SQLite and *)
(* answered by the server as in VtabScan.                                  *)
(*                                                                         *)
(* An equality on Id becomes a Lookup; anything else becomes a FuzzyFind,  *)
(* narrowed by the name and the scope it finds in the WHERE clause.  The   *)
(* table replaces SQLite's LIKE on every one of its columns by a function  *)
(* that is always true, so that whatever a LIKE is to select has to come   *)
(* from the server.                                                        *)
(***************************************************************************)
EXTENDS VtabScan

CONSTANTS
  Id, Name, Scope, Text,   \* values of the columns; Text for paths and the rest
  Symbols,                 \* the symbols of the server's index
  FuzzyMatch               \* FuzzyMatch[name]: the symbols a query for it finds

VARIABLE
  req       \* the request of the stream

vars == <<scanVars, req>>

\* The bits of the `properties` field, in the order of their values.
SymbolProperty ==
  <<"Generic", "TemplatePartialSpecialization", "TemplateSpecialization", "UnitTest",
    "IBAnnotated", "IBOutletCollection", "GKInspectable", "Local", "ProtocolInterface">>

\* The fields of a symbol, as far as the columns below need them; NULL stands
\* for an optional field that is not set.
Row ==
  [id : Id, name : Name, scope : Scope, signature : Text, defPath : Text \cup {NULL},
   declPath : Text \cup {NULL}, properties : (SUBSET Range(SymbolProperty)) \cup {NULL}]

IdColumn == 0
NameColumn == 1
ScopeColumn == 2
SignatureColumn == 3     \* for every column that is neither searched nor a property
PathColumns == {7, 12}   \* DefPath and DeclPath
GenericColumn == 20      \* the first of the nine property columns
Columns == {0, 1, 2, 3} \cup PathColumns \cup 20..28

Operators == Comparison \cup {"LIKE"}

NoRequest == [rpc |-> "none"]

ASSUME SymbolsAssumption ==
  /\ NULL \notin Id \cup Name \cup Scope \cup Text \cup {0, 1}
  /\ Symbols \subseteq Row
  /\ FuzzyMatch \in [Name -> SUBSET Symbols]
  /\ \A row \in Symbols : row \in FuzzyMatch[row.name]
  /\ ConstraintLists \subseteq Seq(Constraint(Columns, Operators))

-----------------------------------------------------------------------------
SearchFlag ==
  {"SEARCH_ID", "SEARCH_FUZZYNAME", "SEARCH_SCOPE", "SEARCH_PATH", "SEARCH_SCOPE_EXACT"}

\* What BestIndex looks for: the constraints that would do.
Ids(cs) == Usable(cs, {IdColumn}, {"EQ"})
Names(cs) == Usable(cs, {NameColumn}, {"EQ", "LIKE"})
Scopes(cs) == Usable(cs, {ScopeColumn}, {"EQ", "LIKE"})
Paths(cs) == Usable(cs, PathColumns, {"LIKE"})

\* The first of them becomes an argument.
FirstOf(S) == IF S = {} THEN <<>> ELSE <<Min(S)>>

Arguments(cs) == FirstOf(Names(cs)) \o FirstOf(Scopes(cs)) \o FirstOf(Paths(cs))

ScopeIsExact(cs) == Scopes(cs) # {} /\ cs[Min(Scopes(cs))].op = "EQ"

Flags(cs) ==
  {flag \in SearchFlag :
     \/ flag = "SEARCH_FUZZYNAME" /\ Names(cs) # {}
     \/ flag = "SEARCH_SCOPE" /\ Scopes(cs) # {}
     \/ flag = "SEARCH_SCOPE_EXACT" /\ ScopeIsExact(cs)
     \/ flag = "SEARCH_PATH" /\ Paths(cs) # {}}

\* A mistake in xBestIndex: SQLite is told to test none of the arguments.
OmittedAll(cs, chosen) == chosen

\* The server does what a LIKE is for, and SQLite tests the equalities.
Omitted(cs, chosen) == {i \in chosen : cs[i].op = "LIKE"}

\* The first usable equality on Id is all of the search, and SQLite is told not
\* to test it.  Otherwise the first constraint of each search that finds one is
\* an argument.
BestIndex(cs) ==
  IF Ids(cs) # {}
  THEN [idxNum |-> {"SEARCH_ID"}, argv |-> FirstOf(Ids(cs)), omit |-> {Min(Ids(cs))}]
  ELSE [idxNum |-> Flags(cs), argv |-> Arguments(cs),
        omit |-> Omitted(cs, Range(Arguments(cs)))]

\* A mistake in xFilter: the scope is taken before the name.
ArgIndexScopeFirst ==
  LET scope == Given("SEARCH_SCOPE")
      name == scope + Given("SEARCH_FUZZYNAME")
  IN  [SEARCH_FUZZYNAME |-> name, SEARCH_SCOPE |-> scope,
       SEARCH_PATH |-> name + Given("SEARCH_PATH")]

\* xFilter counts argIndex up for each flag that is set, in this order.
ArgIndex ==
  LET name == Given("SEARCH_FUZZYNAME")
      scope == name + Given("SEARCH_SCOPE")
  IN  [SEARCH_FUZZYNAME |-> name, SEARCH_SCOPE |-> scope,
       SEARCH_PATH |-> scope + Given("SEARCH_PATH")]

\* The sequence of the one argument of a flag, or of none if it is not set.
FlagArgs(vs, flag) ==
  IF flag \in plan.idxNum THEN <<Arg(vs, ArgIndex[flag])>> ELSE <<>>

\* A mistake in xFilter: any scope will do only if none is given.
AnyScopeUnlessGiven == "SEARCH_SCOPE" \notin plan.idxNum

\* Other scopes than the one given are left out only if the scope is exact.
AnyScope == "SEARCH_SCOPE_EXACT" \notin plan.idxNum

\* The request xFilter makes of the arguments.
Request(vs) ==
  IF plan.idxNum = {"SEARCH_ID"}
  THEN [rpc |-> "Lookup", ids |-> <<Arg(vs, 1)>>]
  ELSE [rpc |-> "FuzzyFind",
        query |-> FlagArgs(vs, "SEARCH_FUZZYNAME"),
        scopes |-> FlagArgs(vs, "SEARCH_SCOPE"),
        proximity_paths |-> FlagArgs(vs, "SEARCH_PATH"),
        any_scope |-> AnyScope]

\* The server's answer.  Without a query every name will do; the paths only
\* affect the order.
Answer(r) ==
  IF r.rpc = "Lookup" THEN {row \in Symbols : row.id = r.ids[1]}
  ELSE {row \in Symbols : /\ r.query = <<>>
                            \/ \E name \in Name : r.query = <<name>> /\ row \in FuzzyMatch[name]
                          /\ r.any_scope \/ row.scope \in Range(r.scopes)}

\* The text columns.
Field(row, iColumn) ==
  IF iColumn = IdColumn THEN row.id
  ELSE IF iColumn = NameColumn THEN row.name
  ELSE IF iColumn = ScopeColumn THEN row.scope
  ELSE IF iColumn = SignatureColumn THEN row.signature
  ELSE IF iColumn = 7 THEN row.defPath ELSE row.declPath

\* (properties & X) == X, or NULL when there are no properties.
HasProperty(row, property) ==
  IF row.properties = NULL THEN NULL ELSE IF property \in row.properties THEN 1 ELSE 0

\* The property of each case of xColumn's switch from 20 on: one label is given
\* twice, and those after it come one too late.
PropertyOfCase(iColumn) ==
  SymbolProperty[IF iColumn < 23 THEN iColumn - 19 ELSE iColumn - 20]

Column(row, iColumn) ==
  IF iColumn < GenericColumn THEN Field(row, iColumn)
  ELSE HasProperty(row, PropertyOfCase(iColumn))

\* A mistake in xFindFunction: LIKE is not overloaded.
TestWithoutOverload(op, left, right) == Holds(op, left, right)

\* SQLite's test of a constraint, with LIKE overloaded by dummy_func.
Test(op, left, right) == op = "LIKE" \/ Holds(op, left, right)

\* What a WHERE clause may compare each column with.
Domain(iColumn) ==
  IF iColumn = IdColumn THEN Id
  ELSE IF iColumn = NameColumn THEN Name
  ELSE IF iColumn = ScopeColumn THEN Scope
  ELSE IF iColumn >= GenericColumn THEN {0, 1} ELSE Text
Values(cs) ==
  {vs \in [DOMAIN cs -> Id \cup Name \cup Scope \cup Text \cup {0, 1, NULL}] :
     \A i \in DOMAIN cs : vs[i] \in Domain(cs[i].iColumn) \cup {NULL}}

\* What SQLite tests of the row under the cursor.
Passes ==
  \A i \in DOMAIN cons \ plan.omit :
    Test(cons[i].op, Column(m_reply.row, cons[i].iColumn), vals[i])

\* xFilter, up to the Read in Next().
Filter ==
  /\ Idle
  /\ \E vs \in Values(cons) :
       /\ \A k \in DOMAIN plan.argv : Arg(vs, k) # NULL
       /\ vals' = vs
       /\ req' = Request(vs)
  /\ StartStream(Answer(req'))
  /\ emitted' = {}
  /\ phase' = "reading"
  /\ UNCHANGED <<cons, plan, m_eof>>

\* A NULL argument reaches the request's string as a null pointer: the process
\* ends.
FilterNull ==
  /\ Idle
  /\ \E vs \in Values(cons) :
       /\ \E k \in DOMAIN plan.argv : Arg(vs, k) = NULL
       /\ vals' = vs
  /\ phase' = "aborted"
  /\ UNCHANGED <<cons, plan, m_eof, streamVars, emitted, req>>

Close == CloseCursor /\ req' = NoRequest

Aborted == phase = "aborted" /\ UNCHANGED vars

-----------------------------------------------------------------------------
Init == ScanInit /\ req = NoRequest

Client ==
  \/ /\ \/ \E cs \in ConstraintLists : Prepare(cs, BestIndex(cs))
        \/ OpenCursor \/ SeeEof \/ Examine(Passes) \/ CallNext \/ ReadReply
     /\ UNCHANGED req
  \/ Filter \/ FilterNull \/ Close

Server == (ServerSend \/ ServerFinish \/ ChannelBreak) /\ UNCHANGED req

Next == Client \/ Server \/ Aborted

Spec == Init /\ [][Next]_vars

-----------------------------------------------------------------------------
(* Fairness, as in RelationsTable: a blocked Read returns once it can,     *)
(* SQLite goes on with a scan it has started unless it drops it, and the   *)
(* server is assumed to end its answers.                                   *)

Advance == SeeEof \/ Examine(Passes) \/ CallNext

FairSpec ==
  /\ Spec
  /\ WF_vars(ReadReply /\ UNCHANGED req)
  /\ WF_vars(Advance /\ UNCHANGED req)
  /\ WF_vars((ServerSend \/ ServerFinish) /\ UNCHANGED req)

-----------------------------------------------------------------------------
(* Properties.                                                             *)

\* The value a column has by the table's schema (SymbolsTable.cc:276-286).
SchemaValue(row, iColumn) ==
  IF iColumn < GenericColumn THEN Field(row, iColumn)
  ELSE HasProperty(row, SymbolProperty[iColumn - 19])

\* The constraint on Name that is documented to be a fuzzy search
\* (README.md:140): the first usable one, unless a symbol is looked up by Id.
FuzzySearch == IF Ids(cons) # {} \/ Names(cons) = {} THEN {} ELSE {Min(Names(cons))}

\* Whether a row whose column has that value satisfies the i-th constraint of
\* the WHERE clause.  LIKE is a fuzzy search or, as the table has it, no
\* restriction at all.
Satisfies(row, value, i) ==
  IF cons[i].op = "LIKE"
  THEN i \in FuzzySearch => row \in FuzzyMatch[vals[i]]
  ELSE Holds(cons[i].op, value, vals[i])

\* The rows a scan owes SQLite.
Promised ==
  {row \in Symbols : \A i \in DOMAIN cons : Satisfies(row, SchemaValue(row, cons[i].iColumn), i)}

\* The rows that satisfy the WHERE clause with the columns as xColumn has them.
Selected ==
  {row \in Symbols : \A i \in DOMAIN cons : Satisfies(row, Column(row, cons[i].iColumn), i)}

\* README.md:96: the server sends no properties.
NoProperties == \A row \in Symbols : row.properties \in {{}, NULL}

\* Every variable holds a value of its type.
TypeOK ==
  /\ ScanTypeOK(Row)
  /\ cons \in Seq(Constraint(Columns, Operators))
  /\ plan \in [idxNum : SUBSET SearchFlag, argv : Seq(Nat), omit : SUBSET Nat]
  /\ vals \in Seq(Id \cup Name \cup Scope \cup Text \cup {0, 1, NULL})
  /\ req \in {NoRequest}
            \cup [rpc : {"Lookup"}, ids : Seq(Id)]
            \cup [rpc : {"FuzzyFind"}, query : Seq(Name), scopes : Seq(Scope),
                 proximity_paths : Seq(Text), any_scope : BOOLEAN]

\* The request of a scan is made of the values SQLite compares with, none of
\* them NULL, and of the present plan.
RequestOK ==
  /\ plan = BestIndex(cons)
  /\ Started =>
       /\ vals \in Values(cons) /\ \A k \in DOMAIN plan.argv : Arg(vals, k) # NULL
       /\ req = Request(vals)

\* The rows SQLite is to get are those it has accepted and some the scan can
\* still come to, unless the channel broke; all it can come to answer the request.
Accounting ==
  Started =>
    /\ emitted \subseteq Selected
    /\ Unread \subseteq Answer(req)
    /\ rpc # "broken" => Selected \subseteq emitted \cup Unread

\* The inductive invariant.
IInv == TypeOK /\ StreamInv(Row) /\ RequestOK /\ Accounting

\* What SQLite is told not to test, the request has already made certain:
\* SQLite accepts only rows that satisfy the WHERE clause, whether or not the
\* server or the channel fails.
ScanSound == Started => emitted \subseteq Promised

\* A scan that runs to the end of a complete answer has produced every symbol
\* that satisfies the WHERE clause: no request is narrower than the clause it
\* was made from.
ScanComplete == phase = "done" /\ ServerComplete => Promised \subseteq emitted

\* The row under the cursor belongs to the request now in force, and has not
\* been delivered in this scan before.
CurrentRowIsFresh ==
  phase = "positioned" /\ ~m_eof =>
    IsRow(m_reply) /\ m_reply.row \in Answer(req) \ emitted

\* The cursor implements the scan a virtual table promises.
Scan == INSTANCE TableScan WITH
  state <- ScanState(ServerComplete),
  want <- IF Started THEN Promised ELSE {},
  got <- IF Started THEN emitted ELSE {}

ImplementsTableScan == Scan!Spec

\* Whoever moves, in whatever order, each step of a scan leaves less of it to do, so
\* that no scan goes round in circles: Read may block, but nothing is tried again, and
\* only xFilter begins anew.
ScanGetsOn == [][Scanning => Work' < Work \/ StartStream(pending')]_vars

\* A scan does not go on for ever: either the cursor is out of its scans again
\* and again, or SQLite restarts or drops them again and again.
ScanEnds == []<>~Scanning \/ []<><<Filter \/ Close>>_vars

\* README.md:150: "querying on symbol id, name or scope is fast, everything
\* else needs to happen client side": a LIKE that no argument of the request
\* stands for is tested by SQLite.  (The patterns here have no wildcards.)
LikeIsTested ==
  Started =>
    \A row \in emitted, i \in DOMAIN cons :
      cons[i].op = "LIKE" /\ i \notin Range(plan.argv)
        => Holds("EQ", SchemaValue(row, cons[i].iColumn), vals[i])

\* README.md:84-92: the columns from Generic on are, in this order, the nine
\* properties of a symbol.
ColumnsMatchSchema ==
  phase = "positioned" /\ ~m_eof =>
    \A iColumn \in Columns :
      Column(m_reply.row, iColumn) = SchemaValue(m_reply.row, iColumn)
=============================================================================
