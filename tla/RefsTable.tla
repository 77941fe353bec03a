------------------------------ MODULE RefsTable ------------------------------
(***************************************************************************)
(* The `refs` table (RefsTable.cc): one cursor, driven by SQLite and       *)
(* answered by the server as in VtabScan.                                  *)
(*                                                                         *)
(* The server answers with references: where one is, and the kinds it has. *)
(* The symbol is not part of the reply, so the SymbolId column is read     *)
(* back from the request.  idxNum tells xFilter which constraints          *)
(* xBestIndex gave an argument to; the two walk the arguments in the same  *)
(* order and otherwise share no information.                               *)
(***************************************************************************)
EXTENDS VtabScan

CONSTANTS
  Id,         \* symbol ids
  Location,   \* where a reference can be: the columns from Path on
  Refs        \* Refs[id]: the references to a symbol in the server's index

VARIABLE
  m_req       \* the request of the stream: ids, and filter as a set of kinds

vars == <<scanVars, m_req>>

RefKind == {"Declaration", "Definition", "Reference", "Spelled"}
Row == [kind : (SUBSET RefKind) \ {{}}, location : Location]

\* The schema's columns, numbered as SQLite numbers them; every column from
\* Path on is the location.
SymbolIdColumn == 0
KindOfColumn == <<"Declaration", "Definition", "Reference", "Spelled">>
PathColumn == 5

NoRequest == [ids |-> <<>>, filter |-> {}]

ASSUME RefsAssumption ==
  /\ NULL \notin Id /\ NULL \notin Location /\ NULL \notin {0, 1}
  /\ Refs \in [Id -> SUBSET Row]
  /\ ConstraintLists \subseteq Seq(Constraint(0..PathColumn, Comparison))

-----------------------------------------------------------------------------
Flag == {"CONSTR_ID", "CONSTR_DEF", "CONSTR_DECL", "CONSTR_REF", "CONSTR_SPE"}

\* The flag each equality sets in idxNum, by column.  The constraint on
\* Declaration and the one on Definition both set CONSTR_DEF.
FlagOfColumn ==
  [iColumn \in 0..4 |->
     <<"CONSTR_ID", "CONSTR_DEF", "CONSTR_DEF", "CONSTR_REF", "CONSTR_SPE">>[iColumn + 1]]

\* The usable equalities on a column, of which the first becomes an argument.
Equalities(cs, iColumn) == Usable(cs, {iColumn}, {"EQ"})

FirstOf(cs, iColumn) ==
  IF Equalities(cs, iColumn) = {} THEN <<>> ELSE <<Min(Equalities(cs, iColumn))>>

Flags(cs) == {FlagOfColumn[iColumn] : iColumn \in {c \in 0..4 : Equalities(cs, c) # {}}}

Arguments(cs) ==
  FirstOf(cs, 0) \o FirstOf(cs, 1) \o FirstOf(cs, 2) \o FirstOf(cs, 3) \o FirstOf(cs, 4)

\* Mistakes in xBestIndex: SymbolId is looked for last; SQLite is told not to
\* test what has become an argument.
BestIndexSymbolIdLast(cs) ==
  [idxNum |-> Flags(cs), omit |-> {},
   argv |-> FirstOf(cs, 1) \o FirstOf(cs, 2) \o FirstOf(cs, 3) \o FirstOf(cs, 4) \o FirstOf(cs, 0)]
BestIndexOmitting(cs) ==
  [idxNum |-> Flags(cs), argv |-> Arguments(cs), omit |-> Range(Arguments(cs))]

\* For each of the columns in turn, the first usable equality on it becomes the
\* next argument.  SQLite still tests every constraint.
BestIndex(cs) == [idxNum |-> Flags(cs), argv |-> Arguments(cs), omit |-> {}]

\* xFilter counts argvIndex up for each flag that is set, in this order.
ArgIndex ==
  LET id == Given("CONSTR_ID")
      def == id + Given("CONSTR_DEF")
      decl == def + Given("CONSTR_DECL")
      ref == decl + Given("CONSTR_REF")
      spe == ref + Given("CONSTR_SPE")
  IN  [CONSTR_ID |-> id, CONSTR_DEF |-> def, CONSTR_DECL |-> decl, CONSTR_REF |-> ref,
       CONSTR_SPE |-> spe]

\* The argument xFilter reads for a flag.
FlagArg(vs, flag) == Arg(vs, ArgIndex[flag])

\* sqlite3_value_int, of a flag's argument.
IntValue(value) == IF value = 1 THEN 1 ELSE 0

\* A mistake in xFilter: the test of the argument is inverted.
RequestFilterInverted(vs) ==
  IF \E flag \in plan.idxNum \ {"CONSTR_ID"} : IntValue(FlagArg(vs, flag)) = 1
    THEN {} ELSE RefKind

\* kind &= !Kind_X, which is kind &= 0, for every flag whose argument is zero.
RequestFilter(vs) ==
  IF \E flag \in plan.idxNum \ {"CONSTR_ID"} : IntValue(FlagArg(vs, flag)) = 0
    THEN {} ELSE RefKind

\* The server's answer to a RefsRequest: the references to the named symbol of
\* a kind in the filter, and none when no symbol is named.
Answer(req) ==
  {row \in UNION {Refs[id] : id \in Id \cap Range(req.ids)} :
     row.kind \cap req.filter # {}}

\* A column of the reference `row` to the symbol id.
Value(id, row, iColumn) ==
  IF iColumn = SymbolIdColumn THEN id
  ELSE IF iColumn = PathColumn THEN row.location
  ELSE IF KindOfColumn[iColumn] \in row.kind THEN 1 ELSE 0

\* A mistake in xColumn: Declaration and Definition are swapped.
ColumnSwapped(row, iColumn) ==
  Value(m_req.ids[1], row, IF iColumn \in {1, 2} THEN 3 - iColumn ELSE iColumn)

\* xColumn: SymbolId is m_req.ids(0), the rest is in the reply.
Column(row, iColumn) == Value(m_req.ids[1], row, iColumn)

\* What a WHERE clause may compare each column with.
Domain(iColumn) ==
  IF iColumn = SymbolIdColumn THEN Id ELSE IF iColumn = PathColumn THEN Location ELSE {0, 1}
Values(cs) ==
  {vs \in [DOMAIN cs -> Id \cup {0, 1, NULL} \cup Location] :
     \A i \in DOMAIN cs : vs[i] \in Domain(cs[i].iColumn) \cup {NULL}}

\* What SQLite tests of the row under the cursor.
Passes ==
  \A i \in DOMAIN cons \ plan.omit :
    Holds(cons[i].op, Column(m_reply.row, cons[i].iColumn), vals[i])

\* xFilter with arguments, up to the Read in Next().
FilterRequest ==
  /\ Idle
  /\ plan.idxNum # {}
  /\ \E vs \in Values(cons) :
       /\ "CONSTR_ID" \in plan.idxNum => FlagArg(vs, "CONSTR_ID") # NULL
       /\ vals' = vs
       /\ m_req' = [ids |-> IF "CONSTR_ID" \in plan.idxNum
                              THEN <<FlagArg(vs, "CONSTR_ID")>> ELSE <<>>,
                    filter |-> RequestFilter(vs)]
  /\ StartStream(Answer(m_req'))
  /\ emitted' = {}
  /\ phase' = "reading"
  /\ UNCHANGED <<cons, plan, m_eof>>

\* xFilter without arguments: nothing is asked and the cursor is at its end.
FilterNothing ==
  /\ Idle
  /\ plan.idxNum = {}
  /\ vals' \in Values(cons)
  /\ m_eof' = TRUE
  /\ emitted' = {}
  /\ phase' = "positioned"
  /\ UNCHANGED <<cons, plan, streamVars, m_req>>

\* A NULL SymbolId reaches add_ids as a null pointer: the process ends.
FilterNull ==
  /\ Idle
  /\ "CONSTR_ID" \in plan.idxNum
  /\ \E vs \in Values(cons) : FlagArg(vs, "CONSTR_ID") = NULL /\ vals' = vs
  /\ phase' = "aborted"
  /\ UNCHANGED <<cons, plan, m_eof, streamVars, emitted, m_req>>

Close == CloseCursor /\ m_req' = NoRequest

Aborted == phase = "aborted" /\ UNCHANGED vars

-----------------------------------------------------------------------------
Init == ScanInit /\ m_req = NoRequest

Client ==
  \/ /\ \/ \E cs \in ConstraintLists : Prepare(cs, BestIndex(cs))
        \/ OpenCursor \/ SeeEof \/ Examine(Passes) \/ CallNext \/ ReadReply
     /\ UNCHANGED m_req
  \/ FilterRequest \/ FilterNothing \/ FilterNull \/ Close

Server == (ServerSend \/ ServerFinish \/ ChannelBreak) /\ UNCHANGED m_req

Next == Client \/ Server \/ Aborted

Spec == Init /\ [][Next]_vars

-----------------------------------------------------------------------------
(* Properties.                                                             *)

\* The rows a scan owes SQLite: the references that satisfy the WHERE clause,
\* provided it has a usable equality on SymbolId; without one the table is
\* documented to be empty (README.md:113).
Promised ==
  IF Usable(cons, {SymbolIdColumn}, {"EQ"}) = {} THEN {}
  ELSE UNION {{row \in Refs[id] :
                 \A i \in DOMAIN cons :
                   Holds(cons[i].op, Value(id, row, cons[i].iColumn), vals[i])} : id \in Id}

\* A usable equality compares one of the four kind columns with zero.
AsksForZero == \E i \in Usable(cons, 1..4, {"EQ"}) : vals[i] = 0

\* Every variable holds a value of its type.
TypeOK ==
  /\ ScanTypeOK(Row)
  /\ cons \in Seq(Constraint(0..PathColumn, Comparison))
  /\ plan \in [idxNum : SUBSET Flag, argv : Seq(Nat), omit : SUBSET Nat]
  /\ vals \in Seq(Id \cup {0, 1, NULL} \cup Location)
  /\ m_req \in [ids : Seq(Id), filter : SUBSET RefKind]

\* The plan is one BestIndex makes: SymbolId comes first, as many arguments as
\* flags or more follow, all of them equalities on kind columns, and nothing is
\* left untested.
PlanOK ==
  /\ plan.omit = {}
  /\ "CONSTR_ID" \in plan.idxNum <=> Equalities(cons, SymbolIdColumn) # {}
  /\ "CONSTR_ID" \in plan.idxNum => plan.argv[1] \in Equalities(cons, SymbolIdColumn)
  /\ \A k \in 1..Len(plan.argv) :
       k > Given("CONSTR_ID") => plan.argv[k] \in Usable(cons, 1..4, {"EQ"})
  /\ ArgIndex["CONSTR_SPE"] =< Len(plan.argv)

\* The request of a scan names the symbol SQLite compares SymbolId with, if
\* any, and asks for all kinds unless a kind is compared with zero or NULL.
RequestOK ==
  /\ plan.idxNum = {} \/ phase \in {"unprepared", "prepared"} => rpc = "none" /\ m_req = NoRequest
  /\ Started =>
       /\ vals \in Values(cons)
       /\ plan.idxNum # {} => rpc # "none"
       /\ m_req.ids = IF "CONSTR_ID" \in plan.idxNum THEN <<vals[plan.argv[1]]>> ELSE <<>>
       /\ "CONSTR_ID" \in plan.idxNum =>
            \/ m_req.filter = RefKind
            \/ \E i \in Usable(cons, 1..4, {"EQ"}) : vals[i] \in {0, NULL}

\* The rows the scan owes are those it has delivered and some it can still come
\* to, unless the channel broke or a kind is compared with zero; all it can come
\* to answer the request.
Accounting ==
  Started =>
    /\ emitted \subseteq Promised
    /\ Unread \subseteq Answer(m_req)
    /\ rpc # "broken" /\ ~AsksForZero => Promised \subseteq emitted \cup Unread

\* The inductive invariant.
IInv == TypeOK /\ PlanOK /\ StreamInv(Row) /\ RequestOK /\ Accounting

\* Whatever the mix-up of flags and arguments does to the request's filter,
\* and whether or not the server or the channel fails, SQLite accepts only
\* references that satisfy the WHERE clause.
ScanSound == Started => emitted \subseteq Promised

\* As long as no kind column is compared with zero, a scan that runs to the end
\* of a complete answer has produced every reference that satisfies the WHERE
\* clause.
ScanComplete ==
  phase = "done" /\ ServerComplete /\ ~AsksForZero => Promised \subseteq emitted

\* The row under the cursor belongs to the request now in force, which names a
\* symbol (so that SymbolId can be read back from it), and it has not been
\* delivered in this scan before.
CurrentRowIsFresh ==
  phase = "positioned" /\ ~m_eof =>
    /\ IsRow(m_reply)
    /\ m_req.ids # <<>>
    /\ m_reply.row \in Answer(m_req)
    /\ m_reply.row \notin emitted

\* The cursor implements the scan a virtual table promises, where a scan that
\* asks for a zero is counted among those that may fail to deliver.
Scan == INSTANCE TableScan WITH
  state <- ScanState(ServerComplete /\ ~AsksForZero),
  want <- IF Started THEN Promised ELSE {},
  got <- IF Started THEN emitted ELSE {}

ImplementsTableScan == Scan!Spec

\* Whoever moves, in whatever order, each step of a scan leaves less of it to do, so
\* that no scan goes round in circles: Read may block, but nothing is tried again, and
\* only xFilter begins anew.
ScanGetsOn == [][Scanning => Work' < Work \/ StartStream(pending') \/ FilterNothing]_vars

\* README.md:22: "You can then query the codebase as if it was a regular
\* table": what a complete scan returns is what the WHERE clause selects.
RegularTable == phase = "done" /\ ServerComplete => emitted = Promised

\* RefsTable.cc:146-150: the argument of CONSTR_REF decides whether references
\* of the kind Reference are asked for, so it is the value Reference is
\* compared with; likewise for CONSTR_SPE and Spelled.
ArgumentsMatchFlags ==
  /\ "CONSTR_REF" \in plan.idxNum => cons[plan.argv[ArgIndex["CONSTR_REF"]]].iColumn = 3
  /\ "CONSTR_SPE" \in plan.idxNum => cons[plan.argv[ArgIndex["CONSTR_SPE"]]].iColumn = 4
=============================================================================
