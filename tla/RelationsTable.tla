--------------------------- MODULE RelationsTable ---------------------------
(***************************************************************************)
(* The `base_of` and `overridden_by` tables (RelationsTable.cc): one       *)
(* cursor, driven by SQLite and answered by the server as in VtabScan.     *)
(*                                                                         *)
(* A row is a pair <<subject, object>>.  The cursor keeps the subjects it  *)
(* has been filtered by in m_subjects, and every xFilter asks the server   *)
(* for the relations of all of them.                                       *)
(***************************************************************************)
EXTENDS VtabScan

CONSTANTS
  Id,            \* symbol ids
  Relations,     \* Relations[kind]: the pairs of that kind in the server's index
  MaxSubjects    \* bound: how many subjects one cursor may collect

VARIABLES
  m_kind,        \* the relation this table was created for
  m_subjects     \* the cursor's vector of subjects

vars == <<scanVars, m_kind, m_subjects>>

RelationKind == {"BaseOf", "OverriddenBy"}
Row == Id \X Id
SubjectColumn == 0
ObjectColumn == 1

ASSUME RelationsAssumption ==
  /\ NULL \notin Id
  /\ Relations \in [RelationKind -> SUBSET Row]
  /\ MaxSubjects \in Nat
  /\ ConstraintLists \subseteq Seq(Constraint({SubjectColumn, ObjectColumn}, Comparison))

-----------------------------------------------------------------------------
\* A mistake in xBestIndex: SQLite is told not to test Subject.
BestIndexOmitting(cs) ==
  LET subject == Usable(cs, {SubjectColumn}, {"EQ"})
  IN  IF subject = {} THEN NoPlan
      ELSE [idxNum |-> {"SUBJECT"}, argv |-> <<Min(subject)>>, omit |-> {Min(subject)}]

\* The first usable equality on Subject becomes argv[0]; SQLite still tests it.
BestIndex(cs) ==
  LET subject == Usable(cs, {SubjectColumn}, {"EQ"})
  IN  IF subject = {} THEN NoPlan
      ELSE [idxNum |-> {"SUBJECT"}, argv |-> <<Min(subject)>>, omit |-> {}]

\* A mistake in xColumn: the columns are swapped.
ColumnSwapped(row, iColumn) == IF iColumn = SubjectColumn THEN row[2] ELSE row[1]

Column(row, iColumn) == IF iColumn = SubjectColumn THEN row[1] ELSE row[2]

\* The server's answer to a RelationsRequest.
Answer(predicate, subjects) ==
  {row \in Relations[predicate] : row[1] \in subjects}

\* Mistakes in xFilter: the first constraint's value is taken for the first
\* argument; only the first subject is ever asked about.
SubjectsOfFirstConstraint(vs) ==
  IF plan.idxNum = {} THEN m_subjects ELSE Append(m_subjects, vs[1])
SubjectsOnce(vs) ==
  IF plan.idxNum = {} \/ m_subjects # <<>> THEN m_subjects ELSE <<Arg(vs, 1)>>

\* push_back(sqlite3_value_text(argv[0])), when the plan has an argument.
Subjects(vs) ==
  IF plan.idxNum = {} THEN m_subjects ELSE Append(m_subjects, Arg(vs, 1))

\* What SQLite tests of the row under the cursor.
Passes ==
  \A i \in DOMAIN cons \ plan.omit :
    Holds(cons[i].op, Column(m_reply.row, cons[i].iColumn), vals[i])

\* xFilter, up to the Read in Next().
Filter ==
  /\ Idle
  /\ \E vs \in [DOMAIN cons -> Id \cup {NULL}] :
       /\ plan.idxNum # {} => Arg(vs, 1) # NULL /\ Len(m_subjects) < MaxSubjects
       /\ vals' = vs
       /\ m_subjects' = Subjects(vs)
  /\ StartStream(Answer(m_kind, Range(m_subjects')))
  /\ emitted' = {}
  /\ phase' = "reading"
  /\ UNCHANGED <<cons, plan, m_eof, m_kind>>

\* With a NULL argument sqlite3_value_text returns a null pointer, the
\* std::string built from it throws, and nothing catches it: the process ends.
FilterNull ==
  /\ Idle
  /\ plan.idxNum # {}
  /\ \E vs \in [DOMAIN cons -> Id \cup {NULL}] : Arg(vs, 1) = NULL /\ vals' = vs
  /\ phase' = "aborted"
  /\ UNCHANGED <<cons, plan, m_eof, streamVars, emitted, m_kind, m_subjects>>

\* xClose deletes m_subjects with the cursor.
Close == CloseCursor /\ m_subjects' = <<>> /\ UNCHANGED m_kind

Aborted == phase = "aborted" /\ UNCHANGED vars

-----------------------------------------------------------------------------
Init == ScanInit /\ m_kind \in RelationKind /\ m_subjects = <<>>

Client ==
  \/ /\ \/ \E cs \in ConstraintLists : Prepare(cs, BestIndex(cs))
        \/ OpenCursor \/ SeeEof \/ Examine(Passes) \/ CallNext \/ ReadReply
     /\ UNCHANGED <<m_kind, m_subjects>>
  \/ Filter \/ FilterNull \/ Close

Server ==
  /\ ServerSend \/ ServerFinish \/ ChannelBreak
  /\ UNCHANGED <<m_kind, m_subjects>>

Next == Client \/ Server \/ Aborted

Spec == Init /\ [][Next]_vars

-----------------------------------------------------------------------------
(* Fairness.  A blocked Read returns once there is something to return     *)
(* (gRPC), and SQLite goes on with a scan it has started unless it drops   *)
(* it.  That the server ends its answers, or the channel notices that it   *)
(* is gone, is an assumption: no deadline is set on the ClientContext.     *)

Advance == SeeEof \/ Examine(Passes) \/ CallNext

FairSpec ==
  /\ Spec
  /\ WF_vars(ReadReply /\ UNCHANGED <<m_kind, m_subjects>>)
  /\ WF_vars(Advance /\ UNCHANGED <<m_kind, m_subjects>>)
  /\ WF_vars((ServerSend \/ ServerFinish) /\ UNCHANGED <<m_kind, m_subjects>>)

-----------------------------------------------------------------------------
(* Properties.                                                             *)

\* The rows a scan owes SQLite: those of the index that satisfy the WHERE
\* clause, provided it has a usable equality on Subject; without one the
\* table is documented to be empty (README.md:152).
Promised ==
  IF Usable(cons, {SubjectColumn}, {"EQ"}) = {} THEN {}
  ELSE {row \in Relations[m_kind] :
          \A i \in DOMAIN cons :
            Holds(cons[i].op, Column(row, cons[i].iColumn), vals[i])}

\* Every variable holds a value of its type.
TypeOK ==
  /\ ScanTypeOK(Row)
  /\ cons \in Seq(Constraint({SubjectColumn, ObjectColumn}, Comparison))
  /\ plan \in [idxNum : SUBSET {"SUBJECT"}, argv : Seq(Nat), omit : SUBSET Nat]
  /\ vals \in Seq(Id \cup {NULL})
  /\ m_kind \in RelationKind
  /\ m_subjects \in Seq(Id)
  /\ Len(m_subjects) =< MaxSubjects

\* The plan is the one BestIndex makes: at most one argument, the right-hand
\* side of a usable equality on Subject, and every constraint left to SQLite.
PlanOK ==
  \/ plan = NoPlan /\ Usable(cons, {SubjectColumn}, {"EQ"}) = {}
  \/ \E k \in Usable(cons, {SubjectColumn}, {"EQ"}) :
       plan = [idxNum |-> {"SUBJECT"}, argv |-> <<k>>, omit |-> {}]

\* The cursor has asked about the subject of the present scan, and about none
\* when the plan has no argument.
SubjectsOK ==
  /\ plan.idxNum = {} \/ phase \in {"unprepared", "prepared"} => m_subjects = <<>>
  /\ Started =>
       /\ vals \in [DOMAIN cons -> Id \cup {NULL}]
       /\ plan.idxNum # {} => Arg(vals, 1) \in Range(m_subjects)

\* The rows the scan owes are those it has delivered and some it can still come
\* to, unless the channel broke; all it can come to answer the request.
Accounting ==
  Started =>
    /\ emitted \subseteq Promised
    /\ Unread \subseteq Answer(m_kind, Range(m_subjects))
    /\ rpc # "none"
    /\ rpc # "broken" => Promised \subseteq emitted \cup Unread

\* The inductive invariant.
IInv == TypeOK /\ PlanOK /\ StreamInv(Row) /\ SubjectsOK /\ Accounting

\* However many earlier subjects the request still names, and whether or not
\* the server or the channel fails, SQLite accepts only rows that satisfy the
\* WHERE clause for the values bound now: the plan leaves the test of Subject
\* to SQLite.
ScanSound == Started => emitted \subseteq Promised

\* A scan that runs to the end of a complete answer has produced every row
\* that satisfies the WHERE clause, whatever earlier scans of the cursor were
\* filtered by and however far they got.
ScanComplete == phase = "done" /\ ServerComplete => Promised \subseteq emitted

\* The row under the cursor is one of the answer to the request now in force,
\* never a leftover of a scan that was abandoned, and it has not been delivered
\* in this scan before.
CurrentRowIsFresh ==
  phase = "positioned" /\ ~m_eof =>
    /\ IsRow(m_reply)
    /\ m_reply.row \in Answer(m_kind, Range(m_subjects))
    /\ m_reply.row \notin emitted

\* The cursor implements the scan a virtual table promises.  A scan cut short
\* by the server or the channel is one that failed, though the code reports
\* an ordinary end of file for it.
Scan == INSTANCE TableScan WITH
  state <- ScanState(ServerComplete),
  want <- IF Started THEN Promised ELSE {},
  got <- IF Started THEN emitted ELSE {}

ImplementsTableScan == Scan!Spec

\* Whoever moves, in whatever order, each step of a scan leaves less of it to do, so
\* that no scan goes round in circles: Read may block, but nothing is tried again, and
\* only xFilter begins anew.
ScanGetsOn == [][Scanning => Work' < Work \/ StartStream(pending')]_vars

\* A call that blocks in Read returns, as long as the server keeps answering.
BlockedCallReturns == phase = "reading" ~> phase = "positioned"

\* A scan does not go on for ever: either the cursor is out of its scans again
\* and again, or SQLite restarts or drops them again and again.
ScanEnds == []<>~Scanning \/ []<><<Filter \/ Close>>_vars
=============================================================================
