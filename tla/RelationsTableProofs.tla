------------------------ MODULE RelationsTableProofs ------------------------
(***************************************************************************)
(* The inductive invariant of RelationsTable, and what follows from it.    *)
(***************************************************************************)
EXTENDS RelationsTable, VtabScanProofs

-----------------------------------------------------------------------------
(* Constraints, plans and subjects.                                        *)

\* BestIndex answers with a plan as PlanOK describes it.
LEMMA BestIndexPlan ==
  ASSUME RelationsAssumption, NEW cs \in ConstraintLists,
         cons' = cs, plan' = BestIndex(cs)
  PROVE  /\ PlanOK'
         /\ cons' \in Seq(Constraint({SubjectColumn, ObjectColumn}, Comparison))
         /\ plan' \in [idxNum : SUBSET {"SUBJECT"}, argv : Seq(Nat), omit : SUBSET Nat]
<1> DEFINE subject == Usable(cs, {SubjectColumn}, {"EQ"})
<1>1. cs \in Seq(Constraint({SubjectColumn, ObjectColumn}, Comparison))
  BY DEF RelationsAssumption
<1>2. subject \in SUBSET Nat
  BY <1>1, UsableIndices
<1>3. Usable(cons, {SubjectColumn}, {"EQ"})' = subject
  BY DEF Usable
<1> HIDE DEF subject
<1>4. CASE subject = {}
  <2>1. plan' = NoPlan
    BY <1>4 DEF BestIndex, subject
  <2>2. NoPlan \in [idxNum : SUBSET {"SUBJECT"}, argv : Seq(Nat), omit : SUBSET Nat]
    BY EmptySeq DEF NoPlan
  <2> QED
    BY <1>1, <1>3, <1>4, <2>1, <2>2 DEF PlanOK
<1>5. CASE subject # {}
  <2>1. Min(subject) \in subject
    BY <1>2, <1>5, MinOfIndices
  <2>2. plan' = [idxNum |-> {"SUBJECT"}, argv |-> <<Min(subject)>>, omit |-> {}]
    BY <1>5 DEF BestIndex, subject
  <2>3. <<Min(subject)>> \in Seq(Nat)
    <3>1. Min(subject) \in Nat
      BY <1>2, <2>1
    <3> QED
      BY <3>1
  <2>4. PlanOK'
    BY <1>3, <2>1, <2>2 DEF PlanOK
  <2> QED
    BY <1>1, <2>2, <2>3, <2>4
<1> QED
  BY <1>4, <1>5

\* The argument of a plan is the value of an equality on Subject, and nothing is
\* left untested.
LEMMA PlanArgument ==
  ASSUME PlanOK
  PROVE  /\ plan.omit = {}
         /\ plan.idxNum = {} => Usable(cons, {SubjectColumn}, {"EQ"}) = {}
         /\ plan.idxNum # {} =>
              /\ Usable(cons, {SubjectColumn}, {"EQ"}) # {}
              /\ plan.argv[1] \in DOMAIN cons
              /\ cons[plan.argv[1]].iColumn = SubjectColumn
              /\ cons[plan.argv[1]].op = "EQ"
BY DEF PlanOK, NoPlan, Usable

\* Every subject handed to push_back is one of the request's.
LEMMA SubjectsAppend ==
  ASSUME m_subjects \in Seq(Id), NEW x \in Id
  PROVE  /\ Append(m_subjects, x) \in Seq(Id)
         /\ Len(Append(m_subjects, x)) = Len(m_subjects) + 1
         /\ x \in Range(Append(m_subjects, x))
<1>1. /\ Append(m_subjects, x) \in Seq(Id)
      /\ Len(Append(m_subjects, x)) = Len(m_subjects) + 1
      /\ Append(m_subjects, x)[Len(m_subjects) + 1] = x
      /\ Len(m_subjects) \in Nat
  BY AppendProperties, LenProperties
<1>2. Len(m_subjects) + 1 \in DOMAIN Append(m_subjects, x)
  BY <1>1
<1> QED
  BY <1>1, <1>2 DEF Range

\* The values bound at an xFilter have the types TypeOK asks for.
LEMMA BoundValues ==
  ASSUME cons \in Seq(Constraint({SubjectColumn, ObjectColumn}, Comparison)),
         NEW vs \in [DOMAIN cons -> Id \cup {NULL}]
  PROVE  vs \in Seq(Id \cup {NULL})
<1>1. DOMAIN cons = 1..Len(cons) /\ Len(cons) \in Nat
  BY LenProperties
<1> QED
  BY <1>1, SeqDef

-----------------------------------------------------------------------------
(* The inductive invariant.                                                *)

\* A step that neither starts, drops nor examines: what the scan owes and has
\* delivered stays the same, and only a broken channel takes rows away.
LEMMA FrameStep ==
  ASSUME IInv,
         UNCHANGED <<cons, plan, vals, emitted, m_kind, m_subjects>>,
         phase' = phase \/ (Scanning /\ (Scanning' \/ phase' = "done")),
         StreamInv(Row)', Unread' \subseteq Unread,
         rpc' = "broken" \/ Unread' = Unread,
         rpc = "broken" => rpc' = "broken",
         rpc' = "none" => rpc = "none"
  PROVE  IInv'
<1> USE DEF IInv
<1>1. TypeOK'
  BY DEF TypeOK, StreamInv
<1>2. PlanOK'
  BY DEF PlanOK, Usable
<1>3. SubjectsOK'
  BY DEF SubjectsOK, Started, Scanning, Arg
<1>4. Promised' = Promised
  BY DEF Promised, Usable, Column, Holds
<1>5. Answer(m_kind, Range(m_subjects))' = Answer(m_kind, Range(m_subjects))
  BY DEF Answer, Range
<1>6. Accounting'
  BY <1>4, <1>5 DEF Accounting, Started, Scanning
<1> QED
  BY <1>1, <1>2, <1>3, <1>6

\* A step to a phase in which no scan is going on.
LEMMA IdleStep ==
  ASSUME IInv, PlanOK', TypeOK', StreamInv(Row)', m_subjects' = <<>> \/ phase' # "prepared",
         plan'.idxNum = {} => m_subjects' = <<>>,
         phase' \in {"prepared", "opened", "aborted"}
  PROVE  IInv'
<1>1. ~Started'
  BY DEF Started, Scanning
<1>2. SubjectsOK'
  BY <1>1 DEF SubjectsOK
<1>3. Accounting'
  BY <1>1 DEF Accounting
<1> QED
  BY <1>2, <1>3 DEF IInv

\* Before anything is prepared the invariant holds.
LEMMA InitIInv ==
  ASSUME RelationsAssumption, Init
  PROVE  IInv
<1> USE DEF Init, ScanInit
<1>1. wire = <<>> /\ 1..Len(wire) = {} /\ ~AtRow /\ ~MayRead /\ ~AtEnd
  BY EmptySeq DEF AtRow, MayRead, AtEnd
<1>2. ScanTypeOK(Row)
  BY EmptySeq DEF ScanTypeOK, NotSet
<1>3. StreamInv(Row)
  BY <1>1, <1>2 DEF StreamInv, EndOfStream, OnePlace, Unread, OnWire
<1>4. TypeOK
  <2>1. NoPlan \in [idxNum : SUBSET {"SUBJECT"}, argv : Seq(Nat), omit : SUBSET Nat]
    BY EmptySeq DEF NoPlan
  <2> QED
    BY <1>2, <2>1, EmptySeq DEF TypeOK, RelationsAssumption
<1>5. PlanOK
  <2>1. DOMAIN cons = {}
    BY EmptySeq
  <2> QED
    BY <2>1 DEF PlanOK, Usable
<1>6. SubjectsOK /\ Accounting
  BY DEF SubjectsOK, Accounting, Started, Scanning
<1> QED
  BY <1>3, <1>4, <1>5, <1>6 DEF IInv

\* xBestIndex.
LEMMA PrepareIInv ==
  ASSUME RelationsAssumption, IInv, UNCHANGED <<m_kind, m_subjects>>,
         NEW cs \in ConstraintLists, Prepare(cs, BestIndex(cs))
  PROVE  IInv'
<1> USE DEF IInv
<1>1. cons' = cs /\ plan' = BestIndex(cs)
  BY DEF Prepare
<1>2. /\ phase = "unprepared" /\ phase' = "prepared"
      /\ UNCHANGED <<vals, m_eof, streamVars, emitted>>
  BY DEF Prepare
<1>3. /\ PlanOK'
      /\ cons' \in Seq(Constraint({SubjectColumn, ObjectColumn}, Comparison))
      /\ plan' \in [idxNum : SUBSET {"SUBJECT"}, argv : Seq(Nat), omit : SUBSET Nat]
  BY <1>1, BestIndexPlan
<1>4. StreamInv(Row)'
  BY <1>2, OutsideStream
<1>5. TypeOK'
  BY <1>2, <1>3, <1>4 DEF TypeOK, StreamInv
<1>6. m_subjects' = <<>>
  BY <1>2 DEF SubjectsOK
<1> QED
  BY <1>2, <1>3, <1>4, <1>5, <1>6, IdleStep

\* xOpen.
LEMMA OpenIInv ==
  ASSUME IInv, OpenCursor, UNCHANGED <<m_kind, m_subjects>>
  PROVE  IInv'
<1> USE DEF IInv
<1>1. /\ phase' = "opened"
      /\ UNCHANGED <<cons, plan, vals, m_eof, streamVars, emitted>>
  BY DEF OpenCursor
<1>2. StreamInv(Row)'
  BY <1>1, OutsideStream
<1>3. TypeOK' /\ PlanOK'
  BY <1>1, <1>2 DEF TypeOK, StreamInv, PlanOK, Usable
<1> QED
  BY <1>1, <1>2, <1>3, IdleStep DEF SubjectsOK

\* xClose.
LEMMA CloseIInv ==
  ASSUME IInv, Close
  PROVE  IInv'
<1> USE DEF IInv
<1>1. /\ phase' = "prepared" /\ m_subjects' = <<>> /\ vals' = <<>>
      /\ UNCHANGED <<cons, plan, m_kind>>
  BY DEF Close, CloseCursor
<1>2. StreamInv(Row)'
  BY CloseCursorStream DEF Close
<1>3. TypeOK'
  <2>1. m_subjects' \in Seq(Id) /\ vals' \in Seq(Id \cup {NULL}) /\ Len(m_subjects') = 0
    BY <1>1, EmptySeq
  <2>2. Len(m_subjects) \in Nat
    BY LenProperties DEF TypeOK
  <2>3. Len(m_subjects') =< MaxSubjects
    BY <2>1, <2>2, RelationsAssumption DEF RelationsAssumption
  <2> QED
    BY <1>1, <1>2, <2>1, <2>3 DEF TypeOK, StreamInv
<1>4. PlanOK'
  BY <1>1 DEF PlanOK, Usable
<1> QED
  BY <1>1, <1>2, <1>3, <1>4, IdleStep

\* xFilter: the new stream owes a superset of what the scan does, because the
\* present subject is among those the request names.
LEMMA FilterIInv ==
  ASSUME RelationsAssumption, IInv, Filter
  PROVE  IInv'
<1> USE DEF IInv
<1>1. PICK vs \in [DOMAIN cons -> Id \cup {NULL}] :
        /\ plan.idxNum # {} => Arg(vs, 1) # NULL /\ Len(m_subjects) < MaxSubjects
        /\ vals' = vs
        /\ m_subjects' = Subjects(vs)
  BY DEF Filter
<1> DEFINE rows == Answer(m_kind, Range(m_subjects'))
<1>2. /\ StartStream(rows)
      /\ emitted' = {} /\ phase' = "reading"
      /\ UNCHANGED <<cons, plan, m_eof, m_kind>>
  BY DEF Filter
<1>3. rows \in SUBSET Row
  BY DEF Answer, RelationsAssumption, TypeOK
<1>4. StreamInv(Row)' /\ Unread' = rows
  BY <1>2, <1>3, StartStreamStream
<1>5. /\ m_subjects' \in Seq(Id) /\ Len(m_subjects') =< MaxSubjects
      /\ plan.idxNum = {} => m_subjects' = <<>>
      /\ plan.idxNum # {} => Arg(vs, 1) \in Range(m_subjects')
  <2>1. CASE plan.idxNum = {}
    BY <1>1, <2>1 DEF Subjects, SubjectsOK, TypeOK
  <2>2. CASE plan.idxNum # {}
    <3>1. Arg(vs, 1) \in Id
      BY <1>1, <2>2, PlanArgument DEF Arg
    <3>2. m_subjects' = Append(m_subjects, Arg(vs, 1))
      BY <1>1, <2>2 DEF Subjects
    <3>3. m_subjects \in Seq(Id) /\ Len(m_subjects) \in Nat /\ MaxSubjects \in Nat
      BY LenProperties DEF TypeOK, RelationsAssumption
    <3> QED
      BY <1>1, <2>2, <3>1, <3>2, <3>3, SubjectsAppend
  <2> QED
    BY <2>1, <2>2
<1>6. TypeOK'
  <2>1. vals' \in Seq(Id \cup {NULL})
    BY <1>1, BoundValues DEF TypeOK
  <2> QED
    BY <1>2, <1>4, <1>5, <2>1 DEF TypeOK, StreamInv
<1>7. PlanOK'
  BY <1>2 DEF PlanOK, Usable
<1>8. SubjectsOK'
  BY <1>1, <1>2, <1>5 DEF SubjectsOK, Arg
<1>9. Accounting'
  <2>1. rpc' = "streaming"
    BY <1>2 DEF StartStream
  <2>2. Promised' \subseteq rows
    <3>1. CASE plan.idxNum = {}
      BY <1>2, <3>1, PlanArgument DEF Promised, Usable
    <3>2. CASE plan.idxNum # {}
      <4> DEFINE k == plan.argv[1]
      <4>1. k \in DOMAIN cons /\ cons[k].iColumn = SubjectColumn /\ cons[k].op = "EQ"
        BY <3>2, PlanArgument
      <4>2. ASSUME NEW row \in Promised' PROVE row \in rows
        <5>1. /\ row \in Relations[m_kind]
              /\ \A i \in DOMAIN cons : Holds(cons[i].op, Column(row, cons[i].iColumn), vs[i])
          BY <1>1, <1>2, <4>2 DEF Promised
        <5>2. Holds("EQ", Column(row, SubjectColumn), vs[k])
          BY <4>1, <5>1
        <5>3. row[1] = Arg(vs, 1)
          BY <5>2 DEF Holds, Column, Arg
        <5> QED
          BY <1>5, <3>2, <5>1, <5>3 DEF Answer
      <4> QED
        BY <4>2
    <3> QED
      BY <3>1, <3>2
  <2> QED
    BY <1>2, <1>4, <2>1, <2>2 DEF Accounting
<1> QED
  BY <1>4, <1>6, <1>7, <1>8, <1>9

\* xFilter with a NULL argument ends the process.
LEMMA FilterNullIInv ==
  ASSUME IInv, FilterNull
  PROVE  IInv'
<1> USE DEF IInv
<1>1. PICK vs \in [DOMAIN cons -> Id \cup {NULL}] : vals' = vs
  BY DEF FilterNull
<1>2. /\ phase' = "aborted"
      /\ UNCHANGED <<cons, plan, m_eof, streamVars, emitted, m_kind, m_subjects>>
  BY DEF FilterNull
<1>3. StreamInv(Row)'
  BY <1>2, OutsideStream
<1>4. TypeOK'
  <2>1. vals' \in Seq(Id \cup {NULL})
    BY <1>1, BoundValues DEF TypeOK
  <2> QED
    BY <1>2, <1>3, <2>1 DEF TypeOK, StreamInv
<1>5. PlanOK'
  BY <1>2 DEF PlanOK, Usable
<1> QED
  BY <1>2, <1>3, <1>4, <1>5, IdleStep DEF SubjectsOK

\* xEof, xColumn and SQLite's test: a row is accepted exactly if the scan owes it.
LEMMA ExamineIInv ==
  ASSUME IInv, Examine(Passes), UNCHANGED <<m_kind, m_subjects>>
  PROVE  IInv'
<1> USE DEF IInv
<1> DEFINE row == m_reply.row
           passes == \A i \in DOMAIN cons :
                       Holds(cons[i].op, Column(row, cons[i].iColumn), vals[i])
<1>1. /\ AtRow /\ Started /\ Started' /\ phase' = "examined"
      /\ UNCHANGED <<cons, plan, vals, m_eof, streamVars>>
  BY DEF Examine, AtRow, Started, Scanning
<1>2. emitted' = IF passes THEN emitted \cup {row} ELSE emitted
  BY PlanArgument DEF Examine, Passes
<1>3. row \in Unread
  BY <1>1 DEF Unread
<1> HIDE DEF passes
<1>4. StreamInv(Row)' /\ Unread' = Unread \ {row}
  BY <1>1, <1>2, ExamineStream
<1>5. TypeOK'
  BY <1>1, <1>4 DEF TypeOK, StreamInv
<1>6. PlanOK'
  BY <1>1 DEF PlanOK, Usable
<1>7. SubjectsOK'
  BY <1>1 DEF SubjectsOK, Arg
<1>8. Promised' = Promised
  BY <1>1 DEF Promised, Usable, Column, Holds
<1>9. row \in Answer(m_kind, Range(m_subjects))
  BY <1>1, <1>3 DEF Accounting
<1>10. Usable(cons, {SubjectColumn}, {"EQ"}) # {}
  <2>1. SUFFICES ASSUME plan.idxNum = {} PROVE FALSE
    BY PlanArgument
  <2>2. Range(m_subjects) = {}
    BY <2>1, EmptySeq DEF SubjectsOK, Range
  <2> QED
    BY <1>9, <2>2 DEF Answer
<1>11. row \in Promised <=> passes
  BY <1>9, <1>10 DEF Promised, Answer, passes
<1>12. Answer(m_kind, Range(m_subjects))' = Answer(m_kind, Range(m_subjects))
  BY DEF Answer, Range
<1>13. rpc' = rpc
  BY <1>1 DEF streamVars
<1>14. Accounting'
  BY <1>1, <1>2, <1>4, <1>8, <1>11, <1>12, <1>13 DEF Accounting
<1> QED
  BY <1>4, <1>5, <1>6, <1>7, <1>14

\* The steps that only move rows along.
LEMMA StreamIInv ==
  ASSUME IInv, UNCHANGED <<m_kind, m_subjects>>,
         SeeEof \/ CallNext \/ ReadReply \/ ServerSend \/ ServerFinish \/ ChannelBreak
  PROVE  IInv'
<1>1. StreamInv(Row)
  BY DEF IInv
<1>2. CASE SeeEof
  BY <1>1, <1>2, SeeEofStream, FrameStep DEF SeeEof, streamVars, Scanning
<1>3. CASE CallNext
  BY <1>1, <1>3, CallNextStream, FrameStep DEF CallNext, streamVars, Scanning
<1>4. CASE ReadReply
  BY <1>1, <1>4, ReadReplyStream, FrameStep DEF ReadReply, Scanning
<1>5. CASE ServerSend
  BY <1>1, <1>5, ServerSendStream, FrameStep DEF ServerSend
<1>6. CASE ServerFinish
  BY <1>1, <1>6, ServerFinishStream, FrameStep DEF ServerFinish
<1>7. CASE ChannelBreak
  BY <1>1, <1>7, ChannelBreakStream, FrameStep DEF ChannelBreak
<1> QED
  BY <1>2, <1>3, <1>4, <1>5, <1>6, <1>7

\* A step that changes nothing.
LEMMA StutterIInv ==
  ASSUME IInv, UNCHANGED vars
  PROVE  IInv'
<1> USE DEF vars, scanVars
<1>1. StreamInv(Row)' /\ Unread' = Unread
  BY DEF IInv, StreamInv, ScanTypeOK, EndOfStream, OnePlace, Unread, OnWire,
         MayRead, AtEnd, AtRow
<1> QED
  BY <1>1, FrameStep

\* Every step preserves the invariant.
LEMMA NextIInv ==
  ASSUME RelationsAssumption, IInv, [Next]_vars
  PROVE  IInv'
<1>1. CASE Client
  BY <1>1, PrepareIInv, OpenIInv, StreamIInv, ExamineIInv, FilterIInv, FilterNullIInv,
     CloseIInv DEF Client
<1>2. CASE Server
  BY <1>2, StreamIInv DEF Server
<1>3. CASE Aborted \/ UNCHANGED vars
  BY <1>3, StutterIInv DEF Aborted
<1> QED
  BY <1>1, <1>2, <1>3 DEF Next

\* The inductive invariant holds in every reachable state.
THEOREM Inductive == Spec => []IInv
<1>1. Init => IInv
  BY InitIInv, RelationsAssumption
<1>2. IInv /\ [Next]_vars => IInv'
  BY NextIInv, RelationsAssumption
<1> QED
  BY <1>1, <1>2, PTL DEF Spec

-----------------------------------------------------------------------------
(* What follows from it.                                                   *)

\* Type correctness: no NULL ever gets among the subjects, and no reply is
\* taken for a row that is none.
THEOREM TypeCorrect == Spec => []TypeOK
<1>1. IInv => TypeOK
  BY DEF IInv
<1> QED
  BY <1>1, Inductive, PTL

\* SQLite accepts only rows that satisfy the WHERE clause, whatever the server
\* and the channel do and whatever the cursor was filtered by before.
THEOREM Sound == Spec => []ScanSound
<1>1. IInv => ScanSound
  BY DEF IInv, Accounting, ScanSound
<1> QED
  BY <1>1, Inductive, PTL

\* At the end of a complete answer the scan has delivered exactly what it owes.
LEMMA EndedScan ==
  ASSUME IInv, AtEnd, ServerComplete
  PROVE  emitted = Promised
<1>1. Unread = {}
  BY EndedStream DEF IInv
<1>2. rpc # "broken" /\ Started
  BY DEF ServerComplete, AtEnd, Started, Scanning
<1> QED
  BY <1>1, <1>2 DEF IInv, Accounting

\* A scan that runs to the end of a complete answer misses no row.
THEOREM Complete == Spec => []ScanComplete
<1>1. IInv => ScanComplete
  BY EndedScan DEF ScanComplete, AtEnd
<1> QED
  BY <1>1, Inductive, PTL

\* The row under the cursor belongs to the request in force and is new.
THEOREM Fresh == Spec => []CurrentRowIsFresh
<1>1. IInv => CurrentRowIsFresh
  <2> SUFFICES ASSUME IInv, AtRow
               PROVE  /\ IsRow(m_reply)
                      /\ m_reply.row \in Answer(m_kind, Range(m_subjects))
                      /\ m_reply.row \notin emitted
    BY DEF CurrentRowIsFresh, AtRow
  <2>1. Started /\ m_reply.row \in Unread
    BY DEF AtRow, Started, Scanning, Unread
  <2> QED
    BY <2>1 DEF IInv, Accounting, StreamInv, OnePlace
<1> QED
  BY <1>1, Inductive, PTL

-----------------------------------------------------------------------------
(* RelationsTable implements TableScan.                                    *)

\* What is owed is part of the index.
LEMMA PromisedRows ==
  ASSUME RelationsAssumption, (m_kind \in RelationKind)'
  PROVE  (Promised \in SUBSET Row)'
BY DEF Promised, RelationsAssumption

\* As long as the scan and its values are the same, so is what it owes.
LEMMA SamePromise ==
  ASSUME UNCHANGED <<cons, vals, m_kind>>
  PROVE  Promised' = Promised
BY DEF Promised, Usable, Column, Holds

\* Every step of the table is a step of the abstract scan, or changes nothing
\* in it.
LEMMA StepRefines ==
  ASSUME RelationsAssumption, IInv, IInv', [Next]_vars
  PROVE  [Scan!Next]_(Scan!vars)
<1> DEFINE state == ScanState(ServerComplete)
           want == IF Started THEN Promised ELSE {}
           got == IF Started THEN emitted ELSE {}
<1>a. [Scan!Next]_(Scan!vars) <=>
        \/ state' = "scanning" /\ want' \in SUBSET Row /\ got' = {}
        \/ /\ state = "scanning" /\ \E row \in want \ got : got' = got \cup {row}
           /\ state' = state /\ want' = want
        \/ state = "scanning" /\ got = want /\ state' = "ended" /\ want' = want /\ got' = got
        \/ state = "scanning" /\ state' = "failed" /\ want' = want /\ got' = got
        \/ state' = "idle" /\ want' = {} /\ got' = {}
        \/ state' = state /\ want' = want /\ got' = got
  BY DEF Scan!Next, Scan!vars, Scan!Begin, Scan!Deliver, Scan!End, Scan!Fail, Scan!Drop
<1>b. ASSUME ~Started' PROVE state' = "idle" /\ want' = {} /\ got' = {}
  BY <1>b DEF Started, ScanState
<1>c. ASSUME Scanning, Scanning', UNCHANGED <<cons, vals, m_kind>>
      PROVE  /\ state = "scanning" /\ state' = "scanning" /\ want' = want
             /\ want = Promised /\ got = emitted /\ got' = emitted'
  BY <1>c, SamePromise DEF Started, ScanState
<1> HIDE DEF state, want, got
<1>1. CASE ~Started'
  BY <1>1, <1>a, <1>b
<1>2. CASE Filter
  <2>1. Started' /\ Scanning' /\ emitted' = {}
    BY <1>2 DEF Filter, Started, Scanning
  <2>2. state' = "scanning" /\ want' = Promised' /\ got' = {}
    BY <2>1 DEF state, want, got, ScanState
  <2>3. Promised' \in SUBSET Row
    BY PromisedRows DEF IInv, TypeOK
  <2> QED
    BY <1>a, <2>2, <2>3
<1>3. CASE SeeEof /\ UNCHANGED <<m_kind, m_subjects>>
  <2>1. /\ Scanning /\ Started /\ Started' /\ phase' = "done" /\ ~Scanning' /\ AtEnd
        /\ UNCHANGED <<cons, vals, m_kind, rpc, pending, emitted>>
    BY <1>3 DEF SeeEof, Scanning, Started, AtEnd, streamVars
  <2>2. Promised' = Promised
    BY <2>1, SamePromise
  <2>3. state = "scanning" /\ want' = want /\ got' = got /\ want = Promised /\ got = emitted
    BY <2>1, <2>2 DEF state, want, got, ScanState
  <2>4. CASE ServerComplete'
    <3>1. emitted = Promised
      BY <2>1, <2>4, EndedScan DEF ServerComplete
    <3>2. state' = "ended"
      BY <2>1, <2>4 DEF state, ScanState
    <3> QED
      BY <1>a, <2>3, <3>1, <3>2
  <2>5. CASE ~ServerComplete'
    <3>1. state' = "failed"
      BY <2>1, <2>5 DEF state, ScanState
    <3> QED
      BY <1>a, <2>3, <3>1
  <2> QED
    BY <2>4, <2>5
<1>4. CASE Examine(Passes) /\ UNCHANGED <<m_kind, m_subjects>>
  <2>1. /\ AtRow /\ Scanning /\ Scanning' /\ Started /\ Started'
        /\ emitted' \in {emitted, emitted \cup {m_reply.row}}
        /\ UNCHANGED <<cons, vals, m_kind>>
    BY <1>4 DEF Examine, AtRow, Scanning, Started
  <2>2. /\ state = "scanning" /\ state' = "scanning" /\ want' = want
        /\ want = Promised /\ got = emitted /\ got' = emitted'
    BY <1>c, <2>1
  <2>3. m_reply.row \notin emitted
    BY <2>1 DEF IInv, StreamInv, OnePlace, Unread
  <2>4. emitted' \subseteq Promised
    BY <2>1, SamePromise DEF IInv, Accounting
  <2> QED
    BY <1>a, <2>1, <2>2, <2>3, <2>4
<1>5. CASE (CallNext \/ ReadReply) /\ UNCHANGED <<m_kind, m_subjects>>
  <2>1. Scanning /\ Scanning' /\ UNCHANGED <<cons, vals, m_kind, emitted>>
    BY <1>5 DEF CallNext, ReadReply, Scanning
  <2> QED
    BY <1>a, <1>c, <2>1
<1>6. CASE Server /\ Started'
  <2>1. UNCHANGED <<phase, cons, vals, m_kind, m_eof, emitted>>
    BY <1>6 DEF Server, ServerSend, ServerFinish, ChannelBreak
  <2>2. rpc = "streaming" \/ wire # <<>>
    BY <1>6 DEF Server, ServerSend, ServerFinish, ChannelBreak
  <2>3. phase # "done"
    BY <2>2 DEF IInv, StreamInv, EndOfStream, AtEnd
  <2>4. Scanning /\ Scanning'
    BY <1>6, <2>1, <2>3 DEF Started, Scanning
  <2> QED
    BY <1>a, <1>c, <2>1, <2>4
<1>7. CASE UNCHANGED vars
  <2>1. state' = state /\ want' = want /\ got' = got
    BY <1>7, SamePromise
    DEF vars, scanVars, state, want, got, ScanState, ServerComplete, Started, Scanning
  <2> QED
    BY <1>a, <2>1
<1> QED
  <2>1. /\ OpenCursor \/ FilterNull \/ Close => ~Started'
        /\ \A cs \in ConstraintLists : Prepare(cs, BestIndex(cs)) => ~Started'
    BY DEF Prepare, OpenCursor, FilterNull, Close, CloseCursor, Started, Scanning
  <2> QED
    BY <1>1, <1>2, <1>3, <1>4, <1>5, <1>6, <1>7, <2>1 DEF Next, Client, Aborted

\* The cursor implements the scan a virtual table promises SQLite.
THEOREM Refines == Spec => ImplementsTableScan
<1>1. Init => Scan!Init
  BY DEF Init, ScanInit, Scan!Init, ScanState, Started, Scanning
<1>2. IInv /\ IInv' /\ [Next]_vars => [Scan!Next]_(Scan!vars)
  BY StepRefines, RelationsAssumption
<1> QED
  BY <1>1, <1>2, Inductive, PTL DEF Spec, ImplementsTableScan, Scan!Spec

-----------------------------------------------------------------------------
(* No scan goes round in circles.  An index is finite; nothing else needs it. *)

\* What the server has still to send in a scan is finite.
LEMMA PendingFinite ==
  ASSUME \A kind \in RelationKind : IsFiniteSet(Relations[kind]), IInv, Scanning
  PROVE  IsFiniteSet(pending)
<1>1. pending \subseteq Relations[m_kind]
  BY DEF IInv, Accounting, Started, Unread, Answer
<1>2. IsFiniteSet(Relations[m_kind])
  BY DEF IInv, TypeOK
<1> QED
  BY <1>1, <1>2, FS_Subset

\* Each step of a scan leaves less of it to do, or starts a new stream.
LEMMA StepGetsOn ==
  ASSUME \A kind \in RelationKind : IsFiniteSet(Relations[kind]), IInv, IInv', Scanning, Next
  PROVE  Work' < Work \/ StartStream(pending')
<1>1. IsFiniteSet(pending)
  BY PendingFinite
<1>2. StreamInv(Row) /\ StreamInv(Row)' /\ ScanTypeOK(Row)
  BY DEF IInv, StreamInv
<1>3. CASE Server
  BY <1>1, <1>2, <1>3, ServerWork DEF Server
<1>4. CASE ReadReply
  BY <1>1, <1>2, <1>4, ReadWork
<1>5. CASE SeeEof \/ Examine(Passes) \/ CallNext \/ FilterNull
  <2>1. UNCHANGED streamVars /\ UNCHANGED m_eof
    BY <1>5 DEF SeeEof, Examine, CallNext, FilterNull
  <2>2. \/ phase = "positioned" /\ ~m_eof /\ phase' = "examined"
        \/ phase = "positioned" /\ m_eof /\ phase' = "done"
        \/ phase = "examined" /\ phase' = "reading"
        \/ Scanning /\ phase # "reading" /\ phase' = "aborted"
    BY <1>5 DEF SeeEof, Examine, CallNext, FilterNull, Idle
  <2> QED
    BY <1>1, <1>2, <2>1, <2>2, ClientWork
<1>6. CASE Close
  BY <1>1, <1>2, <1>6, CloseWork DEF Close
<1>7. CASE Filter
  BY <1>7 DEF Filter, StartStream
<1>8. /\ ~Aborted /\ ~OpenCursor
      /\ \A cs \in ConstraintLists : ~Prepare(cs, BestIndex(cs))
  BY DEF Aborted, OpenCursor, Prepare, Scanning
<1> QED
  BY <1>3, <1>4, <1>5, <1>6, <1>7, <1>8 DEF Next, Client

\* A scan of base_of or overridden_by has a last step, whatever the server, the channel
\* and SQLite do, and in whatever order.
THEOREM GetsOn ==
  ASSUME \A kind \in RelationKind : IsFiniteSet(Relations[kind])
  PROVE  Spec => ScanGetsOn
<1>1. IInv /\ IInv' /\ [Next]_vars => [Scanning => Work' < Work \/ StartStream(pending')]_vars
  BY StepGetsOn
<1> QED
  BY <1>1, Inductive, PTL DEF Spec, ScanGetsOn
=============================================================================
