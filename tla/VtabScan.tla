------------------------------ MODULE VtabScan ------------------------------
(***************************************************************************)
(* What the three virtual tables of ClangQL have in common: one cursor,    *)
(* the sequence of calls SQLite makes on it, the gRPC stream it reads from *)
(* and the clangd server at the other end.                                 *)
(*                                                                         *)
(* SQLite prepares a statement (xBestIndex), opens a cursor, and then, as  *)
(* often as its nested loops require, calls xFilter with the values bound  *)
(* at that moment and walks the rows with xEof, xColumn and xNext.  xFilter *)
(* and xNext block in ClientReader::Read until the server has sent a       *)
(* message or the call has ended, so each is a pair of steps here: the one  *)
(* that makes the call (phase "reading") and ReadReply, which returns.      *)
(* Between the two the server and the channel take steps of their own.     *)
(*                                                                         *)
(* A table module EXTENDS this one and supplies its BestIndex, its Filter  *)
(* and the value of its columns.                                           *)
(***************************************************************************)
EXTENDS Naturals, Sequences, FiniteSetsExt, Functions

CONSTANTS
  NULL,             \* the SQL NULL
  ConstraintLists   \* the WHERE clauses SQLite may present to xBestIndex

VARIABLES
  phase,     \* where SQLite is in its use of the cursor
  cons,      \* sqlite3_index_info.aConstraint
  plan,      \* what xBestIndex answered: idxNum, argvIndex and omit
  vals,      \* right-hand side of every constraint at the last xFilter
  m_eof,     \* the cursor's end-of-file flag
  rpc,       \* the call behind m_stream, as the channel sees it
  pending,   \* rows of the answer the server has not sent yet
  wire,      \* messages that have arrived and are not read yet
  m_reply,   \* the stream's last parsed message
  emitted    \* rows SQLite has accepted since the last xFilter

scanVars == <<phase, cons, plan, vals, m_eof, rpc, pending, wire, m_reply,
              emitted>>
streamVars == <<rpc, pending, wire, m_reply>>

-----------------------------------------------------------------------------
(* Messages: the `kind` oneof of every reply of Index.proto.               *)

StreamResult(row) == [kind |-> "stream_result", row |-> row]
FinalResult(more) == [kind |-> "final_result", has_more |-> more]
NotSet == [kind |-> "not_set"]    \* a reply nothing has been parsed into

Message(Rows) == [kind : {"stream_result"}, row : Rows]
                   \cup [kind : {"final_result"}, has_more : BOOLEAN]

IsRow(msg) == msg.kind = "stream_result"

-----------------------------------------------------------------------------
(* Constraints and plans.  A constraint is a column, an operator and the   *)
(* usable flag.  A plan holds idxNum as the set of its flags, argv as the  *)
(* sequence of constraint indices in argvIndex order, and the set of       *)
(* constraints marked omit.  NE stands for every operator that no table    *)
(* treats specially.                                                       *)

Constraint(Columns, Ops) == [iColumn : Columns, op : Ops, usable : BOOLEAN]

NoPlan == [idxNum |-> {}, argv |-> <<>>, omit |-> {}]

\* The indices of the usable constraints on a column with one of the operators.
Usable(cs, columns, ops) ==
  {i \in DOMAIN cs : cs[i].usable /\ cs[i].iColumn \in columns /\ cs[i].op \in ops}

\* How many arguments xFilter takes for a flag.
Given(flag) == IF flag \in plan.idxNum THEN 1 ELSE 0

\* The value xFilter finds in argv[k - 1].
Arg(vs, k) == vs[plan.argv[k]]

\* SQLite's comparisons: NULL on either side satisfies nothing.
Comparison == {"EQ", "NE"}
Holds(op, left, right) ==
  /\ left # NULL /\ right # NULL
  /\ op = "EQ" => left = right
  /\ op = "NE" => left # right

-----------------------------------------------------------------------------
(* SQLite's calls.                                                         *)

ScanInit ==
  /\ phase = "unprepared"
  /\ cons = <<>> /\ plan = NoPlan /\ vals = <<>>
  /\ m_eof = FALSE
  /\ rpc = "none" /\ pending = {} /\ wire = <<>> /\ m_reply = NotSet
  /\ emitted = {}

\* sqlite3_prepare: the WHERE clause goes through xBestIndex, which answers with
\* a plan.
Prepare(cs, answer) ==
  /\ phase = "unprepared"
  /\ cons' = cs /\ plan' = answer
  /\ phase' = "prepared"
  /\ UNCHANGED <<vals, m_eof, streamVars, emitted>>

\* xOpen allocates a cursor, with m_eof = false and no stream.
OpenCursor ==
  /\ phase = "prepared"
  /\ phase' = "opened"
  /\ UNCHANGED <<cons, plan, vals, m_eof, streamVars, emitted>>

\* The phases in which SQLite has the cursor open and is not inside a call.
Idle == phase \in {"opened", "positioned", "examined", "done"}

\* xClose deletes the cursor, and with it the stream: the call is cancelled.
CloseCursor ==
  /\ Idle
  /\ phase' = "prepared"
  /\ vals' = <<>> /\ m_eof' = FALSE
  /\ rpc' = "none" /\ pending' = {} /\ wire' = <<>> /\ m_reply' = NotSet
  /\ emitted' = {}
  /\ UNCHANGED <<cons, plan>>

\* xEof at the end of the scan: the loop over this cursor is over.
SeeEof ==
  /\ phase = "positioned" /\ m_eof
  /\ phase' = "done"
  /\ UNCHANGED <<cons, plan, vals, m_eof, streamVars, emitted>>

\* xEof says there is a row; SQLite reads it with xColumn, tests every
\* constraint that is not marked omit, and accepts the row if it passes.
Examine(passes) ==
  /\ phase = "positioned" /\ ~m_eof
  /\ phase' = "examined"
  /\ emitted' = IF passes THEN emitted \cup {m_reply.row} ELSE emitted
  /\ UNCHANGED <<cons, plan, vals, m_eof, streamVars>>

\* A mistake in xNext: the stream is not advanced.
CallNextWithoutRead ==
  /\ phase = "examined"
  /\ phase' = "positioned"
  /\ UNCHANGED <<cons, plan, vals, m_eof, streamVars, emitted>>

\* xNext: enter the stream's Next(), that is ClientReader::Read.
CallNext ==
  /\ phase = "examined"
  /\ phase' = "reading"
  /\ UNCHANGED <<cons, plan, vals, m_eof, streamVars, emitted>>

-----------------------------------------------------------------------------
(* The stream.                                                             *)

\* A mistake in xFilter: what the old call has in flight is read as part of the
\* new answer.
StartStreamOnOldWire(rows) ==
  rpc' = "streaming" /\ pending' = rows /\ wire' = wire /\ m_reply' = NotSet

\* The constructor of a stream: a new call is started for an answer of the
\* given rows.  The stream it replaces is deleted, so nothing the old call
\* still has in flight can be read.
StartStream(rows) ==
  /\ rpc' = "streaming"
  /\ pending' = rows
  /\ wire' = <<>>
  /\ m_reply' = NotSet

\* A mistake in Next(): when Read fails, the call is made again for the rows that
\* are missing, and Read tried again.
ReadReplyRetrying ==
  /\ phase = "reading"
  /\ \/ /\ wire # <<>>
        /\ m_reply' = Head(wire) /\ wire' = Tail(wire)
        /\ m_eof' = ~IsRow(m_reply')
        /\ phase' = "positioned"
        /\ UNCHANGED rpc
     \/ /\ wire = <<>> /\ rpc \in {"finished", "broken"}
        /\ rpc' = "streaming"
        /\ UNCHANGED <<m_reply, wire, m_eof, phase>>
  /\ UNCHANGED <<cons, plan, vals, pending, emitted>>

\* Next(): Read(&m_reply) && m_reply.has_stream_result(), stored negated in
\* m_eof.  Read fails once the call has ended and nothing is left to read;
\* nobody asks the call for its status.
ReadReply ==
  /\ phase = "reading"
  /\ \/ /\ wire # <<>>
        /\ m_reply' = Head(wire) /\ wire' = Tail(wire)
        /\ m_eof' = ~IsRow(m_reply')
     \/ /\ wire = <<>> /\ rpc \in {"finished", "broken"}
        /\ m_eof' = TRUE
        /\ UNCHANGED <<m_reply, wire>>
  /\ phase' = "positioned"
  /\ UNCHANGED <<cons, plan, vals, rpc, pending, emitted>>

-----------------------------------------------------------------------------
(* The server and the channel.  The server sends each row of the answer at *)
(* most once, in an order of its choosing, and ends with a FinalResult; it *)
(* may end early, with has_more set (Index.proto).  The channel keeps      *)
(* messages in order; when it breaks, a suffix of them is lost.            *)

ServerSend ==
  /\ rpc = "streaming"
  /\ \E row \in pending : /\ pending' = pending \ {row}
                          /\ wire' = Append(wire, StreamResult(row))
  /\ UNCHANGED <<phase, cons, plan, vals, m_eof, rpc, m_reply, emitted>>

ServerFinish ==
  /\ rpc = "streaming"
  /\ wire' = Append(wire, FinalResult(pending # {}))
  /\ rpc' = "finished"
  /\ UNCHANGED <<phase, cons, plan, vals, m_eof, pending, m_reply, emitted>>

ChannelBreak ==
  /\ rpc = "streaming" \/ (rpc = "finished" /\ wire # <<>>)
  /\ rpc' = "broken"
  /\ \E k \in 0..Len(wire) : wire' = SubSeq(wire, 1, k)
  /\ UNCHANGED <<phase, cons, plan, vals, m_eof, pending, m_reply, emitted>>

\* The server got to the end of its answer, or was asked nothing at all.
ServerComplete == rpc \in {"none", "finished"} /\ pending = {}

Scanning == phase \in {"reading", "positioned", "examined"}
Started == Scanning \/ phase = "done"

\* The scan as TableScan sees it, given what makes a finished one complete.
ScanState(complete) ==
  IF Scanning THEN "scanning"
  ELSE IF phase # "done" THEN "idle"
  ELSE IF complete THEN "ended" ELSE "failed"

-----------------------------------------------------------------------------
(* Invariants of the stream that hold whatever the table.                  *)

\* There is a row under the cursor that SQLite has not looked at.
AtRow == phase = "positioned" /\ ~m_eof

\* The stream may be read again; it has said there is nothing more.
MayRead == phase \in {"reading", "examined"} \/ AtRow
AtEnd == phase = "done" \/ (phase = "positioned" /\ m_eof)

ScanTypeOK(Rows) ==
  /\ phase \in {"unprepared", "prepared", "opened", "reading", "positioned",
                "examined", "done", "aborted"}
  /\ m_eof \in BOOLEAN
  /\ rpc \in {"none", "streaming", "finished", "broken"}
  /\ pending \subseteq Rows
  /\ wire \in Seq(Message(Rows))
  /\ m_reply \in Message(Rows) \cup {NotSet}
  /\ emitted \subseteq Rows

\* Rows that have arrived, and rows this scan can still come to.
OnWire == {wire[i].row : i \in {j \in 1..Len(wire) : IsRow(wire[j])}}
Unread == pending \cup OnWire \cup (IF AtRow THEN {m_reply.row} ELSE {})

\* A FinalResult is the last message, and it is still to be read as long as
\* the stream may be read, unless the channel broke.
EndOfStream ==
  /\ \A i \in 1..Len(wire) : ~IsRow(wire[i]) => i = Len(wire) /\ rpc # "streaming"
  /\ rpc = "none" => pending = {} /\ wire = <<>> /\ ~MayRead
  /\ MayRead /\ rpc = "finished" => wire # <<>> /\ ~IsRow(wire[Len(wire)])
  /\ AtEnd => rpc # "streaming" /\ wire = <<>>

\* A row is in one place: with the server, on the wire once, under the cursor,
\* or among those SQLite has accepted.
OnePlace ==
  /\ pending \cap OnWire = {}
  /\ \A i, j \in 1..Len(wire) : IsRow(wire[i]) /\ wire[j] = wire[i] => i = j
  /\ AtRow => IsRow(m_reply) /\ m_reply.row \notin pending \cup OnWire
  /\ emitted \cap Unread = {}

StreamInv(Rows) == ScanTypeOK(Rows) /\ EndOfStream /\ OnePlace

-----------------------------------------------------------------------------
(* How much a scan has still ahead of it: a row is sent, read, examined    *)
(* and left for the next one.                                              *)

CallWork == CASE rpc = "streaming" -> 5
              [] rpc = "finished" -> 1
              [] rpc \in {"none", "broken"} -> 0

CursorWork == CASE AtRow -> 4
                [] phase = "examined" -> 3
                [] phase = "reading" -> 2
                [] phase = "positioned" /\ m_eof -> 1
                [] ~Scanning -> 0

Work == 4 * Cardinality(pending) + 3 * Len(wire) + CallWork + CursorWork
=============================================================================
