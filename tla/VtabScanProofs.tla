--------------------------- MODULE VtabScanProofs ---------------------------
(***************************************************************************)
(* What every step of VtabScan does to the stream invariant and to the set *)
(* of rows a scan can still come to.  The proofs about the tables rest on  *)
(* these lemmas and look at neither the wire nor the messages.             *)
(***************************************************************************)
EXTENDS VtabScan, SequenceTheorems, FiniteSetTheorems, WellFoundedInduction, TLAPS

-----------------------------------------------------------------------------
(* Plans.                                                                  *)

\* BestIndex's loops find the first constraint that will do, if there is one.
LEMMA MinOfIndices ==
  ASSUME NEW S \in SUBSET Nat, S # {}
  PROVE  Min(S) \in S
<1>1. PICK x \in S : \A y \in S : <<y, x>> \notin OpToRel(<, Nat)
  BY WFMin, NatLessThanWellFounded
<1>2. ASSUME NEW y \in S PROVE x =< y
  <2>1. OpToRel(<, Nat) = {ss \in Nat \X Nat : ss[1] < ss[2]}
    BY DEF OpToRel
  <2>2. <<y, x>> \notin {ss \in Nat \X Nat : ss[1] < ss[2]}
    BY <1>1, <2>1
  <2>3. ~(y < x)
    BY <2>2
  <2> QED
    BY <2>3
<1> QED
  BY <1>2 DEF Min

\* A usable constraint is one of the WHERE clause, and its index is a number.
LEMMA UsableIndices ==
  ASSUME NEW C, NEW cs \in Seq(C), NEW columns, NEW ops
  PROVE  /\ Usable(cs, columns, ops) \subseteq DOMAIN cs
         /\ Usable(cs, columns, ops) \in SUBSET Nat
<1>1. DOMAIN cs = 1..Len(cs) /\ Len(cs) \in Nat
  BY LenProperties
<1> QED
  BY <1>1 DEF Usable

-----------------------------------------------------------------------------
(* The wire.                                                               *)

\* A message put on the wire joins those that are there.
LEMMA WireAppend ==
  ASSUME NEW Rows, wire \in Seq(Message(Rows)), NEW msg \in Message(Rows),
         wire' = Append(wire, msg)
  PROVE  /\ wire' \in Seq(Message(Rows))
         /\ wire' # <<>>
         /\ Len(wire) \in Nat /\ Len(wire') = Len(wire) + 1
         /\ \A i \in 1..Len(wire) : wire'[i] = wire[i]
         /\ wire'[Len(wire) + 1] = msg
         /\ OnWire' = OnWire \cup (IF IsRow(msg) THEN {msg.row} ELSE {})
<1>1. /\ wire' \in Seq(Message(Rows)) /\ wire' # <<>>
      /\ Len(wire) \in Nat /\ Len(wire') = Len(wire) + 1
      /\ \A i \in 1..Len(wire) : wire'[i] = wire[i]
      /\ wire'[Len(wire) + 1] = msg
  BY AppendProperties, LenProperties
<1>2. OnWire' = OnWire \cup (IF IsRow(msg) THEN {msg.row} ELSE {})
  BY <1>1 DEF OnWire, IsRow
<1> QED
  BY <1>1, <1>2

\* Reading takes the first message off the wire.
LEMMA WireTail ==
  ASSUME NEW Rows, wire \in Seq(Message(Rows)), wire # <<>>, wire' = Tail(wire)
  PROVE  /\ wire' \in Seq(Message(Rows))
         /\ Head(wire) \in Message(Rows) /\ Head(wire) = wire[1]
         /\ Len(wire) \in Nat \ {0} /\ Len(wire') = Len(wire) - 1
         /\ \A i \in 1..Len(wire') : wire'[i] = wire[i + 1]
         /\ OnWire = OnWire' \cup (IF IsRow(Head(wire)) THEN {Head(wire).row} ELSE {})
<1>1. /\ wire' \in Seq(Message(Rows))
      /\ Head(wire) \in Message(Rows) /\ Head(wire) = wire[1]
      /\ Len(wire) \in Nat \ {0} /\ Len(wire') = Len(wire) - 1
      /\ \A i \in 1..Len(wire') : wire'[i] = wire[i + 1]
  BY HeadTailProperties, EmptySeq
<1>2. \A i \in 1..Len(wire) : i = 1 \/ i - 1 \in 1..Len(wire')
  BY <1>1
<1>3. \A i \in 1..Len(wire) : i # 1 => wire[i] = wire'[i - 1]
  BY <1>1, <1>2
<1>4. OnWire \subseteq OnWire' \cup (IF IsRow(Head(wire)) THEN {Head(wire).row} ELSE {})
  BY <1>1, <1>2, <1>3 DEF OnWire
<1>5. OnWire' \subseteq OnWire
  <2>1. \A i \in 1..Len(wire') : i + 1 \in 1..Len(wire)
    BY <1>1
  <2> QED
    BY <1>1, <2>1 DEF OnWire
<1>6. IsRow(Head(wire)) => Head(wire).row \in OnWire
  BY <1>1 DEF OnWire
<1> QED
  BY <1>1, <1>4, <1>5, <1>6

\* What is left of the wire when the channel breaks was on it before.
LEMMA WirePrefix ==
  ASSUME NEW Rows, wire \in Seq(Message(Rows)), NEW k \in 0..Len(wire),
         wire' = SubSeq(wire, 1, k)
  PROVE  /\ wire' \in Seq(Message(Rows))
         /\ Len(wire) \in Nat /\ Len(wire') = k
         /\ \A i \in 1..k : i \in 1..Len(wire) /\ wire'[i] = wire[i]
         /\ OnWire' \subseteq OnWire
<1>1. Len(wire) \in Nat /\ k \in Nat /\ k =< Len(wire)
  BY LenProperties
<1>2. \A i \in 1..k : i \in 1..Len(wire) /\ wire[i] \in Message(Rows)
  BY <1>1, ElementOfSeq
<1>3. /\ wire' \in Seq(Message(Rows)) /\ Len(wire') = k
      /\ \A i \in 1..k : wire'[i] = wire[i]
  BY <1>1, <1>2, SubSeqProperties
<1>4. OnWire' \subseteq OnWire
  BY <1>2, <1>3 DEF OnWire
<1> QED
  BY <1>1, <1>2, <1>3, <1>4

-----------------------------------------------------------------------------
(* The server and the channel.                                             *)

\* Sending a row moves it from the server to the wire.
LEMMA ServerSendStream ==
  ASSUME NEW Rows, StreamInv(Rows), ServerSend
  PROVE  StreamInv(Rows)' /\ Unread' = Unread
<1> USE DEF StreamInv
<1>1. PICK row \in pending : /\ pending' = pending \ {row}
                             /\ wire' = Append(wire, StreamResult(row))
  BY DEF ServerSend
<1>2. /\ rpc = "streaming"
      /\ UNCHANGED <<phase, m_eof, rpc, m_reply, emitted>>
  BY DEF ServerSend
<1> DEFINE msg == StreamResult(row)
<1>3. msg \in Message(Rows) /\ IsRow(msg) /\ msg.row = row /\ row \in Rows
  BY <1>1 DEF StreamResult, Message, IsRow, ScanTypeOK
<1>4. /\ wire' \in Seq(Message(Rows)) /\ wire' # <<>>
      /\ Len(wire) \in Nat /\ Len(wire') = Len(wire) + 1
      /\ \A i \in 1..Len(wire) : wire'[i] = wire[i]
      /\ wire'[Len(wire) + 1] = msg
      /\ OnWire' = OnWire \cup {row}
  BY <1>1, <1>3, WireAppend DEF ScanTypeOK
<1>5. Unread' = Unread
  BY <1>1, <1>2, <1>4 DEF Unread, AtRow
<1>6. ScanTypeOK(Rows)'
  BY <1>1, <1>2, <1>4 DEF ScanTypeOK
<1>7. EndOfStream'
  <2>1. \A i \in 1..Len(wire) : IsRow(wire[i])
    BY <1>2 DEF EndOfStream
  <2>2. \A i \in 1..Len(wire') : IsRow(wire'[i])
    BY <1>3, <1>4, <2>1
  <2> QED
    BY <1>2, <2>2 DEF EndOfStream, MayRead, AtEnd, AtRow
<1>8. OnePlace'
  <2>1. row \notin OnWire
    BY <1>1 DEF OnePlace
  <2>2. \A i \in 1..Len(wire) : IsRow(wire[i]) => wire[i] # msg
    BY <1>3, <2>1 DEF OnWire
  <2>3. \A i, j \in 1..Len(wire') : IsRow(wire'[i]) /\ wire'[j] = wire'[i] => i = j
    <3>1. \A i \in 1..Len(wire') : i \in 1..Len(wire) \/ i = Len(wire) + 1
      BY <1>4
    <3> QED
      BY <1>3, <1>4, <2>2, <3>1 DEF OnePlace
  <2> QED
    BY <1>1, <1>2, <1>4, <1>5, <2>1, <2>3 DEF OnePlace, AtRow
<1> QED
  BY <1>5, <1>6, <1>7, <1>8

\* The FinalResult carries no row.
LEMMA ServerFinishStream ==
  ASSUME NEW Rows, StreamInv(Rows), ServerFinish
  PROVE  StreamInv(Rows)' /\ Unread' = Unread
<1> USE DEF StreamInv
<1> DEFINE msg == FinalResult(pending # {})
<1>1. /\ rpc = "streaming" /\ rpc' = "finished"
      /\ wire' = Append(wire, msg)
      /\ UNCHANGED <<phase, m_eof, pending, m_reply, emitted>>
  BY DEF ServerFinish
<1>2. msg \in Message(Rows) /\ ~IsRow(msg)
  BY DEF FinalResult, Message, IsRow
<1> HIDE DEF msg
<1>3. /\ wire' \in Seq(Message(Rows)) /\ wire' # <<>>
      /\ Len(wire) \in Nat /\ Len(wire') = Len(wire) + 1
      /\ \A i \in 1..Len(wire) : wire'[i] = wire[i]
      /\ wire'[Len(wire) + 1] = msg
      /\ OnWire' = OnWire
  BY <1>1, <1>2, WireAppend DEF ScanTypeOK
<1>4. Unread' = Unread
  BY <1>1, <1>3 DEF Unread, AtRow
<1>5. ScanTypeOK(Rows)'
  BY <1>1, <1>3 DEF ScanTypeOK
<1>6. \A i \in 1..Len(wire') : i \in 1..Len(wire) \/ i = Len(wire) + 1
  BY <1>3
<1>7. EndOfStream'
  BY <1>1, <1>2, <1>3, <1>6 DEF EndOfStream, MayRead, AtEnd, AtRow
<1>8. OnePlace'
  BY <1>1, <1>2, <1>3, <1>4, <1>6 DEF OnePlace, AtRow
<1> QED
  BY <1>4, <1>5, <1>7, <1>8

\* A broken channel loses rows and adds none.
LEMMA ChannelBreakStream ==
  ASSUME NEW Rows, StreamInv(Rows), ChannelBreak
  PROVE  StreamInv(Rows)' /\ Unread' \subseteq Unread
<1> USE DEF StreamInv
<1>1. PICK k \in 0..Len(wire) : wire' = SubSeq(wire, 1, k)
  BY DEF ChannelBreak
<1>2. /\ rpc = "streaming" \/ (rpc = "finished" /\ wire # <<>>)
      /\ rpc' = "broken"
      /\ UNCHANGED <<phase, m_eof, pending, m_reply, emitted>>
  BY DEF ChannelBreak
<1>3. /\ wire' \in Seq(Message(Rows))
      /\ Len(wire) \in Nat /\ Len(wire') = k
      /\ \A i \in 1..k : i \in 1..Len(wire) /\ wire'[i] = wire[i]
      /\ OnWire' \subseteq OnWire
  BY <1>1, WirePrefix DEF ScanTypeOK
<1>4. Unread' \subseteq Unread
  BY <1>2, <1>3 DEF Unread, AtRow
<1>5. ScanTypeOK(Rows)'
  BY <1>2, <1>3 DEF ScanTypeOK
<1>6. EndOfStream'
  <2>1. ~AtEnd
    BY <1>2 DEF EndOfStream
  <2> QED
    BY <1>2, <1>3, <2>1 DEF EndOfStream, MayRead, AtEnd, AtRow
<1>7. OnePlace'
  BY <1>2, <1>3, <1>4 DEF OnePlace, AtRow
<1> QED
  BY <1>4, <1>5, <1>6, <1>7

-----------------------------------------------------------------------------
(* SQLite's calls.                                                         *)

\* Two rows on the wire are the same message if they are the same row.
LEMMA SameRow ==
  ASSUME NEW Rows, NEW m \in Message(Rows), NEW n \in Message(Rows),
         IsRow(m), IsRow(n), m.row = n.row
  PROVE  m = n
BY DEF Message, IsRow

\* Read moves the first row of the wire under the cursor; it says that nothing
\* is left only when nothing is.
LEMMA ReadReplyStream ==
  ASSUME NEW Rows, StreamInv(Rows), ReadReply
  PROVE  StreamInv(Rows)' /\ Unread' = Unread
<1> USE DEF StreamInv
<1>1. /\ phase = "reading" /\ phase' = "positioned"
      /\ UNCHANGED <<rpc, pending, emitted>>
  BY DEF ReadReply
<1>2. ~AtRow /\ MayRead /\ rpc # "none"
  BY <1>1 DEF AtRow, MayRead, EndOfStream
<1>3. CASE wire # <<>> /\ m_reply' = Head(wire) /\ wire' = Tail(wire)
           /\ m_eof' = ~IsRow(m_reply')
  <2>1. /\ wire' \in Seq(Message(Rows))
        /\ m_reply' \in Message(Rows) /\ m_reply' = wire[1]
        /\ Len(wire) \in Nat \ {0} /\ Len(wire') = Len(wire) - 1
        /\ \A i \in 1..Len(wire') : wire'[i] = wire[i + 1]
        /\ OnWire = OnWire' \cup (IF IsRow(m_reply') THEN {m_reply'.row} ELSE {})
    BY <1>3, WireTail DEF ScanTypeOK
  <2>2. \A i \in 1..Len(wire') : i + 1 \in 1..Len(wire)
    BY <2>1
  <2>3. AtRow' <=> IsRow(m_reply')
    BY <1>1, <1>3 DEF AtRow
  <2>4. Unread' = Unread
    BY <1>1, <1>2, <2>1, <2>3 DEF Unread
  <2>5. ScanTypeOK(Rows)'
    BY <1>1, <1>3, <2>1 DEF ScanTypeOK
  <2>6. EndOfStream'
    <3>1. \A i \in 1..Len(wire') : ~IsRow(wire'[i]) => i = Len(wire') /\ rpc' # "streaming"
      BY <1>1, <2>1, <2>2 DEF EndOfStream
    <3>2. ASSUME AtRow', rpc' = "finished"
          PROVE  wire' # <<>> /\ ~IsRow(wire'[Len(wire')])
      <4>1. ~IsRow(wire[Len(wire)])
        BY <1>1, <1>2, <3>2 DEF EndOfStream
      <4>2. Len(wire) # 1
        BY <2>1, <2>3, <3>2, <4>1
      <4>3. Len(wire') \in 1..Len(wire') /\ wire'[Len(wire')] = wire[Len(wire)]
        BY <2>1, <4>2
      <4> QED
        BY <4>1, <4>3
    <3>3. ASSUME ~IsRow(m_reply')
          PROVE  rpc' # "streaming" /\ wire' = <<>>
      <4>1. 1 = Len(wire) /\ rpc # "streaming"
        BY <2>1, <3>3 DEF EndOfStream
      <4>2. Len(wire') = 0
        <5>1. Len(wire') = Len(wire) - 1
          BY <2>1
        <5> QED
          BY <4>1, <5>1
      <4>3. wire' = <<>>
        BY <2>1, <4>2, EmptySeq
      <4> QED
        BY <1>1, <4>1, <4>3
    <3> QED
      BY <1>1, <1>2, <1>3, <2>3, <3>1, <3>2, <3>3 DEF EndOfStream, MayRead, AtEnd, AtRow
  <2>7. OnePlace'
    <3>1. \A i, j \in 1..Len(wire') : IsRow(wire'[i]) /\ wire'[j] = wire'[i] => i = j
      BY <2>1, <2>2 DEF OnePlace
    <3>2. ASSUME IsRow(m_reply') PROVE m_reply'.row \notin pending' \cup OnWire'
      <4>1. m_reply'.row \notin pending'
        BY <1>1, <2>1, <3>2 DEF OnePlace
      <4>2. ASSUME NEW i \in 1..Len(wire'), IsRow(wire'[i]), wire'[i].row = m_reply'.row
            PROVE  FALSE
        <5>1. i + 1 \in 1..Len(wire) /\ 1 \in 1..Len(wire) /\ wire'[i] = wire[i + 1]
          BY <2>1, <2>2
        <5>2. wire[i + 1] \in Message(Rows)
          BY <5>1, ElementOfSeq DEF ScanTypeOK
        <5>3. wire[i + 1] = wire[1]
          BY <2>1, <3>2, <4>2, <5>1, <5>2, SameRow
        <5> QED
          BY <2>1, <3>2, <5>1, <5>3 DEF OnePlace
      <4> QED
        BY <4>1, <4>2 DEF OnWire
    <3> QED
      BY <1>1, <2>1, <2>3, <2>4, <3>1, <3>2 DEF OnePlace
  <2> QED
    BY <2>4, <2>5, <2>6, <2>7
<1>4. CASE wire = <<>> /\ rpc \in {"finished", "broken"} /\ m_eof' = TRUE
           /\ UNCHANGED <<m_reply, wire>>
  <2>1. OnWire' = OnWire /\ ~AtRow'
    BY <1>4 DEF OnWire, AtRow
  <2> QED
    BY <1>1, <1>2, <1>4, <2>1
    DEF Unread, ScanTypeOK, EndOfStream, OnePlace, MayRead, AtEnd, AtRow
<1> QED
  BY <1>3, <1>4 DEF ReadReply

\* Looking at the row under the cursor uses it up, whether SQLite accepts it or
\* not.
LEMMA ExamineStream ==
  ASSUME NEW Rows, StreamInv(Rows), AtRow,
         phase' = "examined",
         emitted' \in {emitted, emitted \cup {m_reply.row}},
         UNCHANGED <<m_eof, streamVars>>
  PROVE  StreamInv(Rows)' /\ Unread' = Unread \ {m_reply.row}
<1> USE DEF StreamInv, streamVars
<1>1. OnWire' = OnWire /\ ~AtRow'
  BY DEF OnWire, AtRow
<1>2. IsRow(m_reply) /\ m_reply.row \in Rows /\ m_reply.row \notin pending \cup OnWire
  BY DEF ScanTypeOK, OnePlace, Message, NotSet, IsRow
<1>3. Unread' = Unread \ {m_reply.row}
  BY <1>1, <1>2 DEF Unread
<1>4. ScanTypeOK(Rows)'
  BY <1>2 DEF ScanTypeOK
<1>5. EndOfStream'
  BY DEF EndOfStream, MayRead, AtEnd, AtRow
<1>6. OnePlace'
  BY <1>1, <1>3 DEF OnePlace
<1> QED
  BY <1>3, <1>4, <1>5, <1>6

\* Entering Read changes nothing but the phase.
LEMMA CallNextStream ==
  ASSUME NEW Rows, StreamInv(Rows), CallNext
  PROVE  StreamInv(Rows)' /\ Unread' = Unread
BY DEF CallNext, streamVars, StreamInv, ScanTypeOK, EndOfStream, OnePlace,
       Unread, OnWire, MayRead, AtEnd, AtRow

\* At the end of the scan nothing is left to come to.
LEMMA SeeEofStream ==
  ASSUME NEW Rows, StreamInv(Rows), SeeEof
  PROVE  StreamInv(Rows)' /\ Unread' = Unread
BY DEF SeeEof, streamVars, StreamInv, ScanTypeOK, EndOfStream, OnePlace,
       Unread, OnWire, MayRead, AtEnd, AtRow

\* A scan that has ended has nothing left with the channel; if the server sent
\* all it had, nothing is left at all.
LEMMA EndedStream ==
  ASSUME NEW Rows, StreamInv(Rows), AtEnd, ServerComplete
  PROVE  Unread = {}
<1>1. wire = <<>> /\ pending = {} /\ ~AtRow
  BY DEF StreamInv, EndOfStream, AtEnd, AtRow, ServerComplete
<1>2. OnWire = {}
  BY <1>1 DEF OnWire
<1> QED
  BY <1>1, <1>2 DEF Unread

\* Leaving the cursor alone outside a scan does not disturb its stream.
LEMMA OutsideStream ==
  ASSUME NEW Rows, StreamInv(Rows), phase' \in {"prepared", "opened", "aborted"},
         UNCHANGED <<m_eof, streamVars, emitted>>
  PROVE  StreamInv(Rows)'
<1> USE DEF StreamInv, streamVars
<1>1. OnWire' = OnWire /\ ~AtRow' /\ ~MayRead' /\ ~AtEnd'
  BY DEF OnWire, AtRow, MayRead, AtEnd
<1>2. ScanTypeOK(Rows)'
  BY DEF ScanTypeOK
<1>3. EndOfStream'
  BY <1>1 DEF EndOfStream
<1>4. OnePlace'
  BY <1>1 DEF OnePlace, Unread
<1> QED
  BY <1>2, <1>3, <1>4

\* The stream is gone with the cursor.
LEMMA CloseCursorStream ==
  ASSUME NEW Rows, StreamInv(Rows), CloseCursor
  PROVE  StreamInv(Rows)'
<1> USE DEF StreamInv
<1>1. /\ phase' = "prepared" /\ m_eof' = FALSE /\ rpc' = "none"
      /\ pending' = {} /\ wire' = <<>> /\ m_reply' = NotSet /\ emitted' = {}
  BY DEF CloseCursor
<1>2. wire' \in Seq(Message(Rows)) /\ 1..Len(wire') = {} /\ ~AtRow' /\ ~MayRead' /\ ~AtEnd'
  BY <1>1, EmptySeq DEF AtRow, MayRead, AtEnd
<1>3. ScanTypeOK(Rows)'
  BY <1>1, <1>2 DEF ScanTypeOK
<1>4. EndOfStream'
  BY <1>1, <1>2 DEF EndOfStream
<1>5. OnePlace'
  BY <1>1, <1>2 DEF OnePlace
<1> QED
  BY <1>3, <1>4, <1>5

\* A new stream owes exactly the rows it was started for.
LEMMA StartStreamStream ==
  ASSUME NEW Rows, StreamInv(Rows), NEW rows \in SUBSET Rows, StartStream(rows),
         phase' = "reading", emitted' = {}, UNCHANGED m_eof
  PROVE  StreamInv(Rows)' /\ Unread' = rows
<1> USE DEF StreamInv
<1>1. /\ rpc' = "streaming" /\ pending' = rows /\ wire' = <<>> /\ m_reply' = NotSet
  BY DEF StartStream
<1>2. wire' \in Seq(Message(Rows)) /\ 1..Len(wire') = {} /\ ~AtRow' /\ ~AtEnd'
  BY <1>1, EmptySeq DEF AtRow, AtEnd
<1>3. OnWire' = {}
  BY <1>2 DEF OnWire
<1>4. ScanTypeOK(Rows)'
  BY <1>1, <1>2 DEF ScanTypeOK
<1>5. EndOfStream'
  BY <1>1, <1>2 DEF EndOfStream
<1>6. OnePlace'
  BY <1>1, <1>2, <1>3 DEF OnePlace
<1> QED
  BY <1>1, <1>2, <1>3, <1>4, <1>5, <1>6 DEF Unread

-----------------------------------------------------------------------------
(* What is left to do.                                                     *)

\* The parts of Work are numbers as long as the answer is finite.
LEMMA WorkParts ==
  ASSUME NEW Rows, ScanTypeOK(Rows), IsFiniteSet(pending)
  PROVE  /\ Cardinality(pending) \in Nat
         /\ Len(wire) \in Nat
         /\ CallWork \in Nat
         /\ CursorWork \in Nat
<1>1. Cardinality(pending) \in Nat
  BY FS_CardinalityType
<1>2. Len(wire) \in Nat
  BY LenProperties DEF ScanTypeOK
<1>3. CallWork \in Nat
  BY DEF CallWork, ScanTypeOK
<1>4. CursorWork \in Nat
  BY DEF CursorWork, ScanTypeOK, AtRow, Scanning
<1> QED
  BY <1>1, <1>2, <1>3, <1>4

\* A call that ends has a FinalResult to send at most, one that breaks nothing.
LEMMA CallWorkIs ==
  /\ rpc = "streaming" => CallWork = 5
  /\ rpc = "finished" => CallWork = 1
  /\ rpc \in {"none", "broken"} => CallWork = 0
BY DEF CallWork

\* A row under the cursor is examined, then left; the end is seen once.
LEMMA CursorWorkIs ==
  /\ phase = "positioned" /\ ~m_eof => CursorWork = 4
  /\ phase = "examined" => CursorWork = 3
  /\ phase = "reading" => CursorWork = 2
  /\ phase = "positioned" /\ m_eof => CursorWork = 1
  /\ ~Scanning => CursorWork = 0
BY DEF CursorWork, AtRow, Scanning

\* The server sends a row, ends its answer, or is cut off.
LEMMA ServerWork ==
  ASSUME NEW Rows, StreamInv(Rows), StreamInv(Rows)', IsFiniteSet(pending),
         ServerSend \/ ServerFinish \/ ChannelBreak
  PROVE  Work' < Work
<1>1. /\ ScanTypeOK(Rows) /\ ScanTypeOK(Rows)'
      /\ wire \in Seq(Message(Rows))
      /\ UNCHANGED <<phase, m_eof>>
  BY DEF StreamInv, ScanTypeOK, ServerSend, ServerFinish, ChannelBreak
<1>2. /\ Cardinality(pending) \in Nat /\ Len(wire) \in Nat
      /\ CallWork \in Nat /\ CursorWork \in Nat
  BY <1>1, WorkParts
<1>3. CursorWork' = CursorWork
  BY <1>1 DEF CursorWork, AtRow, Scanning
<1>4. CASE ServerSend
  <2>1. PICK row \in pending : /\ pending' = pending \ {row}
                               /\ wire' = Append(wire, StreamResult(row))
    BY <1>4 DEF ServerSend
  <2>2. Cardinality(pending') = Cardinality(pending) - 1
    BY <2>1, FS_RemoveElement
  <2>3. StreamResult(row) \in Message(Rows)
    BY <1>1, <2>1 DEF StreamResult, Message, ScanTypeOK
  <2>4. Len(wire') = Len(wire) + 1
    BY <1>1, <2>1, <2>3, AppendProperties
  <2>5. CallWork' = CallWork
    BY <1>4 DEF ServerSend, CallWork
  <2> QED
    BY <1>2, <1>3, <2>2, <2>4, <2>5 DEF Work
<1>5. CASE ServerFinish
  <2>1. /\ rpc = "streaming" /\ rpc' = "finished" /\ pending' = pending
        /\ wire' = Append(wire, FinalResult(pending # {}))
    BY <1>5 DEF ServerFinish
  <2>2. FinalResult(pending # {}) \in Message(Rows)
    BY DEF FinalResult, Message
  <2>3. Len(wire') = Len(wire) + 1
    BY <1>1, <2>1, <2>2, AppendProperties
  <2>4. CallWork = 5
    BY <2>1, CallWorkIs
  <2>5. CallWork' = 1
    BY <2>1 DEF CallWork
  <2> QED
    BY <1>2, <1>3, <2>1, <2>3, <2>4, <2>5 DEF Work
<1>6. CASE ChannelBreak
  <2>1. PICK k \in 0..Len(wire) : wire' = SubSeq(wire, 1, k)
    BY <1>6 DEF ChannelBreak
  <2>2. Len(wire') = k
    BY <1>1, <2>1, WirePrefix
  <2>3. pending' = pending /\ rpc \in {"streaming", "finished"} /\ rpc' = "broken"
    BY <1>6 DEF ChannelBreak
  <2>4. CallWork \in {1, 5}
    BY <2>3, CallWorkIs
  <2>5. CallWork' = 0
    BY <2>3 DEF CallWork
  <2> QED
    BY <1>2, <1>3, <2>1, <2>2, <2>3, <2>4, <2>5 DEF Work
<1> QED
  BY <1>4, <1>5, <1>6

\* Read comes back, with a message or without.
LEMMA ReadWork ==
  ASSUME NEW Rows, StreamInv(Rows), IsFiniteSet(pending), ReadReply
  PROVE  Work' < Work
<1>1. /\ ScanTypeOK(Rows) /\ wire \in Seq(Message(Rows))
      /\ phase = "reading" /\ phase' = "positioned"
      /\ UNCHANGED <<rpc, pending>>
  BY DEF StreamInv, ScanTypeOK, ReadReply
<1>2. /\ Cardinality(pending) \in Nat /\ Len(wire) \in Nat
      /\ CallWork \in Nat /\ CursorWork = 2
  BY <1>1, WorkParts, CursorWorkIs
<1>3. CallWork' = CallWork
  BY <1>1 DEF CallWork
<1>4. CASE wire # <<>> /\ wire' = Tail(wire) /\ m_eof' = ~IsRow(m_reply')
  <2>1. Len(wire') = Len(wire) - 1
    BY <1>1, <1>4, WireTail
  <2>2. CursorWork' \in {1, 4}
    <3>1. m_eof' \in BOOLEAN
      BY <1>4 DEF IsRow
    <3> QED
      BY <1>1, <3>1 DEF CursorWork, AtRow, Scanning
  <2> QED
    BY <1>1, <1>2, <1>3, <2>1, <2>2 DEF Work
<1>5. CASE wire' = wire /\ m_eof' = TRUE
  <2>1. CursorWork' = 1
    BY <1>1, <1>5 DEF CursorWork, AtRow, Scanning
  <2> QED
    BY <1>1, <1>2, <1>3, <1>5, <2>1 DEF Work
<1> QED
  BY <1>4, <1>5 DEF ReadReply

\* SQLite goes on with the cursor, or the process ends.
LEMMA ClientWork ==
  ASSUME NEW Rows, ScanTypeOK(Rows), IsFiniteSet(pending), UNCHANGED streamVars, UNCHANGED m_eof,
         \/ phase = "positioned" /\ ~m_eof /\ phase' = "examined"
         \/ phase = "positioned" /\ m_eof /\ phase' = "done"
         \/ phase = "examined" /\ phase' = "reading"
         \/ Scanning /\ phase # "reading" /\ phase' = "aborted"
  PROVE  Work' < Work
<1>1. /\ Cardinality(pending) \in Nat /\ Len(wire) \in Nat
      /\ CallWork \in Nat /\ CursorWork \in Nat
  BY WorkParts
<1>2. CallWork' = CallWork /\ pending' = pending /\ wire' = wire
  BY DEF CallWork, streamVars
<1>3. CursorWork' \in Nat /\ CursorWork' < CursorWork
  BY DEF CursorWork, AtRow, Scanning, ScanTypeOK
<1>4. /\ Work = 4 * Cardinality(pending) + 3 * Len(wire) + CallWork + CursorWork
      /\ Work' = 4 * Cardinality(pending) + 3 * Len(wire) + CallWork + CursorWork'
  BY <1>2 DEF Work
<1> QED
  BY <1>1, <1>3, <1>4

\* With the cursor goes all that was left to do.
LEMMA CloseWork ==
  ASSUME NEW Rows, ScanTypeOK(Rows), IsFiniteSet(pending), Scanning, CloseCursor
  PROVE  Work' < Work
<1>1. /\ Cardinality(pending) \in Nat /\ Len(wire) \in Nat
      /\ CallWork \in Nat /\ CursorWork \in Nat
  BY WorkParts
<1>2. CursorWork > 0
  BY DEF CursorWork, AtRow, Scanning, ScanTypeOK
<1>3. /\ pending' = {} /\ wire' = <<>> /\ rpc' = "none" /\ phase' = "prepared"
  BY DEF CloseCursor
<1>4. Cardinality(pending') = 0 /\ Len(wire') = 0
  BY <1>3, FS_EmptySet, EmptySeq
<1>5. CallWork' = 0 /\ CursorWork' = 0
  BY <1>3 DEF CallWork, CursorWork, AtRow, Scanning
<1> QED
  BY <1>1, <1>2, <1>4, <1>5 DEF Work
=============================================================================
