------------------------------ MODULE Messages ------------------------------
(***************************************************************************)
(* The message classes protoc generated into Index.pb.h and Index.pb.cc,    *)
(* driven by the tables of IndexSchema.  A stream's m_reply is one such     *)
(* object, into which ClientReader::Read parses one reply after another,    *)
(* and whose accessors Column calls without a look at the has bits.         *)
(*                                                                         *)
(* The model follows objects of one type and at most MaxFocus of its fields *)
(* at a time: any two entries of a table that clash show up in some focus.  *)
(* A field holds a scalar (0 is the default), a text (0 is the empty one),  *)
(* a pointer to a message (NULL, or the set of the parts set in it) or a    *)
(* list.  Arenas are left out: this program allocates on the heap only.     *)
(***************************************************************************)
EXTENDS Integers, Sequences, FiniteSets, Functions, IndexSchema

CONSTANTS Obj,         \* the objects of the one type, two or more
          Part,        \* what can be set in a submessage
          Elem,        \* the elements of lists
          NULL,
          MaxFocus, MaxLen, MaxUnknown    \* bounds of fields, lists and unread fields

\* The null pointer is no message.
ASSUME NullAssumption == \A parts \in SUBSET Part : parts # NULL
ASSUME BoundsAssumption == MaxFocus \in Nat /\ MaxLen \in Nat /\ MaxUnknown \in Nat

VARIABLES type,        \* the message type followed
          focus,       \* the fields followed
          msg          \* the objects: has bits, members, number of unknown fields

vars == <<type, focus, msg>>

\* The place of every member in the order of storage, and its kind.
Place == [t \in DOMAIN IndexFields |->
  [f \in {d.name : d \in Range(IndexFields[t])} |->
     CHOOSE i \in DOMAIN IndexFields[t] : IndexFields[t][i].name = f]]
KindOf == [t \in DOMAIN IndexFields |->
  [f \in DOMAIN Place[t] |-> IndexFields[t][Place[t][f]].kind]]

Kind(f) == KindOf[type][f]
Of(kind) == {f \in focus : Kind(f) = kind}
IsOneof == type \in IndexOneofs

\* Whether a member lies in the block from the first to the last of two others.
Within(f, ends) ==
  ends # <<>> /\ Place[type][f] \in Place[type][ends[1]]..Place[type][ends[2]]

Passes(masks, has) == \A mask \in masks : mask \cap has # {}

Default(f) == CASE Kind(f) = "list" -> <<>>
                [] Kind(f) = "sub"  -> NULL
                [] Kind(f) \in {"scalar", "text"} -> 0

Values(f) == CASE Kind(f) = "list" -> UNION {[1..n -> Elem] : n \in 0..MaxLen}
               [] Kind(f) = "sub"  -> SUBSET Part
               [] Kind(f) \in {"scalar", "text"} -> {0, 1}

\* The accessor: a null pointer reads as the default instance.
Get(m, f) == IF Kind(f) = "sub" /\ m.val[f] = NULL THEN {} ELSE m.val[f]

Blank == [has |-> {}, val |-> [f \in focus |-> Default(f)], unknown |-> 0]

\* A member whose bit or case is set; in a oneof the other one is deleted first.
Put(m, f, bit, v) ==
  IF IsOneof THEN [Blank EXCEPT !.has = {bit}, !.val[f] = v, !.unknown = m.unknown]
  ELSE [m EXCEPT !.has = @ \union {bit}, !.val[f] = v]

\* What is left of a member whose content is cleared: a message keeps its memory.
Emptied(f, v) == IF Kind(f) = "sub" /\ ~IsOneof /\ v # NULL THEN {} ELSE Default(f)

\* A value on top of the one a member has: messages are merged, lists appended.
OnTop(f, old, v) == IF Kind(f) = "sub" THEN (IF old = NULL THEN {} ELSE old) \union v
                    ELSE IF Kind(f) = "list" THEN old \o v
                    ELSE v
-----------------------------------------------------------------------------
(* The functions of a message *)

\* A mistake in Clear: the submessages are left for the next parse to overwrite.
ClearedKeepingSubs(m) ==
  [has |-> {}, unknown |-> 0,
   val |-> [f \in focus |-> IF Kind(f) # "sub" /\ Passes(IndexCleared[type][f], m.has)
                            THEN Emptied(f, m.val[f]) ELSE m.val[f]]]

\* Clear: a member is reset only if the bits say that it may need it.
ClearedMessage(m) ==
  [has |-> {}, unknown |-> 0,
   val |-> [f \in focus |-> IF Passes(IndexCleared[type][f], m.has)
                            THEN Emptied(f, m.val[f]) ELSE m.val[f]]]

\* The bits MergeFrom sets: texts and messages set their own; scalars are plain
\* members and rely on the bits being taken over, where that is done.
MergedBits(m, from) ==
  LET taken == {f \in focus \ Of("list") : Passes(IndexMerged[type][f], from.has)}
      own   == IF IndexOred[type] = {} THEN taken ELSE taken \ Of("scalar")
  IN {IndexBits[type][f] : f \in own}
     \union IF IndexOred[type] \cap from.has # {} THEN from.has ELSE {}

MergedMessage(m, from) ==
  LET taken == {f \in focus : Passes(IndexMerged[type][f], from.has)} IN
  IF IsOneof
  THEN LET m1 == [m EXCEPT !.unknown = @ + from.unknown] IN
       IF taken = {} THEN m1
       ELSE LET f == CHOOSE g \in taken : TRUE
            IN Put(m1, f, IndexBits[type][f], OnTop(f, m.val[f], Get(from, f)))
  ELSE [has |-> m.has \union MergedBits(m, from),
        val |-> [f \in focus |-> IF f \in taken THEN OnTop(f, m.val[f], Get(from, f))
                                 ELSE m.val[f]],
        unknown |-> m.unknown + from.unknown]

\* SharedCtor.  Memory outside the block holds whatever was there: here 1 or {}.
BuiltMessage ==
  IF IsOneof THEN Blank
  ELSE [Blank EXCEPT !.val = [f \in focus |->
          IF f \in Of("scalar") \union Of("sub") /\ ~Within(f, IndexBuilt[type].zeroed)
          THEN (IF Kind(f) = "sub" THEN {} ELSE 1) ELSE Default(f)]]

\* The copy constructor.
CopiedMessage(from) ==
  IF IsOneof
  THEN LET taken == {f \in focus : Passes(IndexCopied[type][f], from.has)}
       IN [has |-> {IndexBits[type][f] : f \in taken}, unknown |-> from.unknown,
           val |-> [f \in focus |-> IF f \in taken THEN Get(from, f) ELSE NULL]]
  ELSE [has |-> from.has, unknown |-> from.unknown,
        val |-> [f \in focus |->
          CASE Kind(f) = "list" -> from.val[f]
            [] Kind(f) \in {"text", "sub"} ->
                 IF IndexBits[type][f] \in from.has THEN from.val[f] ELSE Default(f)
            [] Kind(f) = "scalar" ->
                 IF Within(f, IndexBuilt[type].copied) THEN from.val[f] ELSE 1]]

\* InternalSwap: lists and texts one by one, the rest as a block.
SwappedMessage(m, other) ==
  [has |-> other.has, unknown |-> other.unknown,
   val |-> [f \in focus |->
     IF IsOneof \/ Kind(f) \in {"list", "text"} \/ Within(f, IndexSwapped[type])
     THEN other.val[f] ELSE m.val[f]]]
-----------------------------------------------------------------------------
(* The wire *)

WireType(f) == IF Kind(f) = "scalar" THEN 0 ELSE 2

\* What _InternalSerialize writes for one entry of its table: the items of one field,
\* next to each other, all under one tag.
Piece(entry, m) ==
  LET f == entry[1] IN
  [tag   |-> 8 * entry[2] + WireType(f),
   items |-> IF f \notin focus \/ ~Passes(entry[3], m.has) THEN <<>>
             ELSE IF Kind(f) = "list" THEN m.val[f]
             ELSE <<Get(m, f)>>]

\* The fields of a number no case knows, as a newer server sends them, come last.
Serialized(m) ==
  [pieces |-> [i \in DOMAIN IndexWritten[type] |-> Piece(IndexWritten[type][i], m)],
   unread |-> m.unknown]

\* A case of the loop of _InternalParse, which stays in it while the tag is the same.
ParsedPiece(m, piece) ==
  LET known == {f \in focus : IndexParsed[type][f] = <<piece.tag \div 8, piece.tag % 256>>}
      f     == CHOOSE g \in known : TRUE
      bit   == IF Kind(f) = "scalar" THEN IndexMarks[type][f] ELSE IndexBits[type][f]
  IN IF piece.items = <<>> THEN m
     ELSE IF known = {} THEN [m EXCEPT !.unknown = @ + Len(piece.items)]
     ELSE IF Kind(f) = "list" THEN [m EXCEPT !.val[f] = OnTop(f, @, piece.items)]
     ELSE Put(m, f, bit, OnTop(f, m.val[f], piece.items[1]))

\* The message after each turn of the loop.
Parsing(m, pieces) ==
  LET after[n \in 0..Len(pieces)] ==
        IF n = 0 THEN m ELSE ParsedPiece(after[n - 1], pieces[n])
  IN after

ParsedInto(m, wire) ==
  [Parsing(m, wire.pieces)[Len(wire.pieces)] EXCEPT !.unknown = @ + wire.unread]

Total(sizes) ==
  LET sum[n \in 0..Len(sizes)] == IF n = 0 THEN 0 ELSE sum[n - 1] + sizes[n]
  IN sum[Len(sizes)]

\* ByteSizeLong, in bytes of tags and with one byte for every value; the values'
\* own sizes are computed and written by the same library functions.
ByteSize(m) ==
  LET Size(f) == IF f \notin focus THEN 0
                 ELSE IF Kind(f) = "list" THEN Len(m.val[f]) * (IndexSized[type][f][2] + 1)
                 ELSE IF Passes(IndexSized[type][f][1], m.has) THEN IndexSized[type][f][2] + 1
                 ELSE 0
  IN Total([i \in DOMAIN IndexFields[type] |-> Size(IndexFields[type][i].name)])
     + 2 * m.unknown

\* The bytes those items take: a tag from 128 on takes two.
PieceSize(piece) == Len(piece.items) * (IF piece.tag < 128 THEN 2 ELSE 3)

WireSize(wire) == Total([i \in DOMAIN wire.pieces |-> PieceSize(wire.pieces[i])])
                  + 2 * wire.unread
-----------------------------------------------------------------------------
(* What the callers of a message do *)

Becomes(o, m) == /\ msg' = [msg EXCEPT ![o] = m]
                 /\ UNCHANGED <<type, focus>>

New(o) == Becomes(o, BuiltMessage)

\* set_...
Set(o, f) == /\ Kind(f) \in {"scalar", "text"}
             /\ \E v \in Values(f) : Becomes(o, Put(msg[o], f, IndexBits[type][f], v))

\* mutable_..., and what the caller then sets in the message.
Mutable(o, f) == /\ Kind(f) = "sub"
                 /\ \E v \in Values(f) : Becomes(o, Put(msg[o], f, IndexBits[type][f], v))

\* add_...
Add(o, f) == /\ Kind(f) = "list"
             /\ Len(msg[o].val[f]) < MaxLen
             /\ \E e \in Elem : Becomes(o, [msg[o] EXCEPT !.val[f] = Append(@, e)])

\* clear_...
ClearField(o, f) ==
  LET m == msg[o] IN
  Becomes(o, IF Kind(f) = "list" THEN [m EXCEPT !.val[f] = <<>>]
             ELSE IF IsOneof /\ IndexBits[type][f] \notin m.has THEN m
             ELSE [m EXCEPT !.has = @ \ {IndexBits[type][f]}, !.val[f] = Emptied(f, @)])

\* release_...: the caller gets the member, which is gone from the message.  That of
\* a text or of a case of a oneof does nothing without the bit.
Release(o, f) ==
  LET m == msg[o] IN
  /\ Kind(f) \in {"text", "sub"}
  /\ Becomes(o, IF IndexBits[type][f] \notin m.has /\ (IsOneof \/ Kind(f) = "text") THEN m
                ELSE [m EXCEPT !.has = @ \ {IndexBits[type][f]}, !.val[f] = Default(f)])

\* set_allocated_..., with a null pointer too.
SetAllocated(o, f) ==
  LET m   == msg[o]
      bit == IF IsOneof THEN IndexMarks[type][f] ELSE IndexBits[type][f] IN
  /\ Kind(f) \in {"text", "sub"}
  /\ \/ \E v \in Values(f) : Becomes(o, Put(m, f, bit, v))
     \/ Becomes(o, IF IsOneof THEN [Blank EXCEPT !.unknown = m.unknown]
                   ELSE [m EXCEPT !.has = @ \ {bit}, !.val[f] = Default(f)])

Clear(o) == Becomes(o, ClearedMessage(msg[o]))

\* The bounds of the lists and of the unknown fields.
Fits(m) == /\ m.unknown <= MaxUnknown
           /\ \A f \in Of("list") : Len(m.val[f]) <= MaxLen

MergeFrom(o, p) == LET m == MergedMessage(msg[o], msg[p]) IN Fits(m) /\ Becomes(o, m)

CopyFrom(o, p) == Becomes(o, MergedMessage(ClearedMessage(msg[o]), msg[p]))

CopyConstruct(o, p) == Becomes(o, CopiedMessage(msg[p]))

Swap(o, p) == /\ msg' = [msg EXCEPT ![o] = SwappedMessage(@, msg[p]),
                                    ![p] = SwappedMessage(@, msg[o])]
              /\ UNCHANGED <<type, focus>>

\* ClientReader::Read: the object is cleared and the next message parsed into it;
\* a newer sender may add a field of its own.
Receive(o, p) ==
  \E extra \in 0..1 :
    LET wire == [Serialized(msg[p]) EXCEPT !.unread = @ + extra]
        m    == ParsedInto(ClearedMessage(msg[o]), wire)
    IN Fits(m) /\ Becomes(o, m)

\* A message that occurs twice as a field of another: parsed on top of the first.
ParseOnTop(o, p) ==
  LET m == ParsedInto(msg[o], Serialized(msg[p])) IN Fits(m) /\ Becomes(o, m)

\* The bytes end, or turn out malformed, before some item or within it: its bit is
\* set by then and its value is not what it was.
Broken(o, p) ==
  LET wire  == Serialized(msg[p])
      after == Parsing(ClearedMessage(msg[o]), wire.pieces)
  IN \/ \E n \in DOMAIN wire.pieces :
          LET piece     == wire.pieces[n]
              Read(seq) == ParsedPiece(after[n - 1], [piece EXCEPT !.items = seq])
          IN \E k \in DOMAIN piece.items :
               LET before == SubSeq(piece.items, 1, k - 1) IN
               \/ Becomes(o, Read(before))
               \/ \E f \in focus :
                    /\ IndexParsed[type][f] = <<piece.tag \div 8, piece.tag % 256>>
                    /\ \E v \in (IF Kind(f) = "list" THEN Elem ELSE Values(f)) :
                         Becomes(o, Read(Append(before, v)))
     \/ \E n \in 0..(wire.unread - 1) :
          Becomes(o, [after[Len(wire.pieces)] EXCEPT !.unknown = @ + n])
-----------------------------------------------------------------------------
Init == /\ type \in DOMAIN IndexFields
        /\ focus \in {F \in SUBSET DOMAIN Place[type] : F # {} /\ Cardinality(F) <= MaxFocus}
        /\ msg = [o \in Obj |-> BuiltMessage]

Next == \/ \E o \in Obj :
             \/ New(o) \/ Clear(o)
             \/ \E f \in focus : \/ Set(o, f) \/ Mutable(o, f) \/ Add(o, f)
                                 \/ ClearField(o, f) \/ Release(o, f) \/ SetAllocated(o, f)
        \/ \E o \in Obj : \E p \in Obj \ {o} :
             \/ MergeFrom(o, p) \/ CopyFrom(o, p) \/ CopyConstruct(o, p) \/ Swap(o, p)
             \/ Receive(o, p) \/ ParseOnTop(o, p) \/ Broken(o, p)

Spec == Init /\ [][Next]_vars
-----------------------------------------------------------------------------
Has(m, f) == IF Kind(f) = "list" THEN m.val[f] # <<>> ELSE IndexBits[type][f] \in m.has

\* Members, has bits and unknown fields have the values their types allow.
TypeOK ==
  /\ type \in DOMAIN IndexFields
  /\ focus \subseteq DOMAIN Place[type]
  /\ msg = [o \in Obj |-> msg[o]]
  /\ \A o \in Obj : LET m == msg[o] IN
       /\ m = [has |-> m.has, val |-> [f \in focus |-> m.val[f]], unknown |-> m.unknown]
       /\ m.has \subseteq {IndexBits[type][f] : f \in focus \ Of("list")}
       /\ \A f \in focus : m.val[f] \in Values(f) \union {Default(f)}
       /\ m.unknown \in 0..MaxUnknown

\* A pointer whose has bit or case is set is not null: has_...() tells the compiler
\* so with PROTOBUF_ASSUME, and Clear, ByteSizeLong and _InternalSerialize follow it.
NoNullBehindABit == \A o \in Obj : \A f \in Of("sub") :
  Has(msg[o], f) => msg[o].val[f] # NULL

\* Whatever an object held before, a field its last message did not have reads as
\* the default: Column calls the accessors without asking has_...() first, and the
\* m_reply of a stream is used again for every row.
AbsentReadsDefault == \A o \in Obj : \A f \in focus :
  ~Has(msg[o], f) => Get(msg[o], f) = IF Kind(f) = "sub" THEN {} ELSE Default(f)

\* The size ByteSizeLong announces is the number of bytes _InternalSerialize writes:
\* the buffer is allocated by the one and filled by the other.
SizeIsExact == \A o \in Obj : ByteSize(msg[o]) = WireSize(Serialized(msg[o]))

\* The object as its user sees it.
View(m) == [fields |-> [f \in {g \in focus : Has(m, g)} |-> m.val[f]],
            unknown |-> m.unknown]

Abstract == INSTANCE MessageSpec WITH
  Absent <- NULL, kind <- [f \in focus |-> Kind(f)], single <- IsOneof,
  view <- [o \in Obj |-> View(msg[o])]

\* However a field's place is spelled out in the ten functions, they agree: messages
\* behave as partial functions, and one that is read equals the one that was sent.
ImplementsMessageSpec == Abstract!Spec
=============================================================================
