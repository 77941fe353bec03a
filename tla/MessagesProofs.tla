--------------------------- MODULE MessagesProofs ---------------------------
(***************************************************************************)
(* Proofs about Messages, for all sixteen message types, any fields that    *)
(* are followed, any number of objects and lists of any length: messages    *)
(* stay sound, parsing a message does what merging it does, its size is     *)
(* the one announced, and messages implement partial functions.             *)
(*                                                                          *)
(* What the generated functions have in common of a schema is cited from    *)
(* IndexSchemaProofs.  The loops over fields need induction, which is done  *)
(* with a set of numbers (NatInductive) rather than with an operator.       *)
(***************************************************************************)
EXTENDS Messages, IndexSchemaProofs, SequenceTheorems, FiniteSetTheorems, FunctionTheorems,
        WellFoundedInduction, TLAPS

-----------------------------------------------------------------------------
(* Fields and tables *)

\* Init chooses the type and the fields, and no call changes them.
Typed == type \in DOMAIN IndexFields /\ focus \subseteq DOMAIN Place[type]

\* The has bit of a field, or its case.
Bit(f) == IndexBits[type][f]

\* A field is found at its place among the members.
LEMMA PlaceOf ==
  ASSUME Typed, NEW f \in DOMAIN Place[type]
  PROVE  /\ Place[type][f] \in DOMAIN IndexFields[type]
         /\ IndexFields[type][Place[type][f]].name = f
         /\ Kind(f) = IndexFields[type][Place[type][f]].kind
<1> DEFINE F == IndexFields[type]
<1>1. type \in DOMAIN IndexFields
  BY DEF Typed
<1>2. Place[type] = [g \in {d.name : d \in Range(F)} |-> CHOOSE i \in DOMAIN F : F[i].name = g]
  BY <1>1 DEF Place
<1>3. \E i \in DOMAIN F : F[i].name = f
  BY <1>2 DEF Range
<1>4. Place[type][f] \in DOMAIN F /\ F[Place[type][f]].name = f
  BY <1>2, <1>3
<1>5. DOMAIN Place = DOMAIN IndexFields
  BY DEF Place
<1>6. KindOf[type] = [g \in DOMAIN Place[type] |-> IndexFields[type][Place[type][g]].kind]
  BY <1>1 DEF KindOf
<1>7. QED
  BY <1>4, <1>6 DEF Kind

\* A member is found at the place of its name.
LEMMA PlaceOfName ==
  ASSUME Typed, NEW i \in DOMAIN IndexFields[type]
  PROVE  /\ IndexFields[type][i].name \in DOMAIN Place[type]
         /\ Place[type][IndexFields[type][i].name] = i
<1> DEFINE F == IndexFields[type]
<1>1. type \in DOMAIN IndexFields
  BY DEF Typed
<1>2. Place[type] = [g \in {d.name : d \in Range(F)} |-> CHOOSE k \in DOMAIN F : F[k].name = g]
  BY <1>1 DEF Place
<1>3. F[i].name \in DOMAIN Place[type]
  BY <1>2 DEF Range
<1>4. \A j, k \in DOMAIN F : F[j].name = F[k].name => j = k
  BY <1>1, TablesAgree DEF Agrees, FieldsAgree
<1>5. QED
  BY <1>3, <1>4, PlaceOf

\* Every field is of one of four kinds; the cases of a oneof are messages.
LEMMA KindOfField ==
  ASSUME Typed, NEW f \in DOMAIN Place[type]
  PROVE  /\ Kind(f) \in {"scalar", "text", "sub", "list"}
         /\ IsOneof => Kind(f) = "sub"
<1>1. FieldsAgree(type)
  BY TablesAgree DEF Typed, Agrees
<1>2. QED
  BY <1>1, PlaceOf DEF FieldsAgree, IsOneof

\* What the tables of Index.pb.cc say of one field's bit, wherever it is set or tested.
LEMMA BitOfField ==
  ASSUME Typed, NEW f \in DOMAIN Place[type], Kind(f) # "list"
  PROVE  /\ IndexMarks[type][f] = Bit(f)
         /\ Loose(IndexCleared[type][f], Bit(f))
         /\ Exact(IndexMerged[type][f], Bit(f))
         /\ Exact(IndexSized[type][f][1], Bit(f))
         /\ IsOneof => Exact(IndexCopied[type][f], Bit(f))
         /\ \A g \in DOMAIN Place[type] : Kind(g) # "list" /\ Bit(f) = Bit(g) => f = g
<1>1. /\ BitsAgree(type) /\ ClearAgrees(type) /\ MergeAgrees(type) /\ SizeAgrees(type)
      /\ IsOneof => CopyAgrees(type)
  BY TablesAgree DEF Typed, Agrees, IsOneof
<1> DEFINE F == IndexFields[type]
           i == Place[type][f]
<1>2. i \in DOMAIN F /\ F[i].name = f /\ F[i].kind # "list"
  BY PlaceOf
<1>3. IndexMarks[type][f] = Bit(f)
  BY <1>1, <1>2 DEF BitsAgree, Bit
<1>4. Loose(IndexCleared[type][f], Bit(f))
  BY <1>1, <1>2 DEF ClearAgrees, Bit
<1>5. Exact(IndexMerged[type][f], Bit(f))
  BY <1>1, <1>2 DEF MergeAgrees, Bit
<1>6. Exact(IndexSized[type][f][1], Bit(f))
  BY <1>1, <1>2 DEF SizeAgrees, Bit
<1>7. IsOneof => Exact(IndexCopied[type][f], Bit(f))
  BY <1>1, <1>2 DEF CopyAgrees, Bit
<1>8. ASSUME NEW g \in DOMAIN Place[type], Kind(g) # "list", Bit(f) = Bit(g)
      PROVE  f = g
  <2> DEFINE j == Place[type][g]
  <2>1. j \in DOMAIN F /\ F[j].name = g /\ F[j].kind # "list"
    BY <1>8, PlaceOf
  <2>2. i = j
    BY <1>1, <1>2, <1>8, <2>1 DEF BitsAgree, Bit
  <2>3. QED
    BY <1>2, <2>1, <2>2
<1>9. QED
  BY <1>3, <1>4, <1>5, <1>6, <1>7, <1>8

\* A list has no bit, and Clear and MergeFrom take it untested.
LEMMA MasksOfList ==
  ASSUME Typed, NEW f \in DOMAIN Place[type], Kind(f) = "list"
  PROVE  /\ Free(IndexCleared[type][f])
         /\ Free(IndexMerged[type][f])
<1>1. ClearAgrees(type) /\ MergeAgrees(type)
  BY TablesAgree DEF Typed, Agrees
<1>2. QED
  BY <1>1, PlaceOf DEF ClearAgrees, MergeAgrees

\* The blocks that are zeroed, copied and swapped hold every member they have to.
LEMMA BlocksOfField ==
  ASSUME Typed, NEW f \in DOMAIN Place[type], ~IsOneof
  PROVE  /\ Kind(f) \in {"scalar", "sub"} => /\ Within(f, IndexBuilt[type].zeroed)
                                             /\ Within(f, IndexSwapped[type])
         /\ Kind(f) = "scalar" =>
              /\ Within(f, IndexBuilt[type].copied)
              /\ IndexOred[type] # {} => Bit(f) \in IndexOred[type]
<1> DEFINE F == IndexFields[type]
           i == Place[type][f]
<1>1. BlocksAgree(type)
  BY TablesAgree DEF Typed, Agrees, IsOneof
<1>2. i \in DOMAIN F /\ F[i].name = f /\ F[i].kind = Kind(f)
  BY PlaceOf
<1>3. ASSUME NEW ends, InBlock(type, i, ends) PROVE Within(f, ends)
  BY <1>3, PlaceOfName DEF InBlock, Within
<1>4. QED
  BY <1>1, <1>2, <1>3 DEF BlocksAgree, Bit

\* Without masks there is nothing to fail.
LEMMA PassesFree == ASSUME NEW masks, NEW has, Free(masks) PROVE Passes(masks, has)
  BY DEF Passes, Free
\* A test of masks that all have the bit passes when it is set.
LEMMA PassesLoose ==
  ASSUME NEW masks, NEW has, NEW bit \in has, Loose(masks, bit)
  PROVE  Passes(masks, has)
  BY DEF Passes, Loose
\* A test of the bit alone passes exactly when it is set.
LEMMA PassesExact ==
  ASSUME NEW masks, NEW has, NEW bit, Exact(masks, bit)
  PROVE  Passes(masks, has) <=> bit \in has
  BY DEF Passes, Exact
-----------------------------------------------------------------------------
(* Sound messages *)

\* A message is a record of has bits, members and a number of unknown fields.
Shape(m) ==
  /\ m = [has |-> m.has, val |-> [f \in focus |-> m.val[f]], unknown |-> m.unknown]
  /\ m.has \subseteq {Bit(f) : f \in focus \ Of("list")}
  /\ m.unknown \in Nat

\* The values of a field that is there; no bound on a list yet.
Full(f) == CASE Kind(f) = "list" -> Seq(Elem)
             [] Kind(f) = "sub"  -> SUBSET Part
             [] Kind(f) \in {"scalar", "text"} -> {0, 1}

\* A member whose bit is not set reads as the default, although a message may have
\* kept its memory; one whose bit is set has a value, and so no null pointer.
FieldSound(m, f) ==
  IF Kind(f) = "list" \/ Bit(f) \in m.has THEN m.val[f] \in Full(f)
  ELSE IF Kind(f) = "sub" THEN m.val[f] \in {NULL, {}}
  ELSE m.val[f] = 0

\* At most one case of a oneof is set.
OneCase(m) == IsOneof => \A f, g \in focus : Bit(f) \in m.has /\ Bit(g) \in m.has => f = g

\* What every function of a message relies on and provides: the inductive part of the
\* invariant.
Sound(m) == Shape(m) /\ OneCase(m) /\ \A f \in focus : FieldSound(m, f)

\* The fields followed are fields of the type.
LEMMA FocusInType == ASSUME Typed, NEW f \in focus PROVE f \in DOMAIN Place[type]
  BY DEF Typed

\* The same of the fields followed.
LEMMA Kinds ==
  ASSUME Typed, NEW f \in focus
  PROVE  /\ Kind(f) \in {"scalar", "text", "sub", "list"}
         /\ IsOneof => Kind(f) = "sub"
  BY KindOfField, FocusInType

\* Different fields have different bits.
LEMMA Bits ==
  ASSUME Typed, NEW f \in focus, NEW g \in focus, Kind(f) # "list", Kind(g) # "list", Bit(f) = Bit(g)
  PROVE  f = g
  BY BitOfField, FocusInType

\* Full and Default by kind.
LEMMA FullField ==
  ASSUME Typed, NEW f \in focus
  PROVE  /\ Kind(f) = "list" => Full(f) = Seq(Elem)
         /\ Kind(f) = "sub" => Full(f) = SUBSET Part
         /\ Kind(f) \in {"scalar", "text"} => Full(f) = {0, 1}
  BY Kinds DEF Full

\* The default instance of each kind.
LEMMA DefaultField ==
  ASSUME Typed, NEW f \in focus
  PROVE  /\ Kind(f) = "list" => Default(f) = <<>>
         /\ Kind(f) = "sub" => Default(f) = NULL
         /\ Kind(f) \in {"scalar", "text"} => Default(f) = 0
  BY Kinds DEF Default

\* What the accessors of a sound message read.
LEMMA SoundReads ==
  ASSUME Typed, NEW m, Sound(m), NEW f \in focus
  PROVE  /\ Get(m, f) \in Full(f)
         /\ Kind(f) # "list" /\ Bit(f) \notin m.has => Get(m, f) = IF Kind(f) = "sub" THEN {} ELSE 0
         /\ Kind(f) = "list" \/ Bit(f) \in m.has => Get(m, f) = m.val[f]
<1>1. FieldSound(m, f)
  BY DEF Sound
<1>2. CASE Kind(f) = "sub"
  <2>1. Full(f) = SUBSET Part
    BY <1>2, FullField
  <2>2. QED
    BY <1>1, <1>2, <2>1, NullAssumption DEF FieldSound, Get
<1>3. CASE Kind(f) = "list"
  <2>1. Get(m, f) = m.val[f]
    BY <1>3 DEF Get
  <2>2. QED
    BY <1>1, <1>3, <2>1 DEF FieldSound
<1>4. CASE Kind(f) \in {"scalar", "text"}
  <2>1. Get(m, f) = m.val[f] /\ Full(f) = {0, 1}
    BY <1>4, FullField DEF Get
  <2>2. QED
    BY <1>1, <1>4, <2>1 DEF FieldSound
<1>5. QED
  BY <1>2, <1>3, <1>4, Kinds

\* A message just made is sound.
LEMMA BlankSound == ASSUME Typed PROVE Sound(Blank)
<1>1. Shape(Blank) /\ OneCase(Blank)
  BY DEF Shape, OneCase, Blank
<1>2. ASSUME NEW f \in focus PROVE FieldSound(Blank, f)
  <2>1. Blank.has = {} /\ Blank.val[f] = Default(f)
    BY DEF Blank
  <2>2. Kind(f) = "list" => <<>> \in Full(f)
    BY FullField, EmptySeq
  <2>3. QED
    BY <2>1, <2>2, DefaultField, Kinds DEF FieldSound
<1>3. QED
  BY <1>1, <1>2 DEF Sound

\* The parts of a sound message.
LEMMA SoundShape ==
  ASSUME NEW m, Sound(m)
  PROVE  /\ DOMAIN m = {"has", "val", "unknown"}
         /\ DOMAIN m.val = focus
         /\ m.has \subseteq {Bit(f) : f \in focus \ Of("list")}
         /\ m.unknown \in Nat
<1>1. m = [has |-> m.has, val |-> [f \in focus |-> m.val[f]], unknown |-> m.unknown]
  BY DEF Sound, Shape
<1>2. DOMAIN m = {"has", "val", "unknown"}
  BY <1>1
<1>3. m.val = [f \in focus |-> m.val[f]]
  BY <1>1
<1>4. QED
  BY <1>2, <1>3 DEF Sound, Shape

\* What Put makes of a sound message.
LEMMA PutIs ==
  ASSUME Typed, NEW m, Sound(m), NEW f \in focus, NEW v
  PROVE  Put(m, f, Bit(f), v) =
           [has |-> {Bit(f)} \union (IF IsOneof THEN {} ELSE m.has),
            val |-> [g \in focus |-> IF g = f THEN v ELSE IF IsOneof THEN Default(g) ELSE m.val[g]],
            unknown |-> m.unknown]
<1>1. m = [has |-> m.has, val |-> [g \in focus |-> m.val[g]], unknown |-> m.unknown]
  BY DEF Sound, Shape
<1>2. CASE IsOneof
  BY <1>2 DEF Put, Blank
<1>3. CASE ~IsOneof
  <2>1. Put(m, f, Bit(f), v) = [m EXCEPT !.has = @ \union {Bit(f)}, !.val[f] = v]
    BY <1>3 DEF Put
  <2>2. @ = [has |-> m.has \union {Bit(f)}, val |-> [m.val EXCEPT ![f] = v],
             unknown |-> m.unknown]
    BY <2>1, SoundShape, <1>1
  <2>3. [m.val EXCEPT ![f] = v] = [g \in focus |-> IF g = f THEN v ELSE m.val[g]]
    BY SoundShape
  <2>4. QED
    BY <1>3, <2>1, <2>2, <2>3
<1>4. QED
  BY <1>2, <1>3

\* Setting a member to one of its values keeps a message sound.
LEMMA PutSound ==
  ASSUME Typed, NEW m, Sound(m), NEW f \in focus, Kind(f) # "list", NEW v \in Full(f)
  PROVE  Sound(Put(m, f, Bit(f), v))
<1> DEFINE n == [has |-> {Bit(f)} \union (IF IsOneof THEN {} ELSE m.has),
                 val |-> [g \in focus |-> IF g = f THEN v ELSE IF IsOneof THEN Default(g) ELSE m.val[g]],
                 unknown |-> m.unknown]
<1>1. Put(m, f, Bit(f), v) = n
  BY PutIs
<1>2. Shape(n)
  BY SoundShape DEF Shape, Of
<1>3. OneCase(n)
  <2>1. SUFFICES ASSUME IsOneof, NEW g \in focus, NEW h \in focus, Bit(g) \in n.has, Bit(h) \in n.has
                 PROVE  g = h
    BY DEF OneCase
  <2>2. Bit(g) = Bit(f) /\ Bit(h) = Bit(f)
    BY <2>1
  <2>3. Kind(f) # "list" /\ Kind(g) # "list" /\ Kind(h) # "list"
    BY <2>1, Kinds
  <2>4. QED
    BY <2>2, <2>3, Bits
<1>4. ASSUME NEW g \in focus PROVE FieldSound(n, g)
  <2>1. CASE g = f
    BY <2>1 DEF FieldSound
  <2>2. CASE g # f /\ IsOneof
    <3>1. Kind(g) = "sub" /\ n.val[g] = NULL
      BY <2>2, Kinds, DefaultField
    <3>2. Bit(g) \notin n.has
      BY <2>2, <3>1, Bits
    <3>3. QED
      BY <3>1, <3>2 DEF FieldSound
  <2>3. CASE g # f /\ ~IsOneof
    <3>1. n.val[g] = m.val[g]
      BY <2>3
    <3>2. Kind(g) # "list" => (Bit(g) \in n.has <=> Bit(g) \in m.has)
      BY <2>3, Bits
    <3>3. FieldSound(m, g)
      BY DEF Sound
    <3>4. QED
      BY <3>1, <3>2, <3>3 DEF FieldSound
  <2>4. QED
    BY <2>1, <2>2, <2>3
<1>5. QED
  BY <1>1, <1>2, <1>3, <1>4 DEF Sound
-----------------------------------------------------------------------------
(* One message from another *)

\* A value on top of another is a value again.
LEMMA OnTopFull ==
  ASSUME Typed, NEW m, Sound(m), NEW f \in focus, NEW v \in Full(f)
  PROVE  OnTop(f, m.val[f], v) \in Full(f)
<1>1. FieldSound(m, f)
  BY DEF Sound
<1>2. CASE Kind(f) = "sub"
  BY <1>1, <1>2, FullField DEF FieldSound, OnTop
<1>3. CASE Kind(f) = "list"
  <2>1. m.val[f] \in Seq(Elem) /\ v \in Seq(Elem)
    BY <1>1, <1>3, FullField DEF FieldSound
  <2>2. OnTop(f, m.val[f], v) = m.val[f] \o v
    BY <1>3 DEF OnTop
  <2>3. m.val[f] \o v \in Seq(Elem)
    BY <2>1, ConcatProperties
  <2>4. QED
    BY <1>3, <2>2, <2>3, FullField
<1>4. CASE Kind(f) \in {"scalar", "text"}
  BY <1>4 DEF OnTop
<1>5. QED
  BY <1>2, <1>3, <1>4, Kinds

\* A value on top of what a cleared or absent member holds is that value.
LEMMA OnTopOfNothing ==
  ASSUME Typed, NEW m, Sound(m), NEW f \in focus, NEW v \in Full(f),
         IF Kind(f) = "list" THEN m.val[f] = <<>> ELSE Bit(f) \notin m.has
  PROVE  OnTop(f, m.val[f], v) = v
<1>1. FieldSound(m, f)
  BY DEF Sound
<1>2. CASE Kind(f) = "sub"
  BY <1>1, <1>2, FullField DEF FieldSound, OnTop
<1>3. CASE Kind(f) = "list"
  <2>1. v \in Seq(Elem)
    BY <1>3, FullField
  <2>2. OnTop(f, m.val[f], v) = <<>> \o v
    BY <1>3 DEF OnTop
  <2>3. QED
    BY <2>1, <2>2, ConcatEmptySeq
<1>4. CASE Kind(f) \in {"scalar", "text"}
  BY <1>4 DEF OnTop
<1>5. QED
  BY <1>2, <1>3, <1>4, Kinds

\* Clear leaves no bit, no unknown field and no list, though it tests masks first.
LEMMA ClearedIs ==
  ASSUME Typed, NEW m, Sound(m)
  PROVE  /\ Sound(ClearedMessage(m))
         /\ ClearedMessage(m).has = {}
         /\ ClearedMessage(m).unknown = 0
         /\ \A f \in focus : Kind(f) = "list" => ClearedMessage(m).val[f] = <<>>
<1> DEFINE c == ClearedMessage(m)
<1>1. c = [has |-> {}, unknown |-> 0,
           val |-> [f \in focus |-> IF Passes(IndexCleared[type][f], m.has)
                                    THEN Emptied(f, m.val[f]) ELSE m.val[f]]]
  BY DEF ClearedMessage
<1>2. Shape(c) /\ OneCase(c)
  BY <1>1 DEF Shape, OneCase
<1>3. ASSUME NEW f \in focus
      PROVE  FieldSound(c, f) /\ (Kind(f) = "list" => c.val[f] = <<>>)
  <2>1. c.val[f] = IF Passes(IndexCleared[type][f], m.has) THEN Emptied(f, m.val[f])
                   ELSE m.val[f]
    BY <1>1
  <2>2. Bit(f) \notin c.has
    BY <1>1
  <2>3. CASE Kind(f) = "list"
    <3>1. Passes(IndexCleared[type][f], m.has)
      BY <2>3, MasksOfList, FocusInType, PassesFree
    <3>2. c.val[f] = <<>>
      BY <2>1, <2>3, <3>1, DefaultField DEF Emptied
    <3>3. <<>> \in Full(f)
      BY <2>3, FullField, EmptySeq
    <3>4. QED
      BY <2>3, <3>2, <3>3 DEF FieldSound
  <2>4. CASE Kind(f) # "list"
    <3>1. Passes(IndexCleared[type][f], m.has) \/ Bit(f) \notin m.has
      BY <2>4, BitOfField, FocusInType, PassesLoose
    <3>2. FieldSound(m, f)
      BY DEF Sound
    <3>3. CASE Kind(f) = "sub"
      <4>1. Emptied(f, m.val[f]) \in {NULL, {}}
        BY <3>3, DefaultField DEF Emptied
      <4>2. c.val[f] \in {NULL, {}}
        BY <2>1, <3>1, <3>2, <3>3, <4>1 DEF FieldSound
      <4>3. QED
        BY <2>2, <3>3, <4>2 DEF FieldSound
    <3>4. CASE Kind(f) \in {"scalar", "text"}
      <4>1. Emptied(f, m.val[f]) = 0
        BY <3>4, DefaultField DEF Emptied
      <4>2. c.val[f] = 0
        BY <2>1, <3>1, <3>2, <3>4, <4>1 DEF FieldSound
      <4>3. QED
        BY <2>2, <3>4, <4>2 DEF FieldSound
    <3>5. QED
      BY <2>4, <3>3, <3>4, Kinds
  <2>5. QED
    BY <2>3, <2>4
<1>4. c.has = {} /\ c.unknown = 0
  BY <1>1
<1>5. Sound(c)
  BY <1>2, <1>3 DEF Sound
<1>6. QED
  BY <1>3, <1>4, <1>5

\* SharedCtor zeroes every member that has no constructor of its own.
LEMMA BuiltIs == ASSUME Typed PROVE BuiltMessage = Blank
<1>1. CASE IsOneof
  BY <1>1 DEF BuiltMessage
<1>2. CASE ~IsOneof
  <2>1. ASSUME NEW f \in Of("scalar") \union Of("sub")
        PROVE  Within(f, IndexBuilt[type].zeroed)
    BY <1>2, BlocksOfField, FocusInType DEF Of
  <2>2. BuiltMessage = [Blank EXCEPT !.val = [f \in focus |-> Default(f)]]
    BY <1>2, <2>1 DEF BuiltMessage
  <2>3. QED
    BY <2>2 DEF Blank
<1>3. QED
  BY <1>1, <1>2

\* InternalSwap swaps every member.
LEMMA SwappedIs == ASSUME Typed, NEW m, NEW n, Sound(n) PROVE SwappedMessage(m, n) = n
<1>1. ASSUME NEW f \in focus
      PROVE  IsOneof \/ Kind(f) \in {"list", "text"} \/ Within(f, IndexSwapped[type])
  BY Kinds, BlocksOfField, FocusInType
<1>2. SwappedMessage(m, n) = [has |-> n.has, unknown |-> n.unknown, val |-> [f \in focus |-> n.val[f]]]
  BY <1>1 DEF SwappedMessage
<1>3. n = [has |-> n.has, val |-> [f \in focus |-> n.val[f]], unknown |-> n.unknown]
  BY DEF Sound, Shape
<1>4. QED
  BY <1>2, <1>3

\* The copy has the same bits and reads the same everywhere.
LEMMA CopiedIs ==
  ASSUME Typed, NEW n, Sound(n)
  PROVE  LET c == CopiedMessage(n) IN
         /\ Sound(c)
         /\ c.has = n.has
         /\ c.unknown = n.unknown
         /\ \A f \in focus : Kind(f) = "list" \/ Bit(f) \in n.has => c.val[f] = n.val[f]
<1> DEFINE c == CopiedMessage(n)
<1>1. CASE IsOneof
  <2> DEFINE taken == {f \in focus : Passes(IndexCopied[type][f], n.has)}
  <2>1. ASSUME NEW f \in focus PROVE f \in taken <=> Bit(f) \in n.has
    BY <1>1, Kinds, BitOfField, FocusInType, PassesExact
  <2>2. c = [has |-> {Bit(f) : f \in taken}, unknown |-> n.unknown,
             val |-> [f \in focus |-> IF f \in taken THEN Get(n, f) ELSE NULL]]
    BY <1>1 DEF CopiedMessage, Bit
  <2>3. c.has = n.has
    <3>1. n.has \subseteq {Bit(f) : f \in focus}
      BY SoundShape
    <3>2. {Bit(f) : f \in taken} = n.has
      BY <2>1, <3>1
    <3>3. QED
      BY <2>2, <3>2
  <2>4. ASSUME NEW f \in focus
        PROVE  /\ Bit(f) \in n.has => c.val[f] = n.val[f]
               /\ FieldSound(c, f)
    <3>1. Kind(f) = "sub"
      BY <1>1, Kinds
    <3>2. Bit(f) \in n.has => c.val[f] = n.val[f]
      BY <2>1, <2>2, SoundReads
    <3>3. Bit(f) \notin n.has => c.val[f] = NULL
      BY <2>1, <2>2
    <3>4. FieldSound(n, f)
      BY DEF Sound
    <3>5. QED
      BY <2>3, <3>1, <3>2, <3>3, <3>4 DEF FieldSound
  <2>5. Shape(c) /\ OneCase(c)
    <3>1. c.unknown = n.unknown
      BY <2>2
    <3>2. c = [has |-> c.has, val |-> [f \in focus |-> c.val[f]], unknown |-> c.unknown]
      BY <2>2
    <3>3. Shape(c)
      BY <2>3, <3>1, <3>2, SoundShape DEF Shape
    <3>4. OneCase(c)
      BY <2>3 DEF Sound, OneCase
    <3>5. QED
      BY <3>3, <3>4
  <2>6. ASSUME NEW f \in focus PROVE Kind(f) # "list"
    BY <1>1, Kinds
  <2>7. c.unknown = n.unknown
    BY <2>2
  <2>8. QED
    BY <2>3, <2>4, <2>5, <2>6, <2>7 DEF Sound
<1>2. CASE ~IsOneof
  <2> DEFINE Val(f) == CASE Kind(f) = "list" -> n.val[f]
            [] Kind(f) \in {"text", "sub"} ->
                 IF IndexBits[type][f] \in n.has THEN n.val[f] ELSE Default(f)
            [] Kind(f) = "scalar" ->
                 IF Within(f, IndexBuilt[type].copied) THEN n.val[f] ELSE 1
  <2>1. c = [has |-> n.has, unknown |-> n.unknown, val |-> [f \in focus |-> Val(f)]]
    BY <1>2 DEF CopiedMessage
  <2> HIDE DEF c, Val
  <2>2. ASSUME NEW f \in focus
        PROVE  /\ Kind(f) = "list" \/ Bit(f) \in n.has => c.val[f] = n.val[f]
               /\ FieldSound(c, f)
    <3>1. c.val[f] = Val(f) /\ c.has = n.has
      BY <2>1
    <3>2. FieldSound(n, f)
      BY DEF Sound
    <3>3. CASE Kind(f) = "list"
      BY <3>1, <3>2, <3>3 DEF FieldSound, Val
    <3>4. CASE Kind(f) \in {"text", "sub"}
      <4>1. Val(f) = IF Bit(f) \in n.has THEN n.val[f] ELSE Default(f)
        BY <3>4 DEF Bit, Val
      <4>2. QED
        BY <3>1, <3>2, <3>4, <4>1, DefaultField DEF FieldSound
    <3>5. CASE Kind(f) = "scalar"
      <4>1. Val(f) = n.val[f]
        BY <1>2, <3>5, BlocksOfField, FocusInType DEF Val
      <4>2. QED
        BY <3>1, <3>2, <3>5, <4>1 DEF FieldSound
    <3>6. QED
      BY <3>3, <3>4, <3>5, Kinds
  <2>3. c.has = n.has /\ c.unknown = n.unknown
    BY <2>1
  <2>4. c = [has |-> c.has, val |-> [f \in focus |-> c.val[f]], unknown |-> c.unknown]
    BY <2>1
  <2>5. Shape(c)
    BY <2>3, <2>4, SoundShape DEF Shape
  <2>6. OneCase(c)
    BY <1>2 DEF OneCase
  <2>7. QED
    BY <2>2, <2>3, <2>5, <2>6 DEF Sound, c
<1>3. QED
  BY <1>1, <1>2
-----------------------------------------------------------------------------
(* Merging *)

\* The fields among F that a message brings to one it is merged or parsed into.
Taken(n, F) == {f \in focus \cap F : Kind(f) = "list" \/ Bit(f) \in n.has}

\* A message with those fields on top of its own.
Overlay(m, n, F) ==
  IF IsOneof
  THEN IF Taken(n, F) = {} THEN m
       ELSE LET f == CHOOSE g \in Taken(n, F) : TRUE
            IN Put(m, f, Bit(f), OnTop(f, m.val[f], Get(n, f)))
  ELSE [has |-> m.has \union {Bit(f) : f \in Taken(n, F) \ Of("list")},
        val |-> [f \in focus |-> IF f \in Taken(n, F) THEN OnTop(f, m.val[f], Get(n, f))
                                 ELSE m.val[f]],
        unknown |-> m.unknown]

\* A oneof brings one field at most.
LEMMA OneTaken ==
  ASSUME Typed, NEW n, Sound(n), NEW F, IsOneof, NEW f \in Taken(n, F), NEW g \in Taken(n, F)
  PROVE  f = g
<1>1. f \in focus /\ g \in focus /\ Kind(f) # "list" /\ Kind(g) # "list"
  BY Kinds DEF Taken
<1>2. QED
  BY <1>1 DEF Taken, Sound, OneCase

\* The merged message is sound again.
LEMMA OverlaySound ==
  ASSUME Typed, NEW m, Sound(m), NEW n, Sound(n), NEW F
  PROVE  /\ Sound(Overlay(m, n, F))
         /\ Overlay(m, n, F).unknown = m.unknown
<1>1. CASE IsOneof
  <2>1. CASE Taken(n, F) = {}
    BY <1>1, <2>1 DEF Overlay
  <2>2. CASE Taken(n, F) # {}
    <3> DEFINE f == CHOOSE g \in Taken(n, F) : TRUE
               v == OnTop(f, m.val[f], Get(n, f))
    <3>1. f \in focus
      BY <2>2 DEF Taken
    <3>2. Overlay(m, n, F) = Put(m, f, Bit(f), v)
      BY <1>1, <2>2 DEF Overlay
    <3> HIDE DEF f
    <3>3. Kind(f) # "list"
      BY <1>1, <3>1, Kinds
    <3>4. v \in Full(f)
      BY <3>1, SoundReads, OnTopFull
    <3> HIDE DEF v
    <3>5. Sound(Put(m, f, Bit(f), v))
      BY <3>1, <3>3, <3>4, PutSound
    <3>6. Put(m, f, Bit(f), v).unknown = m.unknown
      BY <3>1, PutIs
    <3>7. QED
      BY <3>2, <3>5, <3>6
  <2>3. QED
    BY <2>1, <2>2
<1>2. CASE ~IsOneof
  <2> DEFINE r == Overlay(m, n, F)
  <2>1. r = [has |-> m.has \union {Bit(f) : f \in Taken(n, F) \ Of("list")},
             val |-> [f \in focus |-> IF f \in Taken(n, F) THEN OnTop(f, m.val[f], Get(n, f))
                                      ELSE m.val[f]],
             unknown |-> m.unknown]
    BY <1>2 DEF Overlay
  <2> HIDE DEF r
  <2>2. r.unknown = m.unknown
    BY <2>1
  <2>3. Shape(r)
    <3>1. r = [has |-> r.has, val |-> [f \in focus |-> r.val[f]], unknown |-> r.unknown]
      BY <2>1
    <3>2. r.has \subseteq {Bit(f) : f \in focus \ Of("list")}
      BY <2>1, SoundShape DEF Taken
    <3>3. QED
      BY <2>2, <3>1, <3>2, SoundShape DEF Shape
  <2>4. OneCase(r)
    BY <1>2 DEF OneCase
  <2>5. ASSUME NEW f \in focus PROVE FieldSound(r, f)
    <3>1. CASE f \in Taken(n, F)
      <4>1. r.val[f] = OnTop(f, m.val[f], Get(n, f))
        BY <2>1, <3>1
      <4>2. Get(n, f) \in Full(f)
        BY SoundReads
      <4>3. r.val[f] \in Full(f)
        BY <4>1, <4>2, OnTopFull
      <4>4. Kind(f) = "list" \/ Bit(f) \in r.has
        BY <2>1, <3>1 DEF Of
      <4>5. QED
        BY <4>3, <4>4 DEF FieldSound
    <3>2. CASE f \notin Taken(n, F)
      <4>1. r.val[f] = m.val[f]
        BY <2>1, <3>2
      <4>2. Kind(f) # "list" => (Bit(f) \in r.has <=> Bit(f) \in m.has)
        <5>1. SUFFICES ASSUME Kind(f) # "list", Bit(f) \in {Bit(g) : g \in Taken(n, F) \ Of("list")}
                       PROVE  FALSE
          BY <2>1
        <5>2. PICK g \in Taken(n, F) \ Of("list") : Bit(f) = Bit(g)
          BY <5>1
        <5>3. g \in focus /\ Kind(g) # "list"
          BY DEF Taken, Of
        <5>4. f = g
          BY <5>1, <5>2, <5>3, Bits
        <5>5. QED
          BY <3>2, <5>4
      <4>3. FieldSound(m, f)
        BY DEF Sound
      <4>4. QED
        BY <4>1, <4>2, <4>3 DEF FieldSound
    <3>3. QED
      BY <3>1, <3>2
  <2>6. QED
    BY <2>2, <2>3, <2>4, <2>5 DEF Sound, r
<1>3. QED
  BY <1>1, <1>2

\* More unknown fields change nothing else.
LEMMA WithUnknown ==
  ASSUME NEW m, Sound(m), NEW k \in Nat
  PROVE  LET r == [m EXCEPT !.unknown = @ + k] IN
         /\ Sound(r)
         /\ r.has = m.has
         /\ r.val = m.val
         /\ r.unknown = m.unknown + k
         /\ r = [has |-> m.has, val |-> m.val, unknown |-> m.unknown + k]
<1> DEFINE r == [m EXCEPT !.unknown = @ + k]
<1>1. m = [has |-> m.has, val |-> [f \in focus |-> m.val[f]], unknown |-> m.unknown]
  BY DEF Sound, Shape
<1>2. r = [has |-> m.has, val |-> m.val, unknown |-> m.unknown + k]
  BY <1>1
<1> HIDE DEF r
<1>3. r.has = m.has /\ r.val = m.val /\ r.unknown = m.unknown + k
  BY <1>2
<1>4. m.val = [f \in focus |-> m.val[f]]
  BY <1>1
<1>5. r = [has |-> r.has, val |-> [f \in focus |-> r.val[f]], unknown |-> r.unknown]
  BY <1>2, <1>3, <1>4
<1>6. Shape(r)
  BY <1>3, <1>5, SoundShape DEF Shape
<1>7. OneCase(r)
  BY <1>3 DEF Sound, OneCase
<1>8. ASSUME NEW f \in focus PROVE FieldSound(r, f)
  BY <1>3 DEF Sound, FieldSound
<1>9. Sound(r)
  BY <1>6, <1>7, <1>8 DEF Sound
<1>10. QED
  BY <1>2, <1>3, <1>9 DEF r

\* The bits MergeFrom leaves are those of either message.
LEMMA MergedBitsAre ==
  ASSUME Typed, ~IsOneof, NEW m, Sound(m), NEW n, Sound(n)
  PROVE  MergedBits(m, n) = n.has
<1> DEFINE taken == {f \in focus \ Of("list") : Passes(IndexMerged[type][f], n.has)}
           own   == IF IndexOred[type] = {} THEN taken ELSE taken \ Of("scalar")
           kept  == IF IndexOred[type] \cap n.has # {} THEN n.has ELSE {}
<1>1. MergedBits(m, n) = {Bit(f) : f \in own} \union kept
  BY DEF MergedBits, Bit
<1>2. ASSUME NEW f \in focus \ Of("list") PROVE f \in taken <=> Bit(f) \in n.has
  <2>1. f \in DOMAIN Place[type] /\ Kind(f) # "list"
    BY FocusInType DEF Of
  <2>2. QED
    BY <2>1, BitOfField, PassesExact
<1>3. {Bit(f) : f \in own} \subseteq n.has
  BY <1>2
<1>4. ASSUME NEW b \in n.has PROVE b \in {Bit(f) : f \in own} \union kept
  <2>1. PICK f \in focus \ Of("list") : b = Bit(f)
    BY SoundShape
  <2>2. f \in taken
    BY <1>2, <2>1
  <2>3. CASE f \in own
    BY <2>1, <2>3
  <2>4. CASE f \notin own
    <3>1. IndexOred[type] # {} /\ Kind(f) = "scalar"
      BY <2>2, <2>4 DEF Of
    <3>2. Bit(f) \in IndexOred[type]
      BY <3>1, BlocksOfField, FocusInType
    <3>3. QED
      BY <2>1, <3>2
  <2>5. QED
    BY <2>3, <2>4
<1>5. QED
  BY <1>1, <1>3, <1>4

\* MergeFrom, whatever masks and bits it goes through, lays one message over the other.
LEMMA MergedIs ==
  ASSUME Typed, NEW m, Sound(m), NEW n, Sound(n)
  PROVE  MergedMessage(m, n) = [Overlay(m, n, focus) EXCEPT !.unknown = @ + n.unknown]
<1> DEFINE taken == {f \in focus : Passes(IndexMerged[type][f], n.has)}
<1>1. taken = Taken(n, focus)
  <2>1. ASSUME NEW f \in focus
        PROVE  Passes(IndexMerged[type][f], n.has) <=> (Kind(f) = "list" \/ Bit(f) \in n.has)
    <3>1. CASE Kind(f) = "list"
      BY <3>1, MasksOfList, FocusInType, PassesFree
    <3>2. CASE Kind(f) # "list"
      BY <3>2, BitOfField, FocusInType, PassesExact
    <3>3. QED
      BY <3>1, <3>2
  <2>2. QED
    BY <2>1 DEF Taken
<1>2. n.unknown \in Nat
  BY SoundShape
<1>3. CASE IsOneof
  <2> DEFINE m1 == [m EXCEPT !.unknown = @ + n.unknown]
  <2>1. CASE taken = {}
    BY <1>1, <1>3, <2>1 DEF MergedMessage, Overlay
  <2>2. CASE taken # {}
    <3> DEFINE f == CHOOSE g \in taken : TRUE
               v == OnTop(f, m.val[f], Get(n, f))
    <3>1. f \in focus
      BY <2>2
    <3>2. MergedMessage(m, n) = Put(m1, f, Bit(f), v)
      BY <1>3, <2>2 DEF MergedMessage, Bit
    <3>3. Overlay(m, n, focus) = Put(m, f, Bit(f), v)
      BY <1>1, <1>3, <2>2 DEF Overlay
    <3> HIDE DEF f, v
    <3>4. Sound(m1) /\ m1.has = m.has /\ m1.val = m.val /\ m1.unknown = m.unknown + n.unknown
      BY <1>2, WithUnknown
    <3> HIDE DEF m1
    <3> DEFINE has == {Bit(f)}
               val == [g \in focus |-> IF g = f THEN v ELSE Default(g)]
    <3>5. Put(m1, f, Bit(f), v) = [has |-> has, val |-> val, unknown |-> m.unknown + n.unknown]
      BY <1>3, <3>1, <3>4, PutIs
    <3>6. Put(m, f, Bit(f), v) = [has |-> has, val |-> val, unknown |-> m.unknown]
      BY <1>3, <3>1, PutIs
    <3> HIDE DEF has, val
    <3>7. QED
      BY <3>2, <3>3, <3>5, <3>6
  <2>3. QED
    BY <2>1, <2>2
<1>4. CASE ~IsOneof
  <2> DEFINE val == [f \in focus |-> IF f \in Taken(n, focus) THEN OnTop(f, m.val[f], Get(n, f))
                                     ELSE m.val[f]]
  <2>1. MergedMessage(m, n) = [has |-> m.has \union MergedBits(m, n), val |-> val,
                               unknown |-> m.unknown + n.unknown]
    BY <1>1, <1>4 DEF MergedMessage
  <2>2. MergedBits(m, n) = n.has
    BY <1>4, MergedBitsAre
  <2>3. {Bit(f) : f \in Taken(n, focus) \ Of("list")} = n.has
    BY SoundShape DEF Taken, Of
  <2>4. Overlay(m, n, focus) = [has |-> m.has \union n.has, val |-> val, unknown |-> m.unknown]
    BY <1>4, <2>3 DEF Overlay
  <2> DEFINE has == m.has \union n.has
  <2>5. /\ MergedMessage(m, n) = [has |-> has, val |-> val, unknown |-> m.unknown + n.unknown]
        /\ Overlay(m, n, focus) = [has |-> has, val |-> val, unknown |-> m.unknown]
    BY <2>1, <2>2, <2>4
  <2> HIDE DEF has, val
  <2>6. QED
    BY <2>5
<1>5. QED
  BY <1>3, <1>4

\* MergeFrom keeps messages sound and adds up the unknown fields.
LEMMA MergedSound ==
  ASSUME Typed, NEW m, Sound(m), NEW n, Sound(n)
  PROVE  /\ Sound(MergedMessage(m, n))
         /\ MergedMessage(m, n).unknown = m.unknown + n.unknown
<1> DEFINE r == Overlay(m, n, focus)
<1>1. Sound(r) /\ r.unknown = m.unknown
  BY OverlaySound
<1>2. n.unknown \in Nat
  BY SoundShape
<1> HIDE DEF r
<1>3. Sound([r EXCEPT !.unknown = @ + n.unknown])
      /\ [r EXCEPT !.unknown = @ + n.unknown].unknown = m.unknown + n.unknown
  BY <1>1, <1>2, WithUnknown
<1>4. QED
  BY <1>3, MergedIs DEF r
-----------------------------------------------------------------------------
(* The wire *)

\* The entries of _InternalSerialize in the order in which it writes, and their tags.
Entry(k) == IndexWritten[type][k]
EntryTag(k) == 8 * Entry(k)[2] + WireType(Entry(k)[1])

\* The fields whose case of the parser's switch reads a tag.
Known(tag) == {f \in focus : IndexParsed[type][f] = <<tag \div 8, tag % 256>>}

\* An entry has the number of its field and tests the bit of its field.
LEMMA EntryOf ==
  ASSUME Typed, NEW k \in DOMAIN IndexWritten[type]
  PROVE  LET f == Entry(k)[1] IN
         /\ f \in DOMAIN Place[type]
         /\ Entry(k)[2] = IndexFields[type][Place[type][f]].number
         /\ IF Kind(f) = "list" THEN Free(Entry(k)[3]) ELSE Exact(Entry(k)[3], Bit(f))
<1> DEFINE F == IndexFields[type]
           W == IndexWritten[type]
           f == W[k][1]
<1>1. WriteAgrees(type)
  BY TablesAgree DEF Typed, Agrees
<1>2. PICK i \in DOMAIN F : f = F[i].name
  BY <1>1 DEF WriteAgrees
<1>3. PICK j \in DOMAIN W : /\ W[j][1] = F[i].name
                            /\ W[j][2] = F[i].number
                            /\ IF F[i].kind = "list" THEN Free(W[j][3])
                               ELSE Exact(W[j][3], IndexBits[type][F[i].name])
  BY <1>1 DEF WriteAgrees
<1>4. j = k
  BY <1>1, <1>2, <1>3 DEF WriteAgrees
<1>5. f \in DOMAIN Place[type] /\ Place[type][f] = i
  BY <1>2, PlaceOfName
<1>6. Kind(f) = F[i].kind
  BY <1>5, PlaceOf
<1>7. QED
  BY <1>2, <1>3, <1>4, <1>5, <1>6 DEF Entry, Bit

\* Every field is written by one entry.
LEMMA EntriesDistinct ==
  ASSUME Typed
  PROVE  /\ DOMAIN IndexWritten[type] = 1..Len(IndexFields[type])
         /\ Len(IndexWritten[type]) = Len(IndexFields[type])
         /\ \A j, k \in DOMAIN IndexWritten[type] : Entry(j)[1] = Entry(k)[1] => j = k
         /\ \A f \in DOMAIN Place[type] : \E k \in DOMAIN IndexWritten[type] : Entry(k)[1] = f
<1>1. WriteAgrees(type)
  BY TablesAgree DEF Typed, Agrees
<1>2. ASSUME NEW f \in DOMAIN Place[type]
      PROVE  \E k \in DOMAIN IndexWritten[type] : Entry(k)[1] = f
  BY <1>1, PlaceOf DEF WriteAgrees, Entry
<1>3. QED
  BY <1>1, <1>2 DEF WriteAgrees, Entry

\* The tag of an entry is the one of its field, and of no other.
LEMMA KnownIs ==
  ASSUME Typed, NEW k \in DOMAIN IndexWritten[type]
  PROVE  Known(EntryTag(k)) = {Entry(k)[1]} \cap focus
<1> DEFINE F == IndexFields[type]
           f == Entry(k)[1]
           Tag(i) == 8 * F[i].number + (IF F[i].kind = "scalar" THEN 0 ELSE 2)
           i == Place[type][f]
<1>1. ParseAgrees(type) /\ FieldsAgree(type)
  BY TablesAgree DEF Typed, Agrees
<1>2. /\ f \in DOMAIN Place[type]
      /\ Entry(k)[2] = F[i].number
      /\ i \in DOMAIN F
      /\ F[i].name = f
      /\ F[i].kind = Kind(f)
  BY EntryOf, PlaceOf
<1>3. EntryTag(k) = Tag(i)
  BY <1>2 DEF EntryTag, WireType
<1>4. F[i].number \in 1..16
  BY <1>1, <1>2 DEF FieldsAgree
<1>5. Tag(i) \div 8 = F[i].number
  BY <1>4
<1>6. ASSUME NEW g \in focus
      PROVE  IndexParsed[type][g] = <<EntryTag(k) \div 8, EntryTag(k) % 256>> <=> g = f
  <2> DEFINE j == Place[type][g]
  <2>1. /\ j \in DOMAIN F
        /\ F[j].name = g
    BY PlaceOf, FocusInType
  <2>2. IndexParsed[type][g] = <<F[j].number, Tag(j) % 256>>
    BY <1>1, <2>1 DEF ParseAgrees
  <2>3. CASE g = f
    BY <1>3, <1>5, <2>2, <2>3
  <2>4. CASE g # f
    <3>1. F[i].number # F[j].number
      BY <1>1, <1>2, <2>1, <2>4 DEF FieldsAgree
    <3>2. EntryTag(k) \div 8 = F[i].number
      BY <1>3, <1>5
    <3> HIDE DEF Tag
    <3>3. IndexParsed[type][g] # <<EntryTag(k) \div 8, EntryTag(k) % 256>>
      BY <2>2, <3>1, <3>2
    <3>4. QED
      BY <2>4, <3>3
  <2>5. QED
    BY <2>3, <2>4
<1>7. QED
  BY <1>6 DEF Known

\* What is written of a message for an entry: its value if the bit is set.
LEMMA PieceIs ==
  ASSUME Typed, NEW n, Sound(n), NEW k \in DOMAIN IndexWritten[type]
  PROVE  LET f == Entry(k)[1]
             p == Piece(Entry(k), n)
         IN /\ p = [tag |-> EntryTag(k), items |-> p.items]
            /\ p.items = IF f \notin focus THEN <<>>
                         ELSE IF Kind(f) = "list" THEN n.val[f]
                         ELSE IF Bit(f) \in n.has THEN <<Get(n, f)>>
                         ELSE <<>>
<1> DEFINE f == Entry(k)[1]
           p == Piece(Entry(k), n)
<1>1. p = [tag |-> EntryTag(k),
           items |-> IF f \notin focus \/ ~Passes(Entry(k)[3], n.has) THEN <<>>
                     ELSE IF Kind(f) = "list" THEN n.val[f] ELSE <<Get(n, f)>>]
  BY DEF Piece, EntryTag
<1>2. Passes(Entry(k)[3], n.has) <=> (Kind(f) = "list" \/ Bit(f) \in n.has)
  <2>1. CASE Kind(f) = "list"
    BY <2>1, EntryOf, PassesFree
  <2>2. CASE Kind(f) # "list"
    BY <2>2, EntryOf, PassesExact
  <2>3. QED
    BY <2>1, <2>2
<1> HIDE DEF p, f
<1>3. p = [tag |-> EntryTag(k), items |-> p.items]
  BY <1>1
<1>4. p.items = IF f \notin focus \/ ~Passes(Entry(k)[3], n.has) THEN <<>>
                ELSE IF Kind(f) = "list" THEN n.val[f] ELSE <<Get(n, f)>>
  BY <1>1
<1>5. QED
  BY <1>2, <1>3, <1>4 DEF p, f

\* A list with more elements.
Longer(m, f, items) == [m EXCEPT !.val[f] = OnTop(f, @, items)]

\* A turn of the parser's loop reads nothing, a list, or another field.
LEMMA ParsedNothing ==
  ASSUME NEW m, NEW p, p.items = <<>>
  PROVE  ParsedPiece(m, p) = m
  BY DEF ParsedPiece

\* A turn of the loop that reads a list, and one that reads another field.
LEMMA ParsedItems ==
  ASSUME Typed, NEW m, NEW k \in DOMAIN IndexWritten[type], NEW p, p.tag = EntryTag(k),
         NEW f \in focus, f = Entry(k)[1], p.items # <<>>
  PROVE  /\ Kind(f) = "list" => ParsedPiece(m, p) = Longer(m, f, p.items)
         /\ Kind(f) # "list" =>
              ParsedPiece(m, p) = Put(m, f, Bit(f), OnTop(f, m.val[f], p.items[1]))
<1> DEFINE known == {g \in focus : IndexParsed[type][g] = <<p.tag \div 8, p.tag % 256>>}
           h     == CHOOSE g \in known : TRUE
           bit   == IF Kind(h) = "scalar" THEN IndexMarks[type][h] ELSE IndexBits[type][h]
<1>1. known = {f}
  BY KnownIs DEF Known
<1>2. h = f
  BY <1>1
<1>3. ParsedPiece(m, p) =
        IF p.items = <<>> THEN m
        ELSE IF known = {} THEN [m EXCEPT !.unknown = @ + Len(p.items)]
        ELSE IF Kind(h) = "list" THEN [m EXCEPT !.val[h] = OnTop(h, @, p.items)]
        ELSE Put(m, h, bit, OnTop(h, m.val[h], p.items[1]))
  BY DEF ParsedPiece
<1>4. Kind(f) # "list" => bit = Bit(f)
  BY <1>2, BitOfField, FocusInType DEF Bit
<1> HIDE DEF known, h, bit
<1>5. QED
  BY <1>1, <1>2, <1>3, <1>4 DEF Longer
-----------------------------------------------------------------------------
(* Parsing is merging *)

\* A set of natural numbers has a least one.
LEMMA LeastNat ==
  ASSUME NEW T, T \subseteq Nat, T # {}
  PROVE  \E n \in T : \A k \in T : n <= k
<1>1. IsWellFoundedOn(OpToRel(<, Nat), Nat)
  BY NatLessThanWellFounded
<1>2. PICK n \in T : \A k \in T : ~ (<<k, n>> \in OpToRel(<, Nat))
  BY <1>1, WFMin
<1>3. ASSUME NEW k \in T PROVE n <= k
  <2>1. <<k, n>> \notin OpToRel(<, Nat)
    BY <1>2
  <2>2. k \in Nat /\ n \in Nat
    OBVIOUS
  <2>3. ~ (k < n)
    BY <2>1, <2>2 DEF OpToRel
  <2>4. QED
    BY <2>2, <2>3
<1>4. QED
  BY <1>3

\* Induction, for a set of numbers.
LEMMA NatInductive ==
  ASSUME NEW T, 0 \in T, \A n \in Nat : n \in T => n + 1 \in T
  PROVE  Nat \subseteq T
<1>1. SUFFICES ASSUME Nat \ T # {} PROVE FALSE
  OBVIOUS
<1>2. PICK n \in Nat \ T : \A k \in Nat \ T : n <= k
  BY <1>1, LeastNat
<1>3. n # 0
  OBVIOUS
<1>4. n - 1 \in Nat /\ n - 1 \notin Nat \ T
  BY <1>2, <1>3
<1>5. (n - 1) + 1 = n
  OBVIOUS
<1>6. QED
  BY <1>4, <1>5

\* The fields of the first k entries.
Upto(k) == {Entry(j)[1] : j \in 1..k}

\* No field brought, nothing changed.
LEMMA OverlayNothing ==
  ASSUME Typed, NEW m, Sound(m), NEW n, Sound(n)
  PROVE  Overlay(m, n, {}) = m
<1>1. Taken(n, {}) = {}
  BY DEF Taken
<1>2. CASE IsOneof
  BY <1>1, <1>2 DEF Overlay
<1>3. CASE ~IsOneof
  <2>1. m = [has |-> m.has, val |-> [f \in focus |-> m.val[f]], unknown |-> m.unknown]
    BY DEF Sound, Shape
  <2>2. Overlay(m, n, {}) = [has |-> m.has \union {}, val |-> [f \in focus |-> m.val[f]],
                             unknown |-> m.unknown]
    BY <1>1, <1>3 DEF Overlay
  <2>3. QED
    BY <2>1, <2>2
<1>4. QED
  BY <1>2, <1>3

\* A field that is not brought adds nothing.
LEMMA OverlaySame ==
  ASSUME NEW m, NEW n, NEW F, NEW G, Taken(n, F) = Taken(n, G)
  PROVE  Overlay(m, n, F) = Overlay(m, n, G)
  BY DEF Overlay

\* One more field, with a bit.
LEMMA OverlayPut ==
  ASSUME Typed, NEW m, Sound(m), NEW n, Sound(n), NEW F, NEW f \in focus, f \notin F,
         Kind(f) # "list", Bit(f) \in n.has
  PROVE  LET r == Overlay(m, n, F) IN
         Overlay(m, n, F \union {f}) = Put(r, f, Bit(f), OnTop(f, r.val[f], Get(n, f)))
<1> DEFINE r == Overlay(m, n, F)
           G == F \union {f}
<1>1. f \in Taken(n, G) /\ f \notin Taken(n, F) /\ Taken(n, G) = Taken(n, F) \union {f}
  BY DEF Taken
<1>2. CASE IsOneof
  <2>1. Taken(n, F) = {} /\ Taken(n, G) = {f}
    BY <1>1, <1>2, OneTaken
  <2>2. r = m
    BY <1>2, <2>1 DEF Overlay
  <2>3. (CHOOSE g \in {f} : TRUE) = f
    OBVIOUS
  <2>4. Overlay(m, n, G) = Put(m, f, Bit(f), OnTop(f, m.val[f], Get(n, f)))
    BY <1>2, <2>1, <2>3 DEF Overlay
  <2>5. QED
    BY <2>2, <2>4
<1>3. CASE ~IsOneof
  <2> DEFINE v == OnTop(f, m.val[f], Get(n, f))
  <2>1. r = [has |-> m.has \union {Bit(g) : g \in Taken(n, F) \ Of("list")},
             val |-> [g \in focus |-> IF g \in Taken(n, F) THEN OnTop(g, m.val[g], Get(n, g))
                                      ELSE m.val[g]],
             unknown |-> m.unknown]
    BY <1>3 DEF Overlay
  <2>2. Overlay(m, n, G) =
            [has |-> m.has \union {Bit(g) : g \in Taken(n, G) \ Of("list")},
             val |-> [g \in focus |-> IF g \in Taken(n, G) THEN OnTop(g, m.val[g], Get(n, g))
                                      ELSE m.val[g]],
             unknown |-> m.unknown]
    BY <1>3 DEF Overlay
  <2>3. Sound(r)
    BY OverlaySound
  <2> HIDE DEF r
  <2>4. r.val[f] = m.val[f]
    BY <1>1, <2>1
  <2>5. Put(r, f, Bit(f), v) = [has |-> {Bit(f)} \union r.has,
                                val |-> [g \in focus |-> IF g = f THEN v ELSE r.val[g]],
                                unknown |-> r.unknown]
    <3> HIDE DEF v
    <3>1. Put(r, f, Bit(f), v) =
            [has |-> {Bit(f)} \union (IF IsOneof THEN {} ELSE r.has),
             val |-> [g \in focus |-> IF g = f THEN v ELSE IF IsOneof THEN Default(g) ELSE r.val[g]],
             unknown |-> r.unknown]
      BY <2>3, PutIs
    <3>2. QED
      BY <1>3, <3>1
  <2>6. {Bit(f)} \union r.has = m.has \union {Bit(g) : g \in Taken(n, G) \ Of("list")}
    BY <1>1, <2>1 DEF Of
  <2>7. \A g \in focus : (IF g = f THEN v ELSE r.val[g])
                         = IF g \in Taken(n, G) THEN OnTop(g, m.val[g], Get(n, g)) ELSE m.val[g]
    BY <1>1, <2>1
  <2>8. r.unknown = m.unknown
    BY <2>1
  <2>9. Put(r, f, Bit(f), v) = Overlay(m, n, G)
    <3> DEFINE has == m.has \union {Bit(g) : g \in Taken(n, G) \ Of("list")}
               val == [g \in focus |-> IF g \in Taken(n, G) THEN OnTop(g, m.val[g], Get(n, g))
                                       ELSE m.val[g]]
    <3>1. [g \in focus |-> IF g = f THEN v ELSE r.val[g]] = val
      BY <2>7
    <3> HIDE DEF v
    <3>2. Put(r, f, Bit(f), v) = [has |-> has, val |-> val, unknown |-> m.unknown]
      BY <2>5, <2>6, <2>8, <3>1
    <3>3. QED
      BY <2>2, <3>2
  <2>10. QED
    BY <2>4, <2>9 DEF r
<1>4. QED
  BY <1>2, <1>3

\* One more list.
LEMMA OverlayList ==
  ASSUME Typed, NEW m, Sound(m), NEW n, Sound(n), NEW F, NEW f \in focus, f \notin F,
         Kind(f) = "list"
  PROVE  LET r == Overlay(m, n, F) IN
         Overlay(m, n, F \union {f}) = Longer(r, f, n.val[f])
<1> DEFINE r == Overlay(m, n, F)
           G == F \union {f}
           old == {Bit(g) : g \in Taken(n, F) \ Of("list")}
           Val(g) == IF g \in Taken(n, F) THEN OnTop(g, m.val[g], Get(n, g)) ELSE m.val[g]
<1>1. f \in Taken(n, G) /\ f \notin Taken(n, F) /\ Taken(n, G) = Taken(n, F) \union {f}
  BY DEF Taken
<1>2. ~IsOneof
  BY Kinds
<1>3. r = [has |-> m.has \union old, val |-> [g \in focus |-> Val(g)], unknown |-> m.unknown]
  BY <1>2 DEF Overlay
<1>4. {Bit(g) : g \in Taken(n, G) \ Of("list")} = old
  BY <1>1 DEF Of
<1>5. Overlay(m, n, G) =
          [has |-> m.has \union old,
           val |-> [g \in focus |-> IF g \in Taken(n, G) THEN OnTop(g, m.val[g], Get(n, g))
                                    ELSE m.val[g]],
           unknown |-> m.unknown]
  BY <1>2, <1>4 DEF Overlay
<1>6. Get(n, f) = n.val[f]
  BY DEF Get
<1>7. Val(f) = m.val[f]
  BY <1>1
<1>8. \A g \in focus : (IF g \in Taken(n, G) THEN OnTop(g, m.val[g], Get(n, g)) ELSE m.val[g])
                       = IF g = f THEN OnTop(f, m.val[f], n.val[f]) ELSE Val(g)
  BY <1>1, <1>6
<1> HIDE DEF r, old, Val
<1>9. [r EXCEPT !.val[f] = OnTop(f, @, n.val[f])] =
          [has |-> m.has \union old,
           val |-> [[g \in focus |-> Val(g)] EXCEPT ![f] = OnTop(f, Val(f), n.val[f])],
           unknown |-> m.unknown]
  <2> DEFINE has == m.has \union old
             val == [g \in focus |-> Val(g)]
  <2>1. r = [has |-> has, val |-> val, unknown |-> m.unknown]
    BY <1>3
  <2>2. val[f] = Val(f)
    OBVIOUS
  <2> HIDE DEF has, val
  <2>3. [r EXCEPT !.val[f] = OnTop(f, @, n.val[f])] =
          [has |-> has, val |-> [val EXCEPT ![f] = OnTop(f, val[f], n.val[f])], unknown |-> m.unknown]
    BY <2>1
  <2>4. QED
    BY <2>2, <2>3 DEF has, val
<1>10. [[g \in focus |-> Val(g)] EXCEPT ![f] = OnTop(f, Val(f), n.val[f])]
       = [g \in focus |-> IF g = f THEN OnTop(f, m.val[f], n.val[f]) ELSE Val(g)]
  BY <1>7
<1>11. QED
  BY <1>5, <1>8, <1>9, <1>10 DEF r, Longer

\* A turn of the parser's loop takes one more field.
LEMMA TurnIs ==
  ASSUME Typed, NEW m, Sound(m), NEW n, Sound(n), NEW k \in DOMAIN IndexWritten[type]
  PROVE  ParsedPiece(Overlay(m, n, Upto(k - 1)), Piece(Entry(k), n)) = Overlay(m, n, Upto(k))
<1> DEFINE f == Entry(k)[1]
           p == Piece(Entry(k), n)
           r == Overlay(m, n, Upto(k - 1))
<1>1. k \in 1..Len(IndexFields[type]) /\ k \in Int
  BY EntriesDistinct
<1>2. f \notin Upto(k - 1) /\ Upto(k) = Upto(k - 1) \union {f}
  <2>1. \A j \in 1..(k - 1) : j \in DOMAIN IndexWritten[type] /\ Entry(j)[1] # f
    BY <1>1, EntriesDistinct
  <2>2. 1..k = 1..(k - 1) \union {k}
    BY <1>1
  <2>3. QED
    BY <2>1, <2>2 DEF Upto
<1>3. /\ p.tag = EntryTag(k)
      /\ p.items = IF f \notin focus THEN <<>>
                   ELSE IF Kind(f) = "list" THEN n.val[f]
                   ELSE IF Bit(f) \in n.has THEN <<Get(n, f)>>
                   ELSE <<>>
  BY PieceIs
<1>4. Sound(r)
  BY OverlaySound
<1>5. p.items = <<>> => ParsedPiece(r, p) = r
  BY ParsedNothing
<1>6. CASE f \notin focus \/ (Kind(f) # "list" /\ Bit(f) \notin n.has)
  <2>1. p.items = <<>>
    BY <1>3, <1>6
  <2>2. Taken(n, Upto(k)) = Taken(n, Upto(k - 1))
    BY <1>2, <1>6 DEF Taken
  <2>3. QED
    BY <1>5, <2>1, <2>2, OverlaySame
<1>7. CASE f \in focus /\ Kind(f) # "list" /\ Bit(f) \in n.has
  <2>1. p.items = <<Get(n, f)>> /\ p.items # <<>> /\ p.items[1] = Get(n, f)
    BY <1>3, <1>7
  <2>2. f = Entry(k)[1]
    OBVIOUS
  <2> HIDE DEF f, p, r
  <2>3. ParsedPiece(r, p) = Put(r, f, Bit(f), OnTop(f, r.val[f], p.items[1]))
    BY <1>3, <1>7, <2>1, <2>2, ParsedItems
  <2>4. Overlay(m, n, Upto(k)) = Put(r, f, Bit(f), OnTop(f, r.val[f], Get(n, f)))
    BY <1>2, <1>7, OverlayPut DEF r
  <2>5. QED
    BY <2>1, <2>3, <2>4 DEF p, r
<1>8. CASE f \in focus /\ Kind(f) = "list"
  <2>1. p.items = n.val[f]
    BY <1>3, <1>8
  <2>2. Overlay(m, n, Upto(k)) = Longer(r, f, n.val[f])
    <3> HIDE DEF f
    <3>1. QED
      BY <1>2, <1>8, OverlayList
  <2>3. CASE p.items # <<>>
    <3>1. f = Entry(k)[1]
      OBVIOUS
    <3> HIDE DEF f, p, r
    <3>2. ParsedPiece(r, p) = Longer(r, f, p.items)
      BY <1>3, <1>8, <2>3, <3>1, ParsedItems
    <3>3. QED
      BY <2>1, <2>2, <3>2 DEF p, r
  <2>4. CASE p.items = <<>>
    <3>1. r.val[f] \in Seq(Elem)
      BY <1>4, <1>8, FullField DEF Sound, FieldSound
    <3>2. OnTop(f, r.val[f], <<>>) = r.val[f]
      <4>1. OnTop(f, r.val[f], <<>>) = r.val[f] \o <<>>
        BY <1>8 DEF OnTop
      <4>2. QED
        BY <3>1, <4>1, ConcatEmptySeq
    <3>3. r = [has |-> r.has, val |-> [g \in focus |-> r.val[g]], unknown |-> r.unknown]
      BY <1>4 DEF Sound, Shape
    <3> HIDE DEF r
    <3>4. [r EXCEPT !.val[f] = r.val[f]] = r
      BY <1>8, <3>3
    <3>5. QED
      BY <1>5, <2>1, <2>2, <2>4, <3>2, <3>4 DEF r, Longer
  <2>5. QED
    BY <2>3, <2>4
<1>9. QED
  BY <1>6, <1>7, <1>8

\* The message after k turns, for every k.
LEMMA ParsingIs ==
  ASSUME Typed, NEW m, Sound(m), NEW n, Sound(n),
         NEW k \in 0..Len(IndexFields[type])
  PROVE  Parsing(m, Serialized(n).pieces)[k] = Overlay(m, n, Upto(k))
<1> DEFINE W == IndexWritten[type]
           L == Len(IndexFields[type])
           pieces == [i \in DOMAIN W |-> Piece(W[i], n)]
           Equation(a) == a = [i \in 0..L |-> IF i = 0 THEN m ELSE ParsedPiece(a[i - 1], pieces[i])]
           g == [i \in 0..L |-> Overlay(m, n, Upto(i))]
           chosen == CHOOSE a : Equation(a)
<1>1. L \in Nat /\ DOMAIN W = 1..L
  <2>1. FieldsAgree(type)
    BY TablesAgree DEF Typed, Agrees
  <2>2. Len(W) = L /\ DOMAIN W = 1..L
    BY EntriesDistinct
  <2>3. QED
    BY <2>1, <2>2 DEF FieldsAgree
<1>2. Len(pieces) = L /\ Serialized(n).pieces = pieces
  BY <1>1 DEF Serialized
<1>3. Parsing(m, pieces) = chosen
  BY <1>2 DEF Parsing
<1>4. Upto(0) = {}
  BY DEF Upto
<1>5. ASSUME NEW i \in 1..L
      PROVE  ParsedPiece(Overlay(m, n, Upto(i - 1)), pieces[i]) = Overlay(m, n, Upto(i))
  BY <1>1, TurnIs DEF Entry
<1>6. Equation(g)
  <2>1. ASSUME NEW i \in 0..L
        PROVE  g[i] = IF i = 0 THEN m ELSE ParsedPiece(g[i - 1], pieces[i])
    <3>1. CASE i = 0
      BY <1>4, <3>1, OverlayNothing
    <3>2. CASE i # 0
      <4>1. i \in 1..L /\ i - 1 \in 0..L
        BY <1>1, <3>2
      <4>2. QED
        BY <1>5, <3>2, <4>1
    <3>3. QED
      BY <3>1, <3>2
  <2>2. QED
    BY <2>1
<1>7. Equation(chosen)
  BY <1>6
<1> HIDE DEF chosen, pieces
<1> DEFINE T == {i \in Nat : i <= L => chosen[i] = Overlay(m, n, Upto(i))}
<1>8. 0 \in T
  <2>1. chosen[0] = m
    BY <1>1, <1>7
  <2>2. QED
    BY <1>4, <2>1, OverlayNothing
<1>9. ASSUME NEW i \in Nat, i \in T PROVE i + 1 \in T
  <2>1. SUFFICES ASSUME i + 1 <= L PROVE chosen[i + 1] = Overlay(m, n, Upto(i + 1))
    OBVIOUS
  <2>2. i + 1 \in 1..L /\ (i + 1) - 1 = i /\ i + 1 # 0
    BY <1>1, <2>1
  <2>3. chosen[i + 1] = ParsedPiece(chosen[i], pieces[i + 1])
    BY <1>7, <2>2
  <2>4. chosen[i] = Overlay(m, n, Upto(i))
    BY <1>1, <1>9, <2>1
  <2>5. QED
    BY <1>5, <2>2, <2>3, <2>4
<1> HIDE DEF T
<1>10. Nat \subseteq T
  BY <1>8, <1>9, NatInductive
<1>11. QED
  BY <1>1, <1>2, <1>3, <1>10 DEF T

\* Parsing a message on top of another does what merging it does.
THEOREM ParsingIsMerging ==
  ASSUME Typed, NEW m, Sound(m), NEW n, Sound(n)
  PROVE  ParsedInto(m, Serialized(n)) = MergedMessage(m, n)
<1> DEFINE L == Len(IndexFields[type])
<1>1. L \in Nat /\ DOMAIN IndexWritten[type] = 1..L
  <2>1. FieldsAgree(type)
    BY TablesAgree DEF Typed, Agrees
  <2>2. QED
    BY <2>1, EntriesDistinct DEF FieldsAgree
<1>2. Len(Serialized(n).pieces) = L
  BY <1>1 DEF Serialized
<1>3. Serialized(n).unread = n.unknown
  BY DEF Serialized
<1>4. Parsing(m, Serialized(n).pieces)[L] = Overlay(m, n, Upto(L))
  BY <1>1, ParsingIs
<1>5. Taken(n, Upto(L)) = Taken(n, focus)
  BY <1>1, EntriesDistinct, FocusInType DEF Taken, Upto
<1>6. Overlay(m, n, Upto(L)) = Overlay(m, n, focus)
  BY <1>5, OverlaySame
<1>7. QED
  BY <1>2, <1>3, <1>4, <1>6, MergedIs DEF ParsedInto
-----------------------------------------------------------------------------
(* Edits and copies *)

\* A sound message within the bounds of the model.
Good(m) == Sound(m) /\ Fits(m)

\* What the setters of a list, and those that drop a field, write.
Revalued(m, f, v) == [m EXCEPT !.val[f] = v]
Dropped(m, f, v) == [m EXCEPT !.has = @ \ {Bit(f)}, !.val[f] = v]

\* A message with other has bits and another value in one member.
Edited(m, f, has, v) ==
  [has |-> has, val |-> [g \in focus |-> IF g = f THEN v ELSE m.val[g]], unknown |-> m.unknown]

\* A message is its three parts.
LEMMA PartsOf ==
  ASSUME NEW m, Sound(m)
  PROVE  m = [has |-> m.has, val |-> m.val, unknown |-> m.unknown]
<1>1. m = [has |-> m.has, val |-> [g \in focus |-> m.val[g]], unknown |-> m.unknown]
  BY DEF Sound, Shape
<1>2. m.val = [g \in focus |-> m.val[g]]
  BY <1>1
<1>3. QED
  BY <1>1, <1>2

\* A new value is an edit of one member.
LEMMA EditIs ==
  ASSUME NEW m, Sound(m), NEW f \in focus, NEW v
  PROVE  Revalued(m, f, v) = Edited(m, f, m.has, v)
<1> DEFINE val == [m.val EXCEPT ![f] = v]
<1>1. m = [has |-> m.has, val |-> m.val, unknown |-> m.unknown]
  BY PartsOf
<1>2. val = [g \in focus |-> IF g = f THEN v ELSE m.val[g]]
  BY SoundShape
<1>3. [m EXCEPT !.val[f] = v] = [has |-> m.has, val |-> val, unknown |-> m.unknown]
  BY <1>1
<1>4. [has |-> m.has, val |-> val, unknown |-> m.unknown] = Edited(m, f, m.has, v)
  BY <1>2 DEF Edited
<1>5. QED
  BY <1>3, <1>4 DEF Revalued

\* A dropped member is an edit of it and of its bit.
LEMMA DropIs ==
  ASSUME NEW m, Sound(m), NEW f \in focus, NEW v
  PROVE  Dropped(m, f, v) = Edited(m, f, m.has \ {Bit(f)}, v)
<1> DEFINE val == [m.val EXCEPT ![f] = v]
           has == m.has \ {Bit(f)}
           m1 == [m EXCEPT !.has = has]
<1>1. m = [has |-> m.has, val |-> m.val, unknown |-> m.unknown]
  BY PartsOf
<1>2. val = [g \in focus |-> IF g = f THEN v ELSE m.val[g]]
  BY SoundShape
<1>3. m1 = [has |-> has, val |-> m.val, unknown |-> m.unknown]
  <2> HIDE DEF has
  <2>1. QED
    BY <1>1
<1>4. [m EXCEPT !.has = @ \ {Bit(f)}, !.val[f] = v] = [m1 EXCEPT !.val[f] = v]
  <2>1. [m EXCEPT !.has = @ \ {Bit(f)}, !.val[f] = v] = [m EXCEPT !.has = has, !.val[f] = v]
    OBVIOUS
  <2> HIDE DEF has
  <2>2. [m EXCEPT !.has = has, !.val[f] = v] = [m1 EXCEPT !.val[f] = v]
    OBVIOUS
  <2>3. QED
    BY <2>1, <2>2
<1>5. [m1 EXCEPT !.val[f] = v] = [has |-> has, val |-> val, unknown |-> m.unknown]
  <2> HIDE DEF m1, has
  <2>1. QED
    BY <1>3
<1>6. [has |-> has, val |-> val, unknown |-> m.unknown] = Edited(m, f, m.has \ {Bit(f)}, v)
  BY <1>2 DEF Edited
<1> HIDE DEF val, has, m1
<1>7. QED
  BY <1>4, <1>5, <1>6 DEF Dropped

\* The parts of an edited message.
LEMMA EditedParts ==
  ASSUME NEW m, NEW f, NEW has, NEW v
  PROVE  LET r == Edited(m, f, has, v) IN
         /\ r.has = has
         /\ r.unknown = m.unknown
         /\ \A g \in focus : r.val[g] = IF g = f THEN v ELSE m.val[g]
         /\ r = [has |-> r.has, val |-> [g \in focus |-> r.val[g]], unknown |-> r.unknown]
<1> DEFINE r == Edited(m, f, has, v)
<1>1. r = [has |-> has, val |-> [g \in focus |-> IF g = f THEN v ELSE m.val[g]], unknown |-> m.unknown]
  BY DEF Edited
<1> HIDE DEF r
<1>2. QED
  BY <1>1 DEF r

\* Any list may take the place of another.
LEMMA ListSound ==
  ASSUME Typed, NEW m, Sound(m), NEW f \in focus, Kind(f) = "list", NEW q \in Seq(Elem)
  PROVE  Sound(Edited(m, f, m.has, q))
<1> DEFINE r == Edited(m, f, m.has, q)
<1>1. /\ r.has = m.has /\ r.unknown = m.unknown
      /\ \A g \in focus : r.val[g] = IF g = f THEN q ELSE m.val[g]
      /\ r = [has |-> r.has, val |-> [g \in focus |-> r.val[g]], unknown |-> r.unknown]
  BY EditedParts
<1> HIDE DEF r
<1>4. Shape(r)
  BY <1>1, SoundShape DEF Shape
<1>5. OneCase(r)
  BY <1>1 DEF Sound, OneCase
<1>6. ASSUME NEW g \in focus PROVE FieldSound(r, g)
  <2>1. r.val[g] = IF g = f THEN q ELSE m.val[g]
    BY <1>1
  <2>2. FieldSound(m, g)
    BY DEF Sound
  <2>3. q \in Full(f)
    BY FullField
  <2>4. QED
    BY <1>1, <2>1, <2>2, <2>3 DEF FieldSound
<1>7. QED
  BY <1>4, <1>5, <1>6 DEF Sound, r

\* A member may be dropped with its bit if it reads as the default from then on.
LEMMA DropSound ==
  ASSUME Typed, NEW m, Sound(m), NEW f \in focus, Kind(f) # "list",
         NEW v, IF Kind(f) = "sub" THEN v \in {NULL, {}} ELSE v = 0
  PROVE  Sound(Edited(m, f, m.has \ {Bit(f)}, v))
<1> DEFINE has == m.has \ {Bit(f)}
           r == Edited(m, f, has, v)
<1>1. /\ r.has = m.has \ {Bit(f)} /\ r.unknown = m.unknown
      /\ \A g \in focus : r.val[g] = IF g = f THEN v ELSE m.val[g]
      /\ r = [has |-> r.has, val |-> [g \in focus |-> r.val[g]], unknown |-> r.unknown]
  <2> HIDE DEF has
  <2>1. /\ r.has = has /\ r.unknown = m.unknown
        /\ \A g \in focus : r.val[g] = IF g = f THEN v ELSE m.val[g]
        /\ r = [has |-> r.has, val |-> [g \in focus |-> r.val[g]], unknown |-> r.unknown]
    BY EditedParts
  <2> HIDE DEF r
  <2>2. QED
    BY <2>1 DEF has
<1> HIDE DEF r
<1>4. Shape(r)
  BY <1>1, SoundShape DEF Shape
<1>5. OneCase(r)
  BY <1>1 DEF Sound, OneCase
<1>6. ASSUME NEW g \in focus PROVE FieldSound(r, g)
  <2>1. r.val[g] = IF g = f THEN v ELSE m.val[g]
    BY <1>1
  <2>2. FieldSound(m, g)
    BY DEF Sound
  <2>3. CASE g = f
    BY <1>1, <2>1, <2>3 DEF FieldSound
  <2>4. CASE g # f
    <3>1. Kind(g) # "list" => (Bit(g) \in r.has <=> Bit(g) \in m.has)
      BY <1>1, <2>4, Bits
    <3>2. QED
      BY <2>1, <2>2, <2>4, <3>1 DEF FieldSound
  <2>5. QED
    BY <2>3, <2>4
<1>7. QED
  BY <1>4, <1>5, <1>6 DEF Sound, r

\* Two messages no user can tell apart.
Alike(r, n) ==
  /\ r.has = n.has
  /\ r.unknown = n.unknown
  /\ \A f \in focus : Kind(f) = "list" \/ Bit(f) \in n.has => r.val[f] = n.val[f]

\* What is read into a cleared message is what was sent of those fields.
LEMMA OverlayCleared ==
  ASSUME Typed, NEW m, Sound(m), NEW n, Sound(n), NEW F
  PROVE  LET r == Overlay(ClearedMessage(m), n, F) IN
         /\ Sound(r)
         /\ r.has = {Bit(f) : f \in Taken(n, F) \ Of("list")}
         /\ r.unknown = 0
         /\ \A f \in Taken(n, F) : r.val[f] = n.val[f]
         /\ \A f \in Of("list") \ F : r.val[f] = <<>>
<1> DEFINE c == ClearedMessage(m)
           r == Overlay(c, n, F)
<1>1. /\ Sound(c) /\ c.has = {} /\ c.unknown = 0
      /\ \A f \in focus : Kind(f) = "list" => c.val[f] = <<>>
  BY ClearedIs
<1> HIDE DEF c
<1>2. Sound(r) /\ r.unknown = 0
  BY <1>1, OverlaySound
<1>3. ASSUME NEW f \in Taken(n, F)
      PROVE  OnTop(f, c.val[f], Get(n, f)) = n.val[f]
  <2>1. f \in focus /\ (Kind(f) = "list" \/ Bit(f) \in n.has)
    BY DEF Taken
  <2>2. Get(n, f) = n.val[f] /\ Get(n, f) \in Full(f)
    BY <2>1, SoundReads
  <2>3. IF Kind(f) = "list" THEN c.val[f] = <<>> ELSE Bit(f) \notin c.has
    BY <1>1, <2>1
  <2>4. QED
    BY <1>1, <2>1, <2>2, <2>3, OnTopOfNothing
<1>4. CASE IsOneof
  <2>1. Of("list") = {}
    BY <1>4, Kinds DEF Of
  <2>2. CASE Taken(n, F) = {}
    <3>1. r = c
      BY <1>4, <2>2 DEF Overlay
    <3>2. {Bit(f) : f \in Taken(n, F) \ Of("list")} = {}
      BY <2>2
    <3> HIDE DEF r
    <3>3. QED
      BY <1>1, <1>2, <2>1, <2>2, <3>1, <3>2 DEF r, c
  <2>3. CASE Taken(n, F) # {}
    <3> DEFINE f == CHOOSE g \in Taken(n, F) : TRUE
               v == OnTop(f, c.val[f], Get(n, f))
    <3>1. f \in focus /\ f \in Taken(n, F)
      BY <2>3 DEF Taken
    <3>2. r = Put(c, f, Bit(f), v)
      BY <1>4, <2>3 DEF Overlay
    <3> HIDE DEF f
    <3>3. Taken(n, F) = {f}
      BY <1>4, <3>1, OneTaken
    <3>4. v = n.val[f]
      BY <1>3, <3>1
    <3> HIDE DEF v, r
    <3>5. Put(c, f, Bit(f), v) =
            [has |-> {Bit(f)} \union (IF IsOneof THEN {} ELSE c.has),
             val |-> [g \in focus |-> IF g = f THEN v ELSE IF IsOneof THEN Default(g) ELSE c.val[g]],
             unknown |-> c.unknown]
      BY <1>1, <3>1, PutIs
    <3>6. r.has = {Bit(f)} /\ r.val[f] = v
      BY <1>4, <3>1, <3>2, <3>5
    <3>7. QED
      BY <1>2, <2>1, <3>3, <3>4, <3>6 DEF r, c
  <2>4. QED
    BY <2>2, <2>3
<1>5. CASE ~IsOneof
  <2>1. r = [has |-> c.has \union {Bit(f) : f \in Taken(n, F) \ Of("list")},
             val |-> [f \in focus |-> IF f \in Taken(n, F) THEN OnTop(f, c.val[f], Get(n, f))
                                      ELSE c.val[f]],
             unknown |-> c.unknown]
    BY <1>5 DEF Overlay
  <2> HIDE DEF r
  <2>2. r.has = {Bit(f) : f \in Taken(n, F) \ Of("list")}
    BY <1>1, <2>1
  <2>3. ASSUME NEW f \in Taken(n, F) PROVE r.val[f] = n.val[f]
    BY <1>3, <2>1 DEF Taken
  <2>4. ASSUME NEW f \in Of("list") \ F PROVE r.val[f] = <<>>
    <3>1. f \in focus /\ Kind(f) = "list" /\ f \notin Taken(n, F)
      BY DEF Of, Taken
    <3>2. QED
      BY <1>1, <2>1, <3>1
  <2>5. QED
    BY <1>2, <2>2, <2>3, <2>4 DEF r, c
<1>6. QED
  BY <1>4, <1>5

\* CopyFrom makes a copy nobody can tell from the original.
LEMMA CopyIs ==
  ASSUME Typed, NEW m, Sound(m), NEW n, Sound(n)
  PROVE  LET r == MergedMessage(ClearedMessage(m), n) IN Sound(r) /\ Alike(r, n)
<1> DEFINE o == Overlay(ClearedMessage(m), n, focus)
           r == MergedMessage(ClearedMessage(m), n)
<1>1. /\ Sound(o)
      /\ o.has = {Bit(f) : f \in Taken(n, focus) \ Of("list")}
      /\ o.unknown = 0
      /\ \A f \in Taken(n, focus) : o.val[f] = n.val[f]
  BY OverlayCleared
<1>2. n.unknown \in Nat /\ n.has \subseteq {Bit(f) : f \in focus \ Of("list")}
  BY SoundShape
<1>3. o.has = n.has
  BY <1>1, <1>2 DEF Taken, Of
<1>4. r = [o EXCEPT !.unknown = @ + n.unknown]
  BY ClearedIs, MergedIs
<1> HIDE DEF o, r
<1>5. Sound(r) /\ r.has = o.has /\ r.val = o.val /\ r.unknown = o.unknown + n.unknown
  BY <1>1, <1>2, <1>4, WithUnknown
<1>6. r.unknown = n.unknown
  BY <1>1, <1>2, <1>5
<1>7. Alike(r, n)
  BY <1>1, <1>3, <1>5, <1>6 DEF Alike, Taken
<1>8. QED
  BY <1>5, <1>7 DEF r

\* The copy is within the bounds if the original is.
LEMMA AlikeFits ==
  ASSUME NEW r, NEW n, Alike(r, n), Fits(n)
  PROVE  Fits(r)
  BY DEF Alike, Fits, Of
-----------------------------------------------------------------------------
(* What a user sees of a message *)

\* The fields a message has.
Present(m) == {g \in focus : Has(m, g)}

\* Has, for each kind of field.
LEMMA HasIs ==
  ASSUME Typed, NEW m, NEW f \in focus
  PROVE  /\ Kind(f) = "list" => (Has(m, f) <=> m.val[f] # <<>>)
         /\ Kind(f) # "list" => (Has(m, f) <=> Bit(f) \in m.has)
  BY DEF Has, Bit

\* The view of a message has the fields that are present.
LEMMA ViewIs ==
  ASSUME NEW m
  PROVE  /\ View(m) = [fields |-> [f \in Present(m) |-> m.val[f]], unknown |-> m.unknown]
         /\ View(m).fields = [f \in Present(m) |-> m.val[f]]
         /\ View(m).unknown = m.unknown
         /\ Abstract!Fields(View(m)) = Present(m)
<1>1. View(m) = [fields |-> [f \in Present(m) |-> m.val[f]], unknown |-> m.unknown]
  BY DEF View, Present
<1>2. View(m).fields = [f \in Present(m) |-> m.val[f]] /\ View(m).unknown = m.unknown
  BY <1>1
<1>3. QED
  BY <1>1, <1>2 DEF Abstract!Fields

\* Messages with the same fields and values look the same.
LEMMA SameView ==
  ASSUME NEW m, NEW n, m.unknown = n.unknown, Present(m) = Present(n),
         \A f \in Present(n) : m.val[f] = n.val[f]
  PROVE  View(m) = View(n)
<1>1. [f \in Present(m) |-> m.val[f]] = [f \in Present(n) |-> n.val[f]]
  OBVIOUS
<1>2. QED
  BY <1>1, ViewIs

\* So do messages that nobody can tell apart.
LEMMA AlikeView ==
  ASSUME Typed, NEW r, NEW n, Alike(r, n)
  PROVE  View(r) = View(n)
<1>1. ASSUME NEW f \in focus PROVE Has(r, f) <=> Has(n, f)
  BY HasIs DEF Alike
<1>2. Present(r) = Present(n)
  BY <1>1 DEF Present
<1>3. ASSUME NEW f \in Present(n) PROVE r.val[f] = n.val[f]
  BY HasIs DEF Alike, Present
<1>4. QED
  BY <1>2, <1>3, SameView DEF Alike

\* A message without fields looks empty.
LEMMA NothingIs ==
  ASSUME NEW m, m.unknown = 0, Present(m) = {}
  PROVE  View(m) = Abstract!Nothing
<1>1. [f \in Present(m) |-> m.val[f]] = [f \in {} |-> NULL]
  OBVIOUS
<1>2. QED
  BY <1>1, ViewIs DEF Abstract!Nothing

\* The fields of a message, with one more or other value.
Grown(m, f, v) == [g \in {f} \union (IF IsOneof THEN {} ELSE Present(m)) |->
                     IF g = f THEN v ELSE m.val[g]]

\* The abstract specification's With, of a view.
LEMMA WithIs ==
  ASSUME NEW m, NEW f, NEW v
  PROVE  Abstract!With(View(m), f, v) = [fields |-> Grown(m, f, v), unknown |-> m.unknown]
<1> DEFINE old == [g \in Present(m) |-> m.val[g]]
           D == {f} \union (IF IsOneof THEN {} ELSE Present(m))
<1>1. View(m) = [fields |-> old, unknown |-> m.unknown] /\ View(m).fields = old
      /\ Abstract!Fields(View(m)) = Present(m)
  BY ViewIs
<1>2. Abstract!With(View(m), f, v) =
        [View(m) EXCEPT !.fields = [g \in D |-> IF g = f THEN v ELSE View(m).fields[g]]]
  BY <1>1 DEF Abstract!With
<1>3. [g \in D |-> IF g = f THEN v ELSE View(m).fields[g]] = [g \in D |-> IF g = f THEN v ELSE m.val[g]]
  BY <1>1
<1> DEFINE new == [g \in D |-> IF g = f THEN v ELSE m.val[g]]
<1> HIDE DEF new, old
<1>4. [View(m) EXCEPT !.fields = new] = [fields |-> new, unknown |-> m.unknown]
  BY <1>1
<1>5. QED
  BY <1>2, <1>3, <1>4 DEF new, Grown

\* Those of them in a set.
Kept(m, D) == [g \in D |-> m.val[g]]

\* The abstract specification's Without, of a view.
LEMMA WithoutIs ==
  ASSUME NEW m, NEW f
  PROVE  Abstract!Without(View(m), f) =
           [fields |-> Kept(m, Present(m) \ {f}), unknown |-> m.unknown]
<1> DEFINE old == [g \in Present(m) |-> m.val[g]]
           new == [g \in Present(m) \ {f} |-> m.val[g]]
<1>1. View(m) = [fields |-> old, unknown |-> m.unknown] /\ View(m).fields = old
  BY ViewIs
<1>2. Abstract!Without(View(m), f) =
        [View(m) EXCEPT !.fields = [g \in DOMAIN old \ {f} |-> old[g]]]
  BY <1>1 DEF Abstract!Without
<1>3. [g \in DOMAIN old \ {f} |-> old[g]] = new
  OBVIOUS
<1> HIDE DEF new, old
<1>4. [View(m) EXCEPT !.fields = new] = [fields |-> new, unknown |-> m.unknown]
  BY <1>1
<1>5. QED
  BY <1>2, <1>3, <1>4 DEF new, Kept

\* A message just made looks empty.
LEMMA BlankGood == ASSUME Typed PROVE Good(Blank) /\ View(Blank) = Abstract!Nothing
<1>1. Blank.has = {} /\ Blank.unknown = 0 /\ \A f \in focus : Blank.val[f] = Default(f)
  BY DEF Blank
<1>2. Fits(Blank)
  BY <1>1, DefaultField, BoundsAssumption DEF Fits, Of
<1>3. Present(Blank) = {}
  BY <1>1, HasIs, DefaultField DEF Present
<1>4. QED
  BY <1>1, <1>2, <1>3, BlankSound, NothingIs DEF Good

\* A cleared message looks empty, whatever its members still hold.
LEMMA ClearedGood ==
  ASSUME Typed, NEW m, Good(m)
  PROVE  Good(ClearedMessage(m)) /\ View(ClearedMessage(m)) = Abstract!Nothing
<1> DEFINE c == ClearedMessage(m)
<1>1. /\ Sound(c) /\ c.has = {} /\ c.unknown = 0
      /\ \A f \in focus : Kind(f) = "list" => c.val[f] = <<>>
  BY ClearedIs DEF Good
<1> HIDE DEF c
<1>2. Fits(c)
  BY <1>1, BoundsAssumption DEF Fits, Of
<1>3. Present(c) = {}
  BY <1>1, HasIs DEF Present
<1>4. QED
  BY <1>1, <1>2, <1>3, NothingIs DEF Good, c

\* set_... and mutable_... change that field only, except that a oneof loses the other case.
LEMMA PutGood ==
  ASSUME Typed, NEW m, Good(m), NEW f \in focus, Kind(f) # "list", NEW v \in Full(f)
  PROVE  LET r == Put(m, f, Bit(f), v) IN
         /\ Good(r)
         /\ View(r) = Abstract!With(View(m), f, v)
         /\ f \in Present(r) /\ r.val[f] = v
         /\ Present(r) \subseteq {f} \union Present(m)
         /\ \A g \in Present(r) \ {f} : r.val[g] = m.val[g]
<1> DEFINE r == Put(m, f, Bit(f), v)
<1>1. r = [has |-> {Bit(f)} \union (IF IsOneof THEN {} ELSE m.has),
           val |-> [g \in focus |-> IF g = f THEN v ELSE IF IsOneof THEN Default(g) ELSE m.val[g]],
           unknown |-> m.unknown]
  BY PutIs DEF Good
<1>2. Sound(r)
  BY PutSound DEF Good
<1> HIDE DEF r
<1>3. /\ r.has = {Bit(f)} \union (IF IsOneof THEN {} ELSE m.has)
      /\ r.unknown = m.unknown
      /\ \A g \in focus : r.val[g] = IF g = f THEN v ELSE IF IsOneof THEN Default(g) ELSE m.val[g]
  BY <1>1
<1>4. Fits(r)
  <2>1. \A g \in focus : Kind(g) = "list" => ~IsOneof /\ r.val[g] = m.val[g]
    BY <1>3, Kinds
  <2>2. QED
    BY <1>3, <2>1 DEF Good, Fits, Of
<1> DEFINE D == {f} \union (IF IsOneof THEN {} ELSE Present(m))
<1>5. ASSUME NEW g \in focus PROVE Has(r, g) <=> g \in D
  <2>1. CASE g = f
    BY <1>3, <2>1, HasIs
  <2>2. CASE g # f /\ Kind(g) = "list"
    BY <1>3, <2>2, HasIs, Kinds DEF Present
  <2>3. CASE g # f /\ Kind(g) # "list"
    <3>1. Bit(g) # Bit(f)
      BY <2>3, Bits
    <3>2. QED
      BY <1>3, <2>3, <3>1, HasIs DEF Present
  <2>4. QED
    BY <2>1, <2>2, <2>3
<1>6. D \subseteq focus
  BY DEF Present
<1>7. Present(r) = D
  BY <1>5, <1>6 DEF Present
<1>8. [g \in Present(r) |-> r.val[g]] = [g \in D |-> IF g = f THEN v ELSE m.val[g]]
  <2>1. ASSUME NEW g \in D PROVE r.val[g] = IF g = f THEN v ELSE m.val[g]
    <3>1. CASE g = f
      BY <1>3, <3>1
    <3>2. CASE g # f
      <4>1. ~IsOneof /\ g \in focus
        BY <1>6, <3>2
      <4>2. QED
        BY <1>3, <3>2, <4>1
    <3>3. QED
      BY <3>1, <3>2
  <2>2. QED
    BY <1>7, <2>1
<1>9. View(r) = Abstract!With(View(m), f, v)
  <2> DEFINE new == [g \in D |-> IF g = f THEN v ELSE m.val[g]]
  <2>1. View(r) = [fields |-> [g \in Present(r) |-> r.val[g]], unknown |-> r.unknown]
    BY ViewIs
  <2>2. View(r) = [fields |-> new, unknown |-> m.unknown]
    BY <1>3, <1>8, <2>1
  <2>3. Abstract!With(View(m), f, v) = [fields |-> new, unknown |-> m.unknown]
    <3>1. Grown(m, f, v) = new
      BY DEF Grown
    <3>2. QED
      BY <3>1, WithIs
  <2>4. QED
    BY <2>2, <2>3
<1>10. ASSUME NEW g \in Present(r) \ {f} PROVE r.val[g] = m.val[g]
  BY <1>3, <1>6, <1>7
<1>11. Present(r) \subseteq {f} \union Present(m)
  BY <1>7
<1>12. QED
  BY <1>2, <1>3, <1>4, <1>7, <1>9, <1>10, <1>11 DEF Good, r

\* One more element, or a list emptied.
LEMMA ListGood ==
  ASSUME Typed, NEW m, Good(m), NEW f \in focus, Kind(f) = "list", NEW q \in Seq(Elem),
         Len(q) <= MaxLen
  PROVE  LET r == Edited(m, f, m.has, q) IN
         /\ Good(r)
         /\ q = <<>> => View(r) = Abstract!Without(View(m), f)
         /\ q # <<>> => View(r) = Abstract!With(View(m), f, q) /\ f \in Present(r) /\ r.val[f] = q
         /\ Present(r) \subseteq {f} \union Present(m)
         /\ \A g \in Present(r) \ {f} : r.val[g] = m.val[g]
         /\ r.unknown = m.unknown
<1> DEFINE r == Edited(m, f, m.has, q)
<1>1. /\ r.has = m.has /\ r.unknown = m.unknown
      /\ \A g \in focus : r.val[g] = IF g = f THEN q ELSE m.val[g]
  BY EditedParts
<1>2. Sound(r)
  BY ListSound DEF Good
<1> HIDE DEF r
<1>3. Fits(r)
  BY <1>1 DEF Good, Fits, Of
<1>4. ~IsOneof
  BY Kinds
<1>5. ASSUME NEW g \in focus, g # f PROVE Has(r, g) <=> Has(m, g)
  BY <1>1, <1>5, HasIs
<1>6. Has(r, f) <=> q # <<>>
  BY <1>1, HasIs
<1>10. /\ Present(r) \subseteq {f} \union Present(m)
       /\ \A g \in Present(r) \ {f} : r.val[g] = m.val[g]
       /\ r.unknown = m.unknown
  BY <1>1, <1>5 DEF Present
<1>7. CASE q = <<>>
  <2> DEFINE new == [g \in Present(m) \ {f} |-> m.val[g]]
  <2>1. Present(r) = Present(m) \ {f}
    BY <1>5, <1>6, <1>7 DEF Present
  <2>2. [g \in Present(r) |-> r.val[g]] = new
    BY <1>1, <2>1 DEF Present
  <2>3. View(r) = [fields |-> [g \in Present(r) |-> r.val[g]], unknown |-> r.unknown]
    BY ViewIs
  <2>4. View(r) = [fields |-> new, unknown |-> m.unknown]
    BY <1>1, <2>2, <2>3
  <2>5. Abstract!Without(View(m), f) = [fields |-> new, unknown |-> m.unknown]
    BY WithoutIs DEF Kept
  <2>6. QED
    BY <1>2, <1>3, <1>7, <1>10, <2>4, <2>5 DEF Good, r
<1>8. CASE q # <<>>
  <2> DEFINE D == {f} \union (IF IsOneof THEN {} ELSE Present(m))
             new == [g \in D |-> IF g = f THEN q ELSE m.val[g]]
  <2>1. Present(r) = D
    BY <1>4, <1>5, <1>6, <1>8 DEF Present
  <2>2. [g \in Present(r) |-> r.val[g]] = new
    BY <1>1, <1>4, <2>1 DEF Present
  <2>3. View(r) = [fields |-> [g \in Present(r) |-> r.val[g]], unknown |-> r.unknown]
    BY ViewIs
  <2>4. View(r) = [fields |-> new, unknown |-> m.unknown]
    BY <1>1, <2>2, <2>3
  <2>5. Abstract!With(View(m), f, q) = [fields |-> new, unknown |-> m.unknown]
    <3>1. Grown(m, f, q) = new
      BY DEF Grown
    <3>2. QED
      BY <3>1, WithIs
  <2>6. f \in Present(r) /\ r.val[f] = q
    BY <1>1, <2>1
  <2>7. View(r) = Abstract!With(View(m), f, q)
    BY <2>4, <2>5
  <2>8. QED
    BY <1>2, <1>3, <1>8, <1>10, <2>6, <2>7 DEF Good, r
<1>9. QED
  BY <1>7, <1>8

\* A field gone.
LEMMA DropGood ==
  ASSUME Typed, NEW m, Good(m), NEW f \in focus, Kind(f) # "list",
         NEW v, IF Kind(f) = "sub" THEN v \in {NULL, {}} ELSE v = 0
  PROVE  LET r == Edited(m, f, m.has \ {Bit(f)}, v) IN
         Good(r) /\ View(r) = Abstract!Without(View(m), f)
<1> DEFINE has == m.has \ {Bit(f)}
           r == Edited(m, f, has, v)
<1>1. Sound(r)
  BY DropSound DEF Good
<1>2. /\ r.has = has /\ r.unknown = m.unknown
      /\ \A g \in focus : r.val[g] = IF g = f THEN v ELSE m.val[g]
  <2> HIDE DEF has
  <2>1. QED
    BY EditedParts
<1> HIDE DEF r
<1>3. Fits(r)
  BY <1>2 DEF Good, Fits, Of
<1>4. ASSUME NEW g \in focus PROVE Has(r, g) <=> (g # f /\ Has(m, g))
  <2>1. CASE Kind(g) = "list"
    BY <1>2, <2>1, HasIs
  <2>2. CASE Kind(g) # "list"
    BY <1>2, <2>2, HasIs, Bits
  <2>3. QED
    BY <2>1, <2>2
<1> DEFINE new == [g \in Present(m) \ {f} |-> m.val[g]]
<1>5. Present(r) = Present(m) \ {f}
  BY <1>4 DEF Present
<1>6. [g \in Present(r) |-> r.val[g]] = new
  BY <1>2, <1>5 DEF Present
<1>7. View(r) = [fields |-> [g \in Present(r) |-> r.val[g]], unknown |-> r.unknown]
  BY ViewIs
<1>8. View(r) = [fields |-> new, unknown |-> m.unknown]
  BY <1>2, <1>6, <1>7
<1>9. Abstract!Without(View(m), f) = [fields |-> new, unknown |-> m.unknown]
  BY WithoutIs DEF Kept
<1>10. QED
  BY <1>1, <1>3, <1>8, <1>9 DEF Good, r

\* Without a field that is not there.
LEMMA WithoutSame ==
  ASSUME NEW m, NEW f, f \notin Present(m)
  PROVE  View(m) = Abstract!Without(View(m), f)
<1>1. Present(m) \ {f} = Present(m)
  OBVIOUS
<1>2. View(m) = [fields |-> Kept(m, Present(m)), unknown |-> m.unknown]
  BY ViewIs DEF Kept
<1>3. QED
  BY <1>1, <1>2, WithoutIs

\* A oneof emptied.
LEMMA ResetGood ==
  ASSUME Typed, IsOneof, NEW m, Good(m), NEW f \in focus
  PROVE  LET r == [Blank EXCEPT !.unknown = m.unknown] IN
         Good(r) /\ \E g \in focus : View(r) = Abstract!Without(View(m), g)
<1> DEFINE r == [Blank EXCEPT !.unknown = m.unknown]
<1>1. Blank = [has |-> {}, val |-> [g \in focus |-> Default(g)], unknown |-> 0]
  BY DEF Blank
<1>2. r = [has |-> {}, val |-> [g \in focus |-> Default(g)], unknown |-> m.unknown]
  BY <1>1
<1>3. m.unknown \in Nat
  BY SoundShape DEF Good
<1> HIDE DEF r
<1>4. r.has = {} /\ r.unknown = m.unknown /\ \A g \in focus : r.val[g] = Default(g)
  BY <1>2
<1>5. r = [has |-> r.has, val |-> [g \in focus |-> r.val[g]], unknown |-> r.unknown]
  BY <1>2
<1>6. Shape(r) /\ OneCase(r)
  BY <1>3, <1>4, <1>5 DEF Shape, OneCase
<1>7. ASSUME NEW g \in focus PROVE FieldSound(r, g) /\ ~Has(r, g) /\ Kind(g) # "list"
  BY <1>4, Kinds, DefaultField, HasIs DEF FieldSound
<1>8. Good(r)
  BY <1>4, <1>6, <1>7 DEF Good, Sound, Fits, Of
<1>9. PICK g \in focus : Present(m) \subseteq {g}
  <2>1. \A g, h \in Present(m) : g = h
    BY Kinds, HasIs DEF Good, Sound, OneCase, Present
  <2>2. Present(m) \subseteq focus
    BY DEF Present
  <2>3. QED
    BY <2>1, <2>2
<1>10. Present(r) = {} /\ Present(m) \ {g} = {}
  BY <1>7, <1>9 DEF Present
<1>11. [h \in Present(r) |-> r.val[h]] = [h \in Present(m) \ {g} |-> m.val[h]]
  BY <1>10
<1>12. View(r) = [fields |-> [h \in Present(r) |-> r.val[h]], unknown |-> m.unknown]
  BY <1>4, ViewIs
<1>13. View(r) = Abstract!Without(View(m), g)
  BY <1>11, <1>12, WithoutIs DEF Kept
<1>14. QED
  BY <1>8, <1>13 DEF r
-----------------------------------------------------------------------------
(* Views of merged and of received messages *)

\* What Merged of the abstract specification makes of two views.
Joint(m, n) ==
  [f \in Present(m) \union Present(n) |->
     IF f \notin Present(n) THEN m.val[f]
     ELSE IF f \notin Present(m) THEN n.val[f]
     ELSE Abstract!Joined(f, m.val[f], n.val[f])]

\* Merged by the two parts of a view.
LEMMA JointIs ==
  ASSUME NEW m, NEW n
  PROVE  /\ Abstract!Merged(View(m), View(n)).fields =
              IF IsOneof /\ Present(m) # Present(n) /\ Present(n) # {}
              THEN View(n).fields ELSE Joint(m, n)
         /\ Abstract!Merged(View(m), View(n)).unknown = m.unknown + n.unknown
         /\ Abstract!Merged(View(m), View(n)) =
              [fields |-> Abstract!Merged(View(m), View(n)).fields, unknown |-> m.unknown + n.unknown]
<1> DEFINE u == View(m)
           w == View(n)
<1>1. /\ Abstract!Fields(u) = Present(m) /\ Abstract!Fields(w) = Present(n)
      /\ u.fields = [f \in Present(m) |-> m.val[f]] /\ u.unknown = m.unknown
      /\ w.fields = [f \in Present(n) |-> n.val[f]] /\ w.unknown = n.unknown
  BY ViewIs
<1> DEFINE joined == [f \in Present(m) \union Present(n) |->
                        IF f \notin Present(n) THEN u.fields[f]
                        ELSE IF f \notin Present(m) THEN w.fields[f]
                        ELSE Abstract!Joined(f, u.fields[f], w.fields[f])]
<1>2. joined = Joint(m, n)
  <2>1. ASSUME NEW f \in Present(m) PROVE u.fields[f] = m.val[f]
    BY <1>1
  <2>2. ASSUME NEW f \in Present(n) PROVE w.fields[f] = n.val[f]
    BY <1>1
  <2>3. QED
    BY <2>1, <2>2 DEF Joint
<1>3. Abstract!Merged(u, w) =
        [fields |-> IF IsOneof /\ Present(m) # Present(n) /\ Present(n) # {} THEN w.fields ELSE joined,
         unknown |-> u.unknown + w.unknown]
  BY <1>1 DEF Abstract!Merged
<1> HIDE DEF joined, u, w
<1>4. QED
  BY <1>1, <1>2, <1>3 DEF u, w

\* A field that both have.
LEMMA JoinedIs ==
  ASSUME Typed, NEW f \in focus, NEW a, NEW b, a # NULL
  PROVE  Abstract!Joined(f, a, b) = OnTop(f, a, b)
  BY DEF Abstract!Joined, OnTop

\* The empty sequence on either side of a concatenation.
LEMMA Concatenations ==
  ASSUME NEW S, NEW a \in Seq(S), NEW b \in Seq(S)
  PROVE  /\ a = <<>> => a \o b = b
         /\ b = <<>> => a \o b = a
         /\ a \o b = <<>> => a = <<>> /\ b = <<>>
<1>1. a = <<>> => a \o b = b
  BY ConcatEmptySeq
<1>2. b = <<>> => a \o b = a
  BY ConcatEmptySeq
<1>3. Len(a \o b) = Len(a) + Len(b)
  BY ConcatProperties
<1>4. ASSUME a \o b = <<>> PROVE a = <<>> /\ b = <<>>
  <2>1. Len(a) + Len(b) = 0
    BY <1>3, <1>4
  <2>2. Len(a) = 0 /\ Len(b) = 0
    BY <2>1, LenProperties
  <2>3. QED
    BY <2>2, EmptySeq
<1>5. QED
  BY <1>1, <1>2, <1>4

\* The fields of an overlay.
LEMMA OverlayReads ==
  ASSUME Typed, ~IsOneof, NEW m, Sound(m), NEW n, Sound(n)
  PROVE  LET r == Overlay(m, n, focus) IN
         [f \in Present(r) |-> r.val[f]] = Joint(m, n)
<1> DEFINE r == Overlay(m, n, focus)
           T == Taken(n, focus)
<1>1. r = [has |-> m.has \union {Bit(f) : f \in T \ Of("list")},
           val |-> [f \in focus |-> IF f \in T THEN OnTop(f, m.val[f], Get(n, f)) ELSE m.val[f]],
           unknown |-> m.unknown]
  BY DEF Overlay
<1>2. T = {f \in focus : Kind(f) = "list" \/ Bit(f) \in n.has}
  BY DEF Taken
<1> HIDE DEF r, T
<1>3. /\ r.has = m.has \union {Bit(f) : f \in T \ Of("list")}
      /\ \A f \in focus : r.val[f] = IF f \in T THEN OnTop(f, m.val[f], Get(n, f)) ELSE m.val[f]
  BY <1>1
<1>4. ASSUME NEW f \in focus
      PROVE  /\ f \in Present(r) <=> f \in Present(m) \union Present(n)
             /\ f \in Present(r) => r.val[f] = Joint(m, n)[f]
  <2>1. f \in T => Get(n, f) = n.val[f] /\ n.val[f] \in Full(f)
    BY <1>2, SoundReads
  <2>2. /\ f \in Present(r) <=> Has(r, f)
        /\ f \in Present(m) <=> Has(m, f)
        /\ f \in Present(n) <=> Has(n, f)
    BY DEF Present
  <2>3. FieldSound(m, f) /\ FieldSound(n, f)
    BY DEF Sound
  <2>4. f \in Present(m) \union Present(n) =>
          Joint(m, n)[f] = IF f \notin Present(n) THEN m.val[f]
                           ELSE IF f \notin Present(m) THEN n.val[f]
                           ELSE Abstract!Joined(f, m.val[f], n.val[f])
    BY DEF Joint
  <2>5. CASE Kind(f) = "list"
    <3>1. m.val[f] \in Seq(Elem) /\ n.val[f] \in Seq(Elem)
      BY <2>3, <2>5, FullField DEF FieldSound
    <3>2. r.val[f] = m.val[f] \o n.val[f]
      BY <1>2, <1>3, <2>1, <2>5 DEF OnTop
    <3>3. Abstract!Joined(f, m.val[f], n.val[f]) = m.val[f] \o n.val[f]
      BY <2>5 DEF Abstract!Joined
    <3>4. /\ m.val[f] = <<>> => m.val[f] \o n.val[f] = n.val[f]
          /\ n.val[f] = <<>> => m.val[f] \o n.val[f] = m.val[f]
          /\ m.val[f] \o n.val[f] = <<>> => m.val[f] = <<>> /\ n.val[f] = <<>>
      BY <3>1, Concatenations
    <3>5. /\ Has(r, f) <=> r.val[f] # <<>>
          /\ Has(m, f) <=> m.val[f] # <<>>
          /\ Has(n, f) <=> n.val[f] # <<>>
      BY <2>5, HasIs
    <3>6. QED
      BY <2>2, <2>4, <3>2, <3>3, <3>4, <3>5
  <2>6. CASE Kind(f) # "list"
    <3>1. /\ Has(r, f) <=> Bit(f) \in r.has
          /\ Has(m, f) <=> Bit(f) \in m.has
          /\ Has(n, f) <=> Bit(f) \in n.has
      BY <2>6, HasIs
    <3>2. f \in T <=> Bit(f) \in n.has
      BY <1>2, <2>6
    <3>3. Bit(f) \in r.has <=> Bit(f) \in m.has \/ f \in T
      <4>1. ASSUME Bit(f) \in {Bit(g) : g \in T \ Of("list")} PROVE f \in T
        <5>1. PICK g \in T \ Of("list") : Bit(f) = Bit(g)
          BY <4>1
        <5>2. g \in focus /\ Kind(g) # "list"
          BY <1>2 DEF Of
        <5>3. QED
          BY <2>6, <5>1, <5>2, Bits
      <4>2. QED
        BY <1>3, <2>6, <4>1 DEF Of
    <3>4. CASE Bit(f) \notin n.has
      BY <1>3, <2>2, <2>4, <3>1, <3>2, <3>3, <3>4
    <3>5. CASE Bit(f) \in n.has /\ Bit(f) \notin m.has
      <4>1. OnTop(f, m.val[f], n.val[f]) = n.val[f]
        BY <2>1, <2>6, <3>2, <3>5, OnTopOfNothing
      <4>2. QED
        BY <1>3, <2>1, <2>2, <2>4, <3>1, <3>2, <3>3, <3>5, <4>1
    <3>6. CASE Bit(f) \in n.has /\ Bit(f) \in m.has
      <4>1. Abstract!Joined(f, m.val[f], n.val[f]) = OnTop(f, m.val[f], n.val[f])
        <5>1. CASE Kind(f) = "sub"
          <6>1. m.val[f] # NULL
            BY <2>3, <3>6, <5>1, FullField, NullAssumption DEF FieldSound
          <6>2. QED
            BY <6>1, JoinedIs
        <5>2. CASE Kind(f) # "sub"
          BY <2>6, <5>2 DEF Abstract!Joined, OnTop
        <5>3. QED
          BY <5>1, <5>2
      <4>2. QED
        BY <1>3, <2>1, <2>2, <2>4, <3>1, <3>2, <3>3, <3>6, <4>1
    <3>7. QED
      BY <3>4, <3>5, <3>6
  <2>7. QED
    BY <2>5, <2>6
<1>5. Present(r) = Present(m) \union Present(n)
  BY <1>4 DEF Present
<1>6. Joint(m, n) = [f \in Present(m) \union Present(n) |-> Joint(m, n)[f]]
  BY DEF Joint
<1>7. ASSUME NEW f \in Present(r) PROVE r.val[f] = Joint(m, n)[f]
  BY <1>4 DEF Present
<1>8. QED
  BY <1>5, <1>6, <1>7 DEF r

\* Every field of a message read with the fields of a oneof.
LEMMA OneofReads ==
  ASSUME Typed, IsOneof, NEW m, Sound(m)
  PROVE  /\ Taken(m, focus) = Present(m)
         /\ \A f, g \in Present(m) : f = g
<1>1. ASSUME NEW f \in focus PROVE Kind(f) # "list" /\ (Has(m, f) <=> Bit(f) \in m.has)
  BY Kinds, HasIs
<1>2. QED
  BY <1>1 DEF Taken, Present, Sound, OneCase

\* MergeFrom looks like the merge of two partial functions.
LEMMA MergedView ==
  ASSUME Typed, NEW m, Sound(m), NEW n, Sound(n)
  PROVE  View(MergedMessage(m, n)) = Abstract!Merged(View(m), View(n))
<1> DEFINE o == Overlay(m, n, focus)
           r == MergedMessage(m, n)
           M == Abstract!Merged(View(m), View(n))
<1>1. Sound(o) /\ o.unknown = m.unknown
  BY OverlaySound
<1>2. n.unknown \in Nat
  BY SoundShape
<1>3. r = [o EXCEPT !.unknown = @ + n.unknown]
  BY MergedIs
<1>4. r.has = o.has /\ r.val = o.val /\ r.unknown = m.unknown + n.unknown
  <2> HIDE DEF o, r
  <2>1. QED
    BY <1>1, <1>2, <1>3, WithUnknown
<1>5. /\ M.fields = IF IsOneof /\ Present(m) # Present(n) /\ Present(n) # {}
                    THEN View(n).fields ELSE Joint(m, n)
      /\ M.unknown = m.unknown + n.unknown
      /\ M = [fields |-> M.fields, unknown |-> M.unknown]
  BY JointIs
<1> HIDE DEF r, M
<1>6. Present(r) = Present(o)
  BY <1>4 DEF Present, Has
<1>7. [f \in Present(r) |-> r.val[f]] = [f \in Present(o) |-> o.val[f]]
  BY <1>4, <1>6
<1>8. [f \in Present(o) |-> o.val[f]] = M.fields
  <2>1. CASE ~IsOneof
    BY <1>5, <2>1, OverlayReads
  <2>2. CASE IsOneof /\ Present(n) = {}
    <3>1. o = m
      BY <2>2, OneofReads DEF Overlay
    <3> HIDE DEF o
    <3>2. [f \in Present(m) |-> m.val[f]] = Joint(m, n)
      BY <2>2 DEF Joint
    <3>3. QED
      BY <1>5, <2>2, <3>1, <3>2
  <2>3. CASE IsOneof /\ Present(n) # {}
    <3>1. PICK f \in focus : Present(n) = {f}
      BY <2>3, OneofReads DEF Present
    <3>2. Taken(n, focus) = {f}
      BY <2>3, <3>1, OneofReads
    <3>3. (CHOOSE g \in {f} : TRUE) = f
      OBVIOUS
    <3>4. Kind(f) = "sub" /\ Bit(f) \in n.has
      <4>1. Kind(f) = "sub"
        BY <2>3, Kinds
      <4>2. Has(n, f)
        BY <3>1 DEF Present
      <4>3. QED
        BY <4>1, <4>2, HasIs
    <3>5. Get(n, f) = n.val[f] /\ n.val[f] \in Full(f)
      BY <3>4, SoundReads
    <3> DEFINE v == OnTop(f, m.val[f], n.val[f])
    <3>6. o = Put(m, f, Bit(f), v)
      BY <2>3, <3>2, <3>3, <3>5 DEF Overlay
    <3> HIDE DEF o, v
    <3>7. o = [has |-> {Bit(f)}, val |-> [g \in focus |-> IF g = f THEN v ELSE Default(g)],
               unknown |-> m.unknown]
      <4>1. Put(m, f, Bit(f), v) =
              [has |-> {Bit(f)} \union (IF IsOneof THEN {} ELSE m.has),
               val |-> [g \in focus |-> IF g = f THEN v ELSE IF IsOneof THEN Default(g) ELSE m.val[g]],
               unknown |-> m.unknown]
        BY PutIs
      <4>2. QED
        BY <2>3, <3>6, <4>1
    <3>8. o.has = {Bit(f)} /\ o.val[f] = v
      BY <3>7
    <3>9. Present(o) = {f}
      <4>1. ASSUME NEW g \in focus PROVE Has(o, g) <=> g = f
        BY <2>3, <3>4, <3>8, Kinds, HasIs, Bits
      <4>2. QED
        BY <4>1 DEF Present
    <3>10. [g \in Present(o) |-> o.val[g]] = [g \in {f} |-> v]
      BY <3>8, <3>9
    <3>11. CASE Present(m) = {f}
      <4>1. Has(m, f)
        BY <3>11 DEF Present
      <4>2. m.val[f] # NULL
        BY <3>4, <4>1, HasIs, FullField, NullAssumption DEF Sound, FieldSound
      <4>3. Joint(m, n) = [g \in {f} |-> Abstract!Joined(f, m.val[f], n.val[f])]
        BY <3>1, <3>11 DEF Joint
      <4>4. Abstract!Joined(f, m.val[f], n.val[f]) = v
        BY <4>2, JoinedIs DEF v
      <4>5. QED
        BY <1>5, <3>1, <3>10, <3>11, <4>3, <4>4
    <3>12. CASE Present(m) # {f}
      <4>1. Bit(f) \notin m.has
        <5>1. SUFFICES ASSUME Bit(f) \in m.has PROVE FALSE
          OBVIOUS
        <5>2. f \in Present(m)
          BY <3>4, <5>1, HasIs DEF Present
        <5>3. QED
          BY <2>3, <3>12, <5>2, OneofReads
      <4>2. v = n.val[f]
        BY <3>4, <3>5, <4>1, OnTopOfNothing DEF v
      <4>3. View(n).fields = [g \in {f} |-> n.val[f]]
        BY <3>1, ViewIs
      <4>4. QED
        BY <1>5, <2>3, <3>1, <3>10, <3>12, <4>2, <4>3
    <3>13. QED
      BY <3>11, <3>12
  <2>4. QED
    BY <2>1, <2>2, <2>3
<1>9. QED
  <2> DEFINE q == [f \in Present(r) |-> r.val[f]]
  <2>1. q = M.fields
    BY <1>7, <1>8
  <2>2. View(r) = [fields |-> q, unknown |-> r.unknown]
    BY ViewIs
  <2> HIDE DEF q
  <2>3. QED
    BY <1>4, <1>5, <2>1, <2>2 DEF r, M

\* The same within the bounds.
LEMMA MergedGood ==
  ASSUME Typed, NEW m, Good(m), NEW n, Good(n), Fits(MergedMessage(m, n))
  PROVE  /\ Good(MergedMessage(m, n))
         /\ View(MergedMessage(m, n)) = Abstract!Merged(View(m), View(n))
  BY MergedSound, MergedView DEF Good

\* CopyFrom gives a message that looks like the original.
LEMMA CopyGood ==
  ASSUME Typed, NEW m, Good(m), NEW n, Good(n)
  PROVE  LET r == MergedMessage(ClearedMessage(m), n) IN Good(r) /\ View(r) = View(n)
<1> DEFINE r == MergedMessage(ClearedMessage(m), n)
<1>1. Sound(r) /\ Alike(r, n)
  BY CopyIs DEF Good
<1> HIDE DEF r
<1>2. QED
  BY <1>1, AlikeFits, AlikeView DEF Good, r

\* So does the copy constructor.
LEMMA CopiedGood ==
  ASSUME Typed, NEW n, Good(n)
  PROVE  LET r == CopiedMessage(n) IN Good(r) /\ View(r) = View(n)
<1> DEFINE r == CopiedMessage(n)
<1>1. Sound(r) /\ Alike(r, n)
  BY CopiedIs DEF Good, Alike
<1> HIDE DEF r
<1>2. QED
  BY <1>1, AlikeFits, AlikeView DEF Good, r

\* The bytes of a message whose sender knows more fields.
Sent(n, extra) == [Serialized(n) EXCEPT !.unread = @ + extra]

\* Reading a message with more unread fields than its sender knows of.
LEMMA ReceivedIs ==
  ASSUME Typed, NEW m, Sound(m), NEW n, Sound(n), NEW extra \in Nat
  PROVE  ParsedInto(m, Sent(n, extra))
           = [MergedMessage(m, n) EXCEPT !.unknown = @ + extra]
<1> DEFINE wire == Sent(n, extra)
           P == Parsing(m, Serialized(n).pieces)[Len(Serialized(n).pieces)]
<1>1. wire.pieces = Serialized(n).pieces /\ wire.unread = n.unknown + extra
  BY DEF Serialized, Sent
<1>2. ParsedInto(m, Serialized(n)) = [P EXCEPT !.unknown = @ + n.unknown]
  BY DEF ParsedInto, Serialized
<1>3. ParsedInto(m, wire) = [P EXCEPT !.unknown = @ + (n.unknown + extra)]
  BY <1>1 DEF ParsedInto
<1>4. Sound(P)
  <2>1. FieldsAgree(type)
    BY TablesAgree DEF Typed, Agrees
  <2>2. Len(Serialized(n).pieces) \in 0..Len(IndexFields[type])
    BY <2>1, EntriesDistinct DEF FieldsAgree, Serialized
  <2>3. QED
    BY <2>2, ParsingIs, OverlaySound
<1>5. MergedMessage(m, n) = [P EXCEPT !.unknown = @ + n.unknown]
  BY <1>2, ParsingIsMerging
<1>6. n.unknown \in Nat /\ P.unknown \in Nat
  BY <1>4, SoundShape
<1> HIDE DEF P, wire
<1>7. MergedMessage(m, n) = [has |-> P.has, val |-> P.val, unknown |-> P.unknown + n.unknown]
  BY <1>4, <1>5, <1>6, WithUnknown
<1>8. ParsedInto(m, wire) = [has |-> P.has, val |-> P.val, unknown |-> P.unknown + (n.unknown + extra)]
  BY <1>3, <1>4, <1>6, WithUnknown
<1>9. QED
  BY <1>6, <1>7, <1>8 DEF wire

\* A message read into a cleared one looks like the one that was sent, except for the
\* fields that only the sender knows.
LEMMA ReceivedGood ==
  ASSUME Typed, NEW m, Good(m), NEW n, Good(n), NEW extra \in 0..1,
         NEW r, r = ParsedInto(ClearedMessage(m), Sent(n, extra)),
         Fits(r)
  PROVE  /\ Good(r)
         /\ extra = 0 => View(r) = View(n)
         /\ extra = 1 => View(r) = [View(n) EXCEPT !.unknown = @ + 1]
<1> DEFINE c == MergedMessage(ClearedMessage(m), n)
<1>1. Sound(ClearedMessage(m))
  BY ClearedIs DEF Good
<1>2. r = [c EXCEPT !.unknown = @ + extra]
  BY <1>1, ReceivedIs DEF Good
<1>3. Good(c) /\ View(c) = View(n)
  BY CopyGood
<1> HIDE DEF c
<1>4. Sound(r) /\ r.has = c.has /\ r.val = c.val /\ r.unknown = c.unknown + extra
  <2>1. extra \in Nat
    OBVIOUS
  <2>2. LET x == [c EXCEPT !.unknown = @ + extra] IN
        Sound(x) /\ x.has = c.has /\ x.val = c.val /\ x.unknown = c.unknown + extra
    BY <1>3, <2>1, WithUnknown DEF Good
  <2>3. QED
    BY <1>2, <2>2
<1>5. Present(r) = Present(c)
  BY <1>4 DEF Present, Has
<1> DEFINE q == [f \in Present(c) |-> c.val[f]]
<1>6. [f \in Present(r) |-> r.val[f]] = q
  BY <1>4, <1>5
<1>7. View(r) = [fields |-> [f \in Present(r) |-> r.val[f]], unknown |-> r.unknown]
  BY ViewIs
<1>8. View(r) = [fields |-> q, unknown |-> c.unknown + extra]
  BY <1>4, <1>6, <1>7
<1>9. View(c) = [fields |-> q, unknown |-> c.unknown]
  BY ViewIs
<1>10. c.unknown \in Nat
  BY <1>3, SoundShape DEF Good
<1> HIDE DEF q
<1>11. View(r) = [View(c) EXCEPT !.unknown = @ + extra]
  BY <1>8, <1>9
<1>12. extra = 0 => View(r) = View(c)
  BY <1>8, <1>9, <1>10
<1>13. QED
  BY <1>3, <1>4, <1>11, <1>12 DEF Good

\* What is left when the bytes end.
LEMMA CutOffIs ==
  ASSUME NEW r, NEW n, NEW g, g \in Present(n) \union {NULL}, Present(r) \subseteq Present(n),
         \A f \in Present(r) \ {g} : r.val[f] = n.val[f], r.unknown <= n.unknown
  PROVE  Abstract!CutOff(View(r), View(n))
<1>1. /\ Abstract!Fields(View(r)) = Present(r) /\ Abstract!Fields(View(n)) = Present(n)
      /\ View(r).unknown = r.unknown /\ View(n).unknown = n.unknown
      /\ View(r).fields = [f \in Present(r) |-> r.val[f]]
      /\ View(n).fields = [f \in Present(n) |-> n.val[f]]
  BY ViewIs
<1>2. ASSUME NEW f \in Present(r) \ {g} PROVE View(r).fields[f] = View(n).fields[f]
  BY <1>1
<1>3. QED
  BY <1>1, <1>2 DEF Abstract!CutOff

\* What has been read before some field.
LEMMA PartGood ==
  ASSUME Typed, NEW m, Good(m), NEW n, Good(n), NEW F
  PROVE  LET r == Overlay(ClearedMessage(m), n, F) IN
         /\ Good(r)
         /\ r.unknown = 0
         /\ Present(r) \subseteq Present(n) \intersect F
         /\ \A f \in Present(r) : r.val[f] = n.val[f]
         /\ \A f \in focus \ F : IF Kind(f) = "list" THEN r.val[f] = <<>> ELSE Bit(f) \notin r.has
<1> DEFINE r == Overlay(ClearedMessage(m), n, F)
<1>1. /\ Sound(r)
      /\ r.has = {Bit(f) : f \in Taken(n, F) \ Of("list")}
      /\ r.unknown = 0
      /\ \A f \in Taken(n, F) : r.val[f] = n.val[f]
      /\ \A f \in Of("list") \ F : r.val[f] = <<>>
  BY OverlayCleared DEF Good
<1> HIDE DEF r
<1>2. ASSUME NEW f \in focus, Kind(f) # "list", Bit(f) \in r.has PROVE f \in Taken(n, F)
  <2>1. PICK g \in Taken(n, F) \ Of("list") : Bit(f) = Bit(g)
    BY <1>1, <1>2
  <2>2. g \in focus /\ Kind(g) # "list"
    BY DEF Taken, Of
  <2>3. QED
    BY <1>2, <2>1, <2>2, Bits
<1>3. ASSUME NEW f \in focus, Has(r, f)
      PROVE  f \in F /\ Has(n, f) /\ r.val[f] = n.val[f]
  <2>1. CASE Kind(f) = "list"
    <3>1. f \in F
      BY <1>1, <1>3, <2>1, HasIs DEF Of
    <3>2. f \in Taken(n, F)
      BY <2>1, <3>1 DEF Taken
    <3>3. QED
      BY <1>1, <1>3, <2>1, <3>1, <3>2, HasIs
  <2>2. CASE Kind(f) # "list"
    <3>1. f \in Taken(n, F)
      BY <1>2, <1>3, <2>2, HasIs
    <3>2. QED
      BY <1>1, <2>2, <3>1, HasIs DEF Taken
  <2>3. QED
    BY <2>1, <2>2
<1>4. ASSUME NEW f \in focus \ F
      PROVE  IF Kind(f) = "list" THEN r.val[f] = <<>> ELSE Bit(f) \notin r.has
  BY <1>1, <1>2 DEF Of, Taken
<1>5. Fits(r)
  <2>1. ASSUME NEW f \in focus, Kind(f) = "list" PROVE Len(r.val[f]) <= MaxLen
    <3>1. CASE f \in F
      BY <1>1, <2>1, <3>1 DEF Taken, Good, Fits, Of
    <3>2. CASE f \notin F
      BY <1>4, <2>1, <3>2, BoundsAssumption
    <3>3. QED
      BY <3>1, <3>2
  <2>2. QED
    BY <1>1, <2>1, BoundsAssumption DEF Fits, Of
<1>6. Present(r) \subseteq Present(n) \intersect F /\ \A f \in Present(r) : r.val[f] = n.val[f]
  BY <1>3 DEF Present
<1>7. QED
  BY <1>1, <1>4, <1>5, <1>6 DEF Good, r
-----------------------------------------------------------------------------
(* A reply that is cut off *)

\* What the items of a piece are.
LEMMA ItemsIs ==
  ASSUME Typed, NEW n, Good(n), NEW k \in DOMAIN IndexWritten[type],
         NEW f, f = Entry(k)[1], NEW p, p = Piece(Entry(k), n), p.items # <<>>
  PROVE  /\ f \in focus
         /\ f \in Present(n)
         /\ Kind(f) = "list" => p.items \in Seq(Elem) /\ Len(p.items) <= MaxLen
         /\ Kind(f) # "list" => p.items = <<n.val[f]>>
<1>1. p.items = IF f \notin focus THEN <<>>
                ELSE IF Kind(f) = "list" THEN n.val[f]
                ELSE IF Bit(f) \in n.has THEN <<Get(n, f)>>
                ELSE <<>>
  BY PieceIs DEF Good
<1>2. f \in focus
  BY <1>1
<1>3. FieldSound(n, f)
  BY <1>2 DEF Good, Sound
<1>4. CASE Kind(f) = "list"
  <2>1. p.items = n.val[f]
    BY <1>1, <1>2, <1>4
  <2>2. n.val[f] \in Seq(Elem)
    BY <1>2, <1>3, <1>4, FullField DEF FieldSound
  <2>3. Len(n.val[f]) <= MaxLen
    BY <1>2, <1>4 DEF Good, Fits, Of
  <2>4. Has(n, f)
    BY <1>2, <1>4, <2>1, HasIs
  <2>5. QED
    BY <1>2, <1>4, <2>1, <2>2, <2>3, <2>4 DEF Present
<1>5. CASE Kind(f) # "list"
  <2>1. Bit(f) \in n.has /\ p.items = <<Get(n, f)>>
    BY <1>1, <1>2, <1>5
  <2>2. Get(n, f) = n.val[f]
    BY <1>2, <2>1, SoundReads DEF Good
  <2>3. Has(n, f)
    BY <1>2, <1>5, <2>1, HasIs
  <2>4. QED
    BY <1>2, <1>5, <2>1, <2>2, <2>3 DEF Present
<1>6. QED
  BY <1>4, <1>5

\* Reading some of the items of a piece, or others in their place.
LEMMA ReadGood ==
  ASSUME Typed, NEW m, Good(m), NEW n, Good(n), NEW k \in DOMAIN IndexWritten[type],
         NEW p, p = Piece(Entry(k), n), p.items # <<>>,
         NEW f, f = Entry(k)[1], NEW seq,
         \/ seq = <<>>
         \/ Kind(f) = "list" /\ seq \in Seq(Elem) /\ Len(seq) <= MaxLen
         \/ Kind(f) # "list" /\ seq[1] \in Full(f),
         NEW r, r = ParsedPiece(Overlay(ClearedMessage(m), n, Upto(k - 1)), [p EXCEPT !.items = seq])
  PROVE  Good(r) /\ Abstract!CutOff(View(r), View(n))
<1> DEFINE r0 == Overlay(ClearedMessage(m), n, Upto(k - 1))
           q  == [p EXCEPT !.items = seq]
<1>1. f \in focus /\ f \in Present(n)
  BY ItemsIs
<1>2. q.tag = EntryTag(k) /\ q.items = seq
  <2>1. p = [tag |-> EntryTag(k), items |-> p.items]
    BY PieceIs DEF Good
  <2>2. q = [tag |-> EntryTag(k), items |-> seq]
    BY <2>1
  <2>3. QED
    BY <2>2
<1>3. f \notin Upto(k - 1)
  <2>1. k \in 1..Len(IndexFields[type]) /\ k \in Int
    BY EntriesDistinct
  <2>2. \A j \in 1..(k - 1) : j \in DOMAIN IndexWritten[type] /\ Entry(j)[1] # f
    BY <2>1, EntriesDistinct
  <2>3. QED
    BY <2>2 DEF Upto
<1>4. /\ Good(r0)
      /\ r0.unknown = 0
      /\ Present(r0) \subseteq Present(n)
      /\ \A g \in Present(r0) : r0.val[g] = n.val[g]
      /\ IF Kind(f) = "list" THEN r0.val[f] = <<>> ELSE Bit(f) \notin r0.has
  BY <1>1, <1>3, PartGood
<1>5. r = ParsedPiece(r0, q)
  OBVIOUS
<1>6. n.unknown \in Nat
  BY SoundShape DEF Good
<1> HIDE DEF r0, q
<1>7. CASE seq = <<>>
  <2>1. r = r0
    BY <1>2, <1>5, <1>7, ParsedNothing
  <2>2. Abstract!CutOff(View(r0), View(n))
    BY <1>1, <1>4, <1>6, CutOffIs
  <2>3. QED
    BY <1>4, <2>1, <2>2
<1>8. CASE seq # <<>> /\ Kind(f) = "list" /\ seq \in Seq(Elem) /\ Len(seq) <= MaxLen
  <2>1. r = Longer(r0, f, seq)
    BY <1>1, <1>2, <1>5, <1>8, ParsedItems
  <2>2. OnTop(f, r0.val[f], seq) = seq
    <3>1. seq \in Full(f)
      BY <1>1, <1>8, FullField
    <3>2. QED
      BY <1>1, <1>4, <1>8, <3>1, OnTopOfNothing DEF Good
  <2>3. r = [r0 EXCEPT !.val[f] = seq]
    BY <2>1, <2>2 DEF Longer
  <2>4. r = Edited(r0, f, r0.has, seq)
    <3>1. r = Revalued(r0, f, seq)
      BY <2>3 DEF Revalued
    <3>2. QED
      BY <1>1, <1>4, <3>1, EditIs DEF Good
  <2>5. /\ Good(r)
        /\ Present(r) \subseteq {f} \union Present(r0)
        /\ \A g \in Present(r) \ {f} : r.val[g] = r0.val[g]
        /\ r.unknown = r0.unknown
    BY <1>1, <1>4, <1>8, <2>4, ListGood
  <2>6. Present(r) \subseteq Present(n) /\ \A g \in Present(r) \ {f} : r.val[g] = n.val[g]
    BY <1>1, <1>4, <2>5
  <2>7. Abstract!CutOff(View(r), View(n))
    BY <1>1, <1>4, <1>6, <2>5, <2>6, CutOffIs
  <2>8. QED
    BY <2>5, <2>7
<1>9. CASE seq # <<>> /\ Kind(f) # "list" /\ seq[1] \in Full(f)
  <2>1. r = Put(r0, f, Bit(f), OnTop(f, r0.val[f], seq[1]))
    BY <1>1, <1>2, <1>5, <1>9, ParsedItems
  <2>2. OnTop(f, r0.val[f], seq[1]) = seq[1]
    BY <1>1, <1>4, <1>9, OnTopOfNothing DEF Good
  <2>3. r = Put(r0, f, Bit(f), seq[1])
    BY <2>1, <2>2
  <2>4. r.unknown = r0.unknown
    BY <1>1, <1>4, <2>3, PutIs DEF Good
  <2>5. /\ Good(r)
        /\ Present(r) \subseteq {f} \union Present(r0)
        /\ \A g \in Present(r) \ {f} : r.val[g] = r0.val[g]
    BY <1>1, <1>4, <1>9, <2>3, PutGood
  <2>6. Present(r) \subseteq Present(n) /\ \A g \in Present(r) \ {f} : r.val[g] = n.val[g]
    BY <1>1, <1>4, <2>5
  <2>7. Abstract!CutOff(View(r), View(n))
    BY <1>1, <1>4, <1>6, <2>4, <2>5, <2>6, CutOffIs
  <2>8. QED
    BY <2>5, <2>7
<1>10. QED
  BY <1>7, <1>8, <1>9
-----------------------------------------------------------------------------
(* Calls on one object *)

\* The inductive invariant.
AllGood == Typed /\ msg = [o \in Obj |-> msg[o]] /\ \A o \in Obj : Good(msg[o])

\* What a call may make of a message m, and what one that reads a message n may.
Changed(m, r) ==
  \/ View(r) = Abstract!Nothing
  \/ \E f \in focus : View(r) = Abstract!Without(View(m), f)
  \/ \E f \in Present(r) : View(r) = Abstract!With(View(m), f, r.val[f])
Combined(m, n, r) ==
  \/ View(r) = View(n)
  \/ View(r) = [View(n) EXCEPT !.unknown = @ + 1]
  \/ View(r) = Abstract!Merged(View(m), View(n))
  \/ Abstract!CutOff(View(r), View(n))

\* A call on one object, and on two.
Changes(o) == \E r : Becomes(o, r) /\ Good(r) /\ Changed(msg[o], r)
Combines(o, p) == \E r : Becomes(o, r) /\ Good(r) /\ Combined(msg[o], msg[p], r)

\* The construction of a message.
LEMMA NewStep == ASSUME AllGood, NEW o \in Obj, New(o) PROVE Changes(o)
<1>1. Becomes(o, Blank)
  BY BuiltIs DEF New, AllGood
<1>2. QED
  BY <1>1, BlankGood DEF AllGood, Changes, Changed

\* Clear().
LEMMA ClearStep == ASSUME AllGood, NEW o \in Obj, Clear(o) PROVE Changes(o)
  BY ClearedGood DEF AllGood, Clear, Changes, Changed

\* A call that sets a member.
LEMMA PutStep ==
  ASSUME AllGood, NEW o \in Obj, NEW f \in focus, Kind(f) # "list", NEW v \in Values(f),
         Becomes(o, Put(msg[o], f, Bit(f), v))
  PROVE  Changes(o)
<1>1. v \in Full(f)
  BY Kinds DEF AllGood, Values, Full
<1> DEFINE r == Put(msg[o], f, Bit(f), v)
<1>2. Good(r) /\ View(r) = Abstract!With(View(msg[o]), f, v) /\ f \in Present(r) /\ r.val[f] = v
  BY <1>1, PutGood DEF AllGood
<1> HIDE DEF r
<1>3. Becomes(o, r)
  BY DEF r
<1>4. QED
  BY <1>2, <1>3 DEF Changes, Changed

\* A call that drops a member and its bit.
LEMMA DropStep ==
  ASSUME AllGood, NEW o \in Obj, NEW f \in focus, Kind(f) # "list",
         NEW v, IF Kind(f) = "sub" THEN v \in {NULL, {}} ELSE v = 0,
         Becomes(o, Dropped(msg[o], f, v))
  PROVE  Changes(o)
<1> DEFINE r == Dropped(msg[o], f, v)
<1>1. r = Edited(msg[o], f, msg[o].has \ {Bit(f)}, v)
  BY DropIs DEF AllGood, Good
<1>2. Good(Edited(msg[o], f, msg[o].has \ {Bit(f)}, v))
      /\ View(Edited(msg[o], f, msg[o].has \ {Bit(f)}, v)) = Abstract!Without(View(msg[o]), f)
  BY DropGood DEF AllGood
<1>3. Becomes(o, r)
  OBVIOUS
<1> HIDE DEF r
<1>4. QED
  BY <1>1, <1>2, <1>3 DEF Changes, Changed

\* A call that finds nothing to drop.
LEMMA IdleStep ==
  ASSUME AllGood, NEW o \in Obj, NEW f \in focus, Kind(f) # "list", Bit(f) \notin msg[o].has,
         Becomes(o, msg[o])
  PROVE  Changes(o)
<1>1. f \notin Present(msg[o])
  BY HasIs DEF AllGood, Present
<1>2. View(msg[o]) = Abstract!Without(View(msg[o]), f)
  BY <1>1, WithoutSame
<1>3. QED
  BY <1>2 DEF AllGood, Changes, Changed

\* A call that gives a field another list.
LEMMA ListStep ==
  ASSUME AllGood, NEW o \in Obj, NEW f \in focus, Kind(f) = "list", NEW q \in Seq(Elem),
         Len(q) <= MaxLen, Becomes(o, Revalued(msg[o], f, q))
  PROVE  Changes(o)
<1> DEFINE r == Edited(msg[o], f, msg[o].has, q)
<1>1. Revalued(msg[o], f, q) = r
  BY EditIs DEF AllGood, Good
<1>2. /\ Good(r)
      /\ q = <<>> => View(r) = Abstract!Without(View(msg[o]), f)
      /\ q # <<>> => View(r) = Abstract!With(View(msg[o]), f, q) /\ f \in Present(r) /\ r.val[f] = q
  BY ListGood DEF AllGood
<1> HIDE DEF r
<1>3. QED
  BY <1>1, <1>2 DEF Changes, Changed

\* set_...() and mutable_...().
LEMMA SetStep ==
  ASSUME AllGood, NEW o \in Obj, NEW f \in focus, Set(o, f) \/ Mutable(o, f)
  PROVE  Changes(o)
<1>1. Kind(f) # "list"
  BY DEF Set, Mutable
<1>2. PICK v \in Values(f) : Becomes(o, Put(msg[o], f, Bit(f), v))
  BY DEF Set, Mutable, Bit
<1>3. QED
  BY <1>1, <1>2, PutStep

\* add_...().
LEMMA AddStep ==
  ASSUME AllGood, NEW o \in Obj, NEW f \in focus, Add(o, f)
  PROVE  Changes(o)
<1> DEFINE old == msg[o].val[f]
<1>1. Kind(f) = "list" /\ Len(old) < MaxLen
  BY DEF Add
<1>2. PICK e \in Elem : Becomes(o, [msg[o] EXCEPT !.val[f] = Append(@, e)])
  BY DEF Add
<1>3. old \in Seq(Elem)
  BY <1>1, FullField DEF AllGood, Good, Sound, FieldSound
<1>4. Append(old, e) \in Seq(Elem) /\ Len(Append(old, e)) = Len(old) + 1 /\ Len(old) \in Nat
  BY <1>3, AppendProperties, LenProperties
<1>5. [msg[o] EXCEPT !.val[f] = Append(@, e)] = Revalued(msg[o], f, Append(old, e))
  BY DEF Revalued
<1>6. Len(Append(old, e)) <= MaxLen
  BY <1>1, <1>4, BoundsAssumption
<1>7. QED
  BY <1>1, <1>2, <1>4, <1>5, <1>6, ListStep

\* What a member is left with.
LEMMA EmptiedIs ==
  ASSUME Typed, NEW f \in focus, Kind(f) # "list", NEW v
  PROVE  /\ Kind(f) = "sub" => Emptied(f, v) \in {NULL, {}} /\ Default(f) = NULL
         /\ Kind(f) # "sub" => Emptied(f, v) = 0 /\ Default(f) = 0
  BY Kinds, DefaultField DEF Emptied

\* clear_...().
LEMMA ClearFieldStep ==
  ASSUME AllGood, NEW o \in Obj, NEW f \in focus, ClearField(o, f)
  PROVE  Changes(o)
<1> DEFINE m == msg[o]
<1>1. CASE Kind(f) = "list"
  <2>1. Becomes(o, Revalued(m, f, <<>>))
    BY <1>1 DEF ClearField, Revalued
  <2>2. <<>> \in Seq(Elem) /\ Len(<<>>) <= MaxLen
    BY EmptySeq, BoundsAssumption
  <2>3. QED
    BY <1>1, <2>1, <2>2, ListStep
<1>2. CASE Kind(f) # "list" /\ IsOneof /\ Bit(f) \notin m.has
  <2>1. Becomes(o, m)
    BY <1>2 DEF ClearField, Bit
  <2>2. QED
    BY <1>2, <2>1, IdleStep
<1>3. CASE Kind(f) # "list" /\ ~(IsOneof /\ Bit(f) \notin m.has)
  <2>1. Becomes(o, Dropped(m, f, Emptied(f, m.val[f])))
    <3>1. ClearField(o, f) <=>
            Becomes(o, [m EXCEPT !.has = @ \ {Bit(f)}, !.val[f] = Emptied(f, @)])
      BY <1>3 DEF ClearField, Bit
    <3>2. [m EXCEPT !.has = @ \ {Bit(f)}, !.val[f] = Emptied(f, @)]
          = Dropped(m, f, Emptied(f, m.val[f]))
      BY DEF Dropped
    <3>3. QED
      BY <3>1, <3>2
  <2>2. QED
    BY <1>3, <2>1, EmptiedIs, DropStep DEF AllGood
<1>4. QED
  BY <1>1, <1>2, <1>3

\* release_...().
LEMMA ReleaseStep ==
  ASSUME AllGood, NEW o \in Obj, NEW f \in focus, Release(o, f)
  PROVE  Changes(o)
<1> DEFINE m == msg[o]
<1>1. Kind(f) # "list"
  BY DEF Release
<1>2. CASE Bit(f) \notin m.has /\ (IsOneof \/ Kind(f) = "text")
  <2>1. Becomes(o, m)
    BY <1>2 DEF Release, Bit
  <2>2. QED
    BY <1>1, <1>2, <2>1, IdleStep
<1>3. CASE ~(Bit(f) \notin m.has /\ (IsOneof \/ Kind(f) = "text"))
  <2>1. Becomes(o, Dropped(m, f, Default(f)))
    BY <1>3 DEF Release, Bit, Dropped
  <2>2. QED
    BY <1>1, <2>1, EmptiedIs, DropStep DEF AllGood
<1>4. QED
  BY <1>2, <1>3

\* set_allocated_...(), with a message or with a null pointer.
LEMMA SetAllocatedStep ==
  ASSUME AllGood, NEW o \in Obj, NEW f \in focus, SetAllocated(o, f)
  PROVE  Changes(o)
<1> DEFINE m == msg[o]
           bit == IF IsOneof THEN IndexMarks[type][f] ELSE IndexBits[type][f]
<1>1. Kind(f) # "list"
  BY DEF SetAllocated
<1>2. bit = Bit(f)
  BY <1>1, BitOfField, FocusInType DEF AllGood, Bit
<1>3. \/ \E v \in Values(f) : Becomes(o, Put(m, f, bit, v))
      \/ Becomes(o, IF IsOneof THEN [Blank EXCEPT !.unknown = m.unknown]
                    ELSE [m EXCEPT !.has = @ \ {bit}, !.val[f] = Default(f)])
  BY DEF SetAllocated
<1>4. CASE \E v \in Values(f) : Becomes(o, Put(m, f, bit, v))
  BY <1>1, <1>2, <1>4, PutStep
<1>5. CASE IsOneof /\ Becomes(o, [Blank EXCEPT !.unknown = m.unknown])
  <2> DEFINE r == [Blank EXCEPT !.unknown = m.unknown]
  <2>1. Good(r) /\ \E g \in focus : View(r) = Abstract!Without(View(m), g)
    BY <1>5, ResetGood DEF AllGood
  <2> HIDE DEF r
  <2>2. QED
    BY <1>5, <2>1 DEF Changes, Changed, r
<1>6. CASE ~IsOneof /\ Becomes(o, [m EXCEPT !.has = @ \ {bit}, !.val[f] = Default(f)])
  <2>1. Becomes(o, Dropped(m, f, Default(f)))
    BY <1>2, <1>6 DEF Dropped
  <2>2. QED
    BY <1>1, <2>1, EmptiedIs, DropStep DEF AllGood
<1>7. QED
  BY <1>3, <1>4, <1>5, <1>6
-----------------------------------------------------------------------------
(* Calls on two objects *)

\* MergeFrom().
LEMMA MergeStep ==
  ASSUME AllGood, NEW o \in Obj, NEW p \in Obj, MergeFrom(o, p)
  PROVE  Combines(o, p)
<1> DEFINE r == MergedMessage(msg[o], msg[p])
<1>1. Fits(r) /\ Becomes(o, r)
  BY DEF MergeFrom
<1>2. Good(r) /\ View(r) = Abstract!Merged(View(msg[o]), View(msg[p]))
  BY <1>1, MergedGood DEF AllGood
<1> HIDE DEF r
<1>3. QED
  BY <1>1, <1>2 DEF Combines, Combined

\* CopyFrom() and the copy constructor.
LEMMA CopyStep ==
  ASSUME AllGood, NEW o \in Obj, NEW p \in Obj, CopyFrom(o, p) \/ CopyConstruct(o, p)
  PROVE  Combines(o, p)
<1>1. CASE CopyFrom(o, p)
  <2> DEFINE r == MergedMessage(ClearedMessage(msg[o]), msg[p])
  <2>1. Becomes(o, r)
    BY <1>1 DEF CopyFrom
  <2>2. Good(r) /\ View(r) = View(msg[p])
    BY CopyGood DEF AllGood
  <2> HIDE DEF r
  <2>3. QED
    BY <2>1, <2>2 DEF Combines, Combined
<1>2. CASE CopyConstruct(o, p)
  <2> DEFINE r == CopiedMessage(msg[p])
  <2>1. Becomes(o, r)
    BY <1>2 DEF CopyConstruct
  <2>2. Good(r) /\ View(r) = View(msg[p])
    BY CopiedGood DEF AllGood
  <2> HIDE DEF r
  <2>3. QED
    BY <2>1, <2>2 DEF Combines, Combined
<1>3. QED
  BY <1>1, <1>2

\* ClientReader::Read: Clear(), then the parser.
LEMMA ReceiveStep ==
  ASSUME AllGood, NEW o \in Obj, NEW p \in Obj, Receive(o, p)
  PROVE  Combines(o, p)
<1> DEFINE R(extra) == ParsedInto(ClearedMessage(msg[o]), Sent(msg[p], extra))
<1>1. PICK extra \in 0..1 : Fits(R(extra)) /\ Becomes(o, R(extra))
  BY DEF Receive, Sent
<1>2. PICK r : r = R(extra)
  OBVIOUS
<1>3. Fits(r) /\ Becomes(o, r)
  BY <1>1, <1>2
<1>4. /\ Good(r)
      /\ extra = 0 => View(r) = View(msg[p])
      /\ extra = 1 => View(r) = [View(msg[p]) EXCEPT !.unknown = @ + 1]
  BY <1>2, <1>3, ReceivedGood DEF AllGood
<1>5. QED
  BY <1>3, <1>4 DEF Combines, Combined

\* The parser, without Clear().
LEMMA ParseOnTopStep ==
  ASSUME AllGood, NEW o \in Obj, NEW p \in Obj, ParseOnTop(o, p)
  PROVE  Combines(o, p)
<1>1. ParsedInto(msg[o], Serialized(msg[p])) = MergedMessage(msg[o], msg[p])
  BY ParsingIsMerging DEF AllGood, Good
<1>2. MergeFrom(o, p)
  BY <1>1 DEF ParseOnTop, MergeFrom
<1>3. QED
  BY <1>2, MergeStep

\* The message after the first fields of another one.
LEMMA ParsingSome ==
  ASSUME AllGood, NEW m, Good(m), NEW n, Good(n)
  PROVE  /\ DOMAIN Serialized(n).pieces = DOMAIN IndexWritten[type]
         /\ \A k \in DOMAIN IndexWritten[type] :
              /\ Serialized(n).pieces[k] = Piece(Entry(k), n)
              /\ Parsing(ClearedMessage(m), Serialized(n).pieces)[k - 1]
                   = Overlay(ClearedMessage(m), n, Upto(k - 1))
         /\ Parsing(ClearedMessage(m), Serialized(n).pieces)[Len(Serialized(n).pieces)]
              = Overlay(ClearedMessage(m), n, Upto(Len(IndexFields[type])))
<1> DEFINE L == Len(IndexFields[type])
<1>1. L \in Nat /\ DOMAIN IndexWritten[type] = 1..L
  <2>1. FieldsAgree(type)
    BY TablesAgree DEF AllGood, Typed, Agrees
  <2>2. QED
    BY <2>1, EntriesDistinct DEF AllGood, FieldsAgree
<1>2. Serialized(n).pieces = [i \in 1..L |-> Piece(IndexWritten[type][i], n)]
  BY <1>1 DEF Serialized
<1>3. Len(Serialized(n).pieces) = L
  BY <1>1, <1>2
<1>4. ASSUME NEW k \in 1..L PROVE k - 1 \in 0..L
  BY <1>1
<1>5. Sound(ClearedMessage(m))
  BY ClearedIs DEF AllGood, Good
<1>6. ASSUME NEW k \in 0..L
      PROVE  Parsing(ClearedMessage(m), Serialized(n).pieces)[k]
               = Overlay(ClearedMessage(m), n, Upto(k))
  BY <1>5, ParsingIs DEF AllGood, Good
<1>7. L \in 0..L
  BY <1>1
<1>8. QED
  BY <1>1, <1>2, <1>3, <1>4, <1>6, <1>7 DEF Entry

\* A reply that is cut off or malformed leaves part of the message that was sent.
LEMMA BrokenStep ==
  ASSUME AllGood, NEW o \in Obj, NEW p \in Obj, Broken(o, p)
  PROVE  Combines(o, p)
<1> DEFINE m == msg[o]
           n == msg[p]
           wire == Serialized(n)
           after == Parsing(ClearedMessage(m), wire.pieces)
           Read(k, seq) == ParsedPiece(after[k - 1], [wire.pieces[k] EXCEPT !.items = seq])
<1>1. Good(m) /\ Good(n) /\ Typed
  BY DEF AllGood
<1>2. ASSUME NEW k \in DOMAIN wire.pieces, NEW j \in DOMAIN wire.pieces[k].items, NEW seq,
             Becomes(o, Read(k, seq)),
             \/ seq = SubSeq(wire.pieces[k].items, 1, j - 1)
             \/ \E f \in focus :
                  /\ IndexParsed[type][f] = <<wire.pieces[k].tag \div 8, wire.pieces[k].tag % 256>>
                  /\ \E v \in (IF Kind(f) = "list" THEN Elem ELSE Values(f)) :
                       seq = Append(SubSeq(wire.pieces[k].items, 1, j - 1), v)
      PROVE  Combines(o, p)
  <2>1. PICK q : q = Piece(Entry(k), n)
    OBVIOUS
  <2>2. k \in DOMAIN IndexWritten[type] /\ wire.pieces[k] = q
        /\ after[k - 1] = Overlay(ClearedMessage(m), n, Upto(k - 1))
    BY <1>1, <2>1, ParsingSome
  <2>3. PICK f : f = Entry(k)[1]
    OBVIOUS
  <2>4. q.items # <<>> /\ j \in DOMAIN q.items
    BY <2>2
  <2>5. /\ f \in focus
        /\ Kind(f) = "list" => q.items \in Seq(Elem) /\ Len(q.items) <= MaxLen
        /\ Kind(f) # "list" => q.items = <<n.val[f]>>
    BY <1>1, <2>1, <2>2, <2>3, <2>4, ItemsIs
  <2>6. q.tag = EntryTag(k)
    <3>1. q = [tag |-> EntryTag(k), items |-> q.items]
      BY <1>1, <2>1, <2>2, PieceIs DEF Good
    <3>2. QED
      BY <3>1
  <2> DEFINE before == SubSeq(q.items, 1, j - 1)
  <2>7. CASE Kind(f) = "list"
    <3>1. j \in 1..Len(q.items) /\ Len(q.items) \in Nat
      BY <2>4, <2>5, <2>7, LenProperties
    <3>2. before \in Seq(Elem) /\ Len(before) = j - 1
      <4>1. \A i \in 1..(j - 1) : q.items[i] \in Elem
        BY <2>5, <2>7, <3>1, ElementOfSeq
      <4>2. QED
        BY <3>1, <4>1, SubSeqProperties
    <3>3. ASSUME NEW v \in Elem
          PROVE  Append(before, v) \in Seq(Elem) /\ Len(Append(before, v)) = j
      BY <3>1, <3>2, AppendProperties
    <3> HIDE DEF before
    <3>5. seq \in Seq(Elem) /\ Len(seq) <= MaxLen
      <4>1. CASE seq = before
        BY <2>5, <2>7, <3>1, <3>2, <4>1, BoundsAssumption
      <4>2. CASE seq # before
        <5>1. PICK g \in focus :
                /\ IndexParsed[type][g] = <<q.tag \div 8, q.tag % 256>>
                /\ \E v \in (IF Kind(g) = "list" THEN Elem ELSE Values(g)) : seq = Append(before, v)
          BY <1>2, <2>2, <4>2 DEF before
        <5>2. g = f
          BY <1>1, <2>2, <2>3, <2>6, <5>1, KnownIs DEF Known
        <5>3. PICK v \in Elem : seq = Append(before, v)
          BY <2>7, <5>1, <5>2
        <5>4. QED
          BY <2>5, <2>7, <3>1, <3>3, <5>3, BoundsAssumption
      <4>3. QED
        BY <4>1, <4>2
    <3>6. QED
      BY <1>1, <1>2, <2>1, <2>2, <2>3, <2>4, <2>7, <3>5, ReadGood DEF Combines, Combined
  <2>8. CASE Kind(f) # "list"
    <3>1. j = 1
      BY <2>4, <2>5, <2>8
    <3>2. before = <<>>
      BY <3>1, SubSeqEmpty
    <3> HIDE DEF before
    <3>3. seq = <<>> \/ seq[1] \in Full(f)
      <4>1. CASE seq # before
        <5>1. PICK g \in focus :
                /\ IndexParsed[type][g] = <<q.tag \div 8, q.tag % 256>>
                /\ \E v \in (IF Kind(g) = "list" THEN Elem ELSE Values(g)) : seq = Append(before, v)
          BY <1>2, <2>2, <4>1 DEF before
        <5>2. g = f
          BY <1>1, <2>2, <2>3, <2>6, <5>1, KnownIs DEF Known
        <5>3. PICK v \in Values(f) : seq = Append(before, v)
          BY <2>8, <5>1, <5>2
        <5>4. seq[1] = v
          BY <3>2, <5>3
        <5>5. v \in Full(f)
          BY <1>1, <2>5, <2>8, Kinds DEF Values, Full
        <5>6. QED
          BY <5>4, <5>5
      <4>2. QED
        BY <3>2, <4>1
    <3>4. QED
      BY <1>1, <1>2, <2>1, <2>2, <2>3, <2>4, <2>8, <3>3, ReadGood DEF Combines, Combined
  <2>9. QED
    BY <2>7, <2>8
<1>3. ASSUME NEW x \in 0..(wire.unread - 1),
             Becomes(o, [after[Len(wire.pieces)] EXCEPT !.unknown = @ + x])
      PROVE  Combines(o, p)
  <2> DEFINE F == Upto(Len(IndexFields[type]))
             r0 == Overlay(ClearedMessage(m), n, F)
             r == [r0 EXCEPT !.unknown = @ + x]
  <2>1. after[Len(wire.pieces)] = r0
    BY <1>1, ParsingSome
  <2>2. /\ Good(r0)
        /\ r0.unknown = 0
        /\ Present(r0) \subseteq Present(n)
        /\ \A f \in Present(r0) : r0.val[f] = n.val[f]
    BY <1>1, PartGood
  <2>3. n.unknown \in Nat /\ wire.unread = n.unknown
    BY <1>1, SoundShape DEF Good, Serialized
  <2>4. x \in Nat /\ x <= n.unknown
    BY <2>3
  <2>5. Becomes(o, r)
    BY <1>3, <2>1
  <2> HIDE DEF r0, F
  <2>6. Sound(r) /\ r.has = r0.has /\ r.val = r0.val /\ r.unknown = r0.unknown + x
    BY <2>2, <2>4, WithUnknown DEF Good
  <2> HIDE DEF r
  <2>7. r.unknown <= n.unknown
    BY <2>2, <2>4, <2>6
  <2>8. Present(r) = Present(r0)
    BY <2>6 DEF Present, Has
  <2>9. Good(r)
    <3>1. n.unknown <= MaxUnknown
      BY <1>1 DEF Good, Fits
    <3>2. r.unknown <= MaxUnknown
      BY <2>2, <2>3, <2>4, <2>6, <3>1, BoundsAssumption
    <3>3. QED
      BY <2>2, <2>6, <3>2 DEF Good, Fits
  <2>10. Abstract!CutOff(View(r), View(n))
    BY <2>2, <2>6, <2>7, <2>8, CutOffIs
  <2>11. QED
    BY <2>5, <2>9, <2>10 DEF Combines, Combined
<1>4. CASE \E k \in DOMAIN wire.pieces : \E j \in DOMAIN wire.pieces[k].items :
             LET piece  == wire.pieces[k]
                 before == SubSeq(piece.items, 1, j - 1) IN
             \/ Becomes(o, Read(k, before))
             \/ \E f \in focus :
                  /\ IndexParsed[type][f] = <<piece.tag \div 8, piece.tag % 256>>
                  /\ \E v \in (IF Kind(f) = "list" THEN Elem ELSE Values(f)) :
                       Becomes(o, Read(k, Append(before, v)))
  <2> DEFINE Case(k, j) ==
               LET piece  == wire.pieces[k]
                   before == SubSeq(piece.items, 1, j - 1) IN
               \/ Becomes(o, Read(k, before))
               \/ \E f \in focus :
                    /\ IndexParsed[type][f] = <<piece.tag \div 8, piece.tag % 256>>
                    /\ \E v \in (IF Kind(f) = "list" THEN Elem ELSE Values(f)) :
                         Becomes(o, Read(k, Append(before, v)))
  <2>5. PICK k \in DOMAIN wire.pieces : \E j \in DOMAIN wire.pieces[k].items : Case(k, j)
    BY <1>4
  <2>1. PICK j \in DOMAIN wire.pieces[k].items : Case(k, j)
    BY <2>5
  <2> DEFINE before == SubSeq(wire.pieces[k].items, 1, j - 1)
  <2>2. CASE Becomes(o, Read(k, before))
    BY <1>2, <2>2
  <2>3. CASE ~Becomes(o, Read(k, before))
    <3>1. PICK f \in focus :
             /\ IndexParsed[type][f] = <<wire.pieces[k].tag \div 8, wire.pieces[k].tag % 256>>
             /\ \E v \in (IF Kind(f) = "list" THEN Elem ELSE Values(f)) :
                  Becomes(o, Read(k, Append(before, v)))
      BY <2>1, <2>3
    <3>2. PICK v \in (IF Kind(f) = "list" THEN Elem ELSE Values(f)) :
             Becomes(o, Read(k, Append(before, v)))
      BY <3>1
    <3>3. PICK seq : seq = Append(before, v)
      OBVIOUS
    <3>4. Becomes(o, Read(k, seq))
      BY <3>2, <3>3
    <3>5. \E g \in focus :
            /\ IndexParsed[type][g] = <<wire.pieces[k].tag \div 8, wire.pieces[k].tag % 256>>
            /\ \E e \in (IF Kind(g) = "list" THEN Elem ELSE Values(g)) :
                 seq = Append(SubSeq(wire.pieces[k].items, 1, j - 1), e)
      BY <3>1, <3>2, <3>3
    <3> HIDE DEF wire, after, Read, before
    <3>6. QED
      BY <1>2, <3>4, <3>5
  <2>4. QED
    BY <2>2, <2>3
<1>5. CASE \E x \in 0..(wire.unread - 1) :
             Becomes(o, [after[Len(wire.pieces)] EXCEPT !.unknown = @ + x])
  BY <1>3, <1>5
<1>6. QED
  BY <1>4, <1>5 DEF Broken
-----------------------------------------------------------------------------
(* The inductive invariant *)

\* What is said of a message does not change while the type and the fields do not.
LEMMA GoodLater ==
  ASSUME UNCHANGED <<type, focus>>, NEW o \in Obj
  PROVE  Good(msg[o])' <=> Good(msg'[o])
<1>1. type' = type /\ focus' = focus
  OBVIOUS
<1>2. QED
  BY <1>1 DEF Good, Sound, Shape, OneCase, FieldSound, Full, Fits, Kind, Of, Bit, IsOneof

\* Nor does what its user sees.
LEMMA ViewLater ==
  ASSUME UNCHANGED <<type, focus>>, NEW o \in Obj
  PROVE  View(msg[o])' = View(msg'[o])
<1>1. type' = type /\ focus' = focus
  OBVIOUS
<1>2. QED
  BY <1>1 DEF View, Has, Kind

\* The objects as their users see them.
Views == [o \in Obj |-> View(msg[o])]

\* At the start all objects are good and look empty.
LEMMA Starts == Init => AllGood /\ Views = [o \in Obj |-> Abstract!Nothing]
<1>1. SUFFICES ASSUME Init PROVE AllGood /\ Views = [o \in Obj |-> Abstract!Nothing]
  OBVIOUS
<1>2. Typed /\ msg = [o \in Obj |-> BuiltMessage]
  BY <1>1 DEF Init, Typed
<1>3. ASSUME NEW o \in Obj PROVE msg[o] = Blank
  BY <1>2, BuiltIs
<1>4. QED
  BY <1>2, <1>3, BlankGood DEF AllGood, Views

\* Every step is a call on one object or on two.
LEMMA NextMeans ==
  ASSUME AllGood, Next
  PROVE  \/ \E o \in Obj : Changes(o)
         \/ \E o \in Obj : \E p \in Obj \ {o} : Combines(o, p) \/ Swap(o, p)
<1>1. CASE \E o \in Obj : New(o) \/ Clear(o)
  BY <1>1, NewStep, ClearStep
<1>2. CASE \E o \in Obj : \E f \in focus : \/ Set(o, f) \/ Mutable(o, f) \/ Add(o, f)
                                           \/ ClearField(o, f) \/ Release(o, f) \/ SetAllocated(o, f)
  BY <1>2, SetStep, AddStep, ClearFieldStep, ReleaseStep, SetAllocatedStep
<1>3. CASE \E o \in Obj : \E p \in Obj \ {o} :
             \/ MergeFrom(o, p) \/ CopyFrom(o, p) \/ CopyConstruct(o, p) \/ Swap(o, p)
             \/ Receive(o, p) \/ ParseOnTop(o, p) \/ Broken(o, p)
  BY <1>3, MergeStep, CopyStep, ReceiveStep, ParseOnTopStep, BrokenStep
<1>4. QED
  BY <1>1, <1>2, <1>3 DEF Next

\* A call that gives one object another message.
LEMMA BecomesLater ==
  ASSUME AllGood, NEW o \in Obj, NEW r, Becomes(o, r), Good(r)
  PROVE  AllGood' /\ Views' = [Views EXCEPT ![o] = View(r)]
<1>1. UNCHANGED <<type, focus>> /\ msg' = [msg EXCEPT ![o] = r]
  BY DEF Becomes
<1>2. ASSUME NEW x \in Obj PROVE msg'[x] = IF x = o THEN r ELSE msg[x]
  BY <1>1 DEF AllGood
<1>3. ASSUME NEW x \in Obj PROVE Good(msg[x])' /\ View(msg[x])' = IF x = o THEN View(r) ELSE View(msg[x])
  BY <1>1, <1>2, GoodLater, ViewLater DEF AllGood
<1>4. Typed'
  BY <1>1 DEF AllGood, Typed
<1>5. msg' = [x \in Obj |-> msg'[x]]
  BY <1>1 DEF AllGood
<1>6. QED
  BY <1>3, <1>4, <1>5 DEF AllGood, Views

\* Swap() exchanges two good objects.
LEMMA SwapLater ==
  ASSUME AllGood, NEW o \in Obj, NEW p \in Obj \ {o}, Swap(o, p)
  PROVE  AllGood' /\ Views' = [Views EXCEPT ![o] = Views[p], ![p] = Views[o]]
<1>1. SwappedMessage(msg[o], msg[p]) = msg[p] /\ SwappedMessage(msg[p], msg[o]) = msg[o]
  BY SwappedIs DEF AllGood, Good
<1>2. UNCHANGED <<type, focus>> /\ msg' = [msg EXCEPT ![o] = msg[p], ![p] = msg[o]]
  BY <1>1 DEF Swap
<1>3. ASSUME NEW x \in Obj PROVE msg'[x] = IF x = o THEN msg[p] ELSE IF x = p THEN msg[o] ELSE msg[x]
  BY <1>2 DEF AllGood
<1>4. ASSUME NEW x \in Obj
      PROVE  Good(msg[x])' /\ View(msg[x])' = IF x = o THEN View(msg[p])
                                             ELSE IF x = p THEN View(msg[o]) ELSE View(msg[x])
  BY <1>2, <1>3, GoodLater, ViewLater DEF AllGood
<1>5. Typed'
  BY <1>2 DEF AllGood, Typed
<1>6. msg' = [x \in Obj |-> msg'[x]]
  BY <1>2 DEF AllGood
<1>7. QED
  BY <1>4, <1>5, <1>6 DEF AllGood, Views

\* A step of somebody else.
LEMMA StutterLater ==
  ASSUME AllGood, UNCHANGED vars
  PROVE  AllGood' /\ Views' = Views
<1>1. UNCHANGED <<type, focus>> /\ msg' = msg
  BY DEF vars
<1>2. ASSUME NEW x \in Obj PROVE Good(msg[x])' /\ View(msg[x])' = View(msg[x])
  BY <1>1, GoodLater, ViewLater DEF AllGood
<1>3. Typed'
  BY <1>1 DEF AllGood, Typed
<1>4. QED
  BY <1>1, <1>2, <1>3 DEF AllGood, Views

\* Every function of Index.pb.cc leaves every message sound: whichever of them ran on it
\* before, in whatever order, a bit is set exactly when the member has a value to show,
\* and a oneof has one case at most.
THEOREM Inductive == Spec => []AllGood
<1>1. Init => AllGood
  BY Starts
<1>2. AllGood /\ [Next]_vars => AllGood'
  <2>1. CASE AllGood /\ Next
    BY <2>1, NextMeans, BecomesLater, SwapLater DEF Changes, Combines
  <2>2. CASE AllGood /\ UNCHANGED vars
    BY <2>2, StutterLater
  <2>3. QED
    BY <2>1, <2>2
<1>3. QED
  BY <1>1, <1>2, PTL DEF Spec
-----------------------------------------------------------------------------
(* Sizes *)

\* One place for every byte of the first n entries.
Cells(a, n) == UNION {{i} \X (1..a[i]) : i \in 1..n}

\* The places of one entry.
LEMMA RowCounts ==
  ASSUME NEW i, NEW w \in Nat
  PROVE  IsFiniteSet({i} \X (1..w)) /\ Cardinality({i} \X (1..w)) = w
<1> DEFINE f == [j \in 1..w |-> <<i, j>>]
<1>1. f \in Bijection(1..w, {i} \X (1..w))
  <2>1. f \in [1..w -> {i} \X (1..w)]
    OBVIOUS
  <2>2. \A j, k \in 1..w : f[j] = f[k] => j = k
    OBVIOUS
  <2>3. \A c \in {i} \X (1..w) : \E j \in 1..w : f[j] = c
    OBVIOUS
  <2>4. QED
    BY <2>1, <2>2, <2>3, Fun_IsBij
<1>2. IsFiniteSet(1..w) /\ Cardinality(1..w) = w
  BY FS_Interval
<1>3. ExistsBijection(1..w, {i} \X (1..w))
  BY <1>1, Fun_ExistsBij
<1>4. QED
  BY <1>2, <1>3, FS_Bijection

\* The places of one more entry.
LEMMA CellsStep ==
  ASSUME NEW n \in Nat \ {0}, NEW a, a[n] \in Nat, IsFiniteSet(Cells(a, n - 1))
  PROVE  /\ IsFiniteSet(Cells(a, n))
         /\ Cardinality(Cells(a, n)) = Cardinality(Cells(a, n - 1)) + a[n]
<1> DEFINE Row == {n} \X (1..a[n])
<1>1. IsFiniteSet(Row) /\ Cardinality(Row) = a[n]
  BY RowCounts
<1>2. 1..n = 1..(n - 1) \union {n}
  OBVIOUS
<1>3. Cells(a, n) = Cells(a, n - 1) \union Row
  BY <1>2 DEF Cells
<1>4. Cells(a, n - 1) \intersect Row = {}
  BY DEF Cells
<1> HIDE DEF Row
<1>5. Cardinality(Cells(a, n - 1) \intersect Row) = 0
  BY <1>4, FS_EmptySet
<1>6. Cardinality(Cells(a, n - 1)) \in Nat
  BY FS_CardinalityType
<1>7. /\ IsFiniteSet(Cells(a, n - 1) \union Row)
      /\ Cardinality(Cells(a, n - 1) \union Row)
           = Cardinality(Cells(a, n - 1)) + Cardinality(Row) - Cardinality(Cells(a, n - 1) \intersect Row)
  BY <1>1, FS_Union
<1>8. QED
  BY <1>1, <1>3, <1>5, <1>6, <1>7

\* There are finitely many.
LEMMA CellsFinite ==
  ASSUME NEW L \in Nat, NEW a \in [1..L -> Nat], NEW n \in 0..L
  PROVE  IsFiniteSet(Cells(a, n))
<1> DEFINE T == {i \in Nat : i <= L => IsFiniteSet(Cells(a, i))}
<1>1. 0 \in T
  <2>1. Cells(a, 0) = {}
    BY DEF Cells
  <2>2. QED
    BY <2>1, FS_EmptySet
<1>2. ASSUME NEW i \in Nat, i \in T PROVE i + 1 \in T
  <2>1. SUFFICES ASSUME i + 1 <= L PROVE IsFiniteSet(Cells(a, i + 1))
    OBVIOUS
  <2>2. IsFiniteSet(Cells(a, i)) /\ i + 1 \in Nat \ {0} /\ (i + 1) - 1 = i /\ a[i + 1] \in Nat
    BY <1>2, <2>1
  <2>3. QED
    BY <2>2, CellsStep
<1> HIDE DEF T
<1>3. Nat \subseteq T
  BY <1>1, <1>2, NatInductive
<1>4. QED
  BY <1>3 DEF T

\* A sum counts the places.
LEMMA TotalCounts ==
  ASSUME NEW L \in Nat, NEW a \in [1..L -> Nat]
  PROVE  Total(a) = Cardinality(Cells(a, L))
<1> DEFINE Equation(s) == s = [n \in 0..L |-> IF n = 0 THEN 0 ELSE s[n - 1] + a[n]]
           g == [n \in 0..L |-> Cardinality(Cells(a, n))]
           chosen == CHOOSE s : Equation(s)
<1>1. a \in Seq(Nat) /\ Len(a) = L
  OBVIOUS
<1>2. Total(a) = chosen[L]
  BY <1>1 DEF Total
<1>3. Cardinality(Cells(a, 0)) = 0
  <2>1. Cells(a, 0) = {}
    BY DEF Cells
  <2>2. QED
    BY <2>1, FS_EmptySet
<1>4. ASSUME NEW n \in 1..L
      PROVE  Cardinality(Cells(a, n)) = Cardinality(Cells(a, n - 1)) + a[n]
  BY CellsFinite, CellsStep
<1>5. Equation(g)
  <2>1. ASSUME NEW n \in 0..L PROVE g[n] = IF n = 0 THEN 0 ELSE g[n - 1] + a[n]
    <3>1. CASE n = 0
      BY <1>3, <3>1
    <3>2. CASE n # 0
      <4>1. n \in 1..L /\ n - 1 \in 0..L
        BY <3>2
      <4>2. QED
        BY <1>4, <3>2, <4>1
    <3>3. QED
      BY <3>1, <3>2
  <2>2. QED
    BY <2>1
<1>6. Equation(chosen)
  BY <1>5
<1> HIDE DEF chosen
<1> DEFINE T == {i \in Nat : i <= L => chosen[i] = Cardinality(Cells(a, i))}
<1>7. 0 \in T
  <2>1. chosen[0] = 0
    BY <1>6
  <2>2. QED
    BY <1>3, <2>1
<1>8. ASSUME NEW i \in Nat, i \in T PROVE i + 1 \in T
  <2>1. SUFFICES ASSUME i + 1 <= L PROVE chosen[i + 1] = Cardinality(Cells(a, i + 1))
    OBVIOUS
  <2>2. i + 1 \in 1..L /\ (i + 1) - 1 = i /\ i + 1 # 0
    BY <2>1
  <2>3. chosen[i + 1] = chosen[i] + a[i + 1]
    BY <1>6, <2>2
  <2>4. chosen[i] = Cardinality(Cells(a, i))
    BY <1>8, <2>1
  <2>5. QED
    BY <1>4, <2>2, <2>3, <2>4
<1> HIDE DEF T
<1>9. Nat \subseteq T
  BY <1>7, <1>8, NatInductive
<1>10. QED
  BY <1>2, <1>9 DEF T

\* A place is an entry and a number in it.
LEMMA CellIs ==
  ASSUME NEW a, NEW n, NEW c
  PROVE  c \in Cells(a, n) <=> \E i \in 1..n : \E j \in 1..a[i] : c = <<i, j>>
<1>1. c \in Cells(a, n) <=> \E i \in 1..n : c \in {i} \X (1..a[i])
  BY DEF Cells
<1>2. ASSUME NEW i \in 1..n
      PROVE  c \in {i} \X (1..a[i]) <=> \E j \in 1..a[i] : c = <<i, j>>
  OBVIOUS
<1>3. QED
  BY <1>1, <1>2

\* Two ways to list the same L numbers.
Reorders(g, L, a, b) ==
  /\ L \in Nat /\ a \in [1..L -> Nat] /\ b \in [1..L -> Nat]
  /\ g \in [1..L -> 1..L]
  /\ \A i \in 1..L : \E k \in 1..L : g[k] = i
  /\ \A j, k \in 1..L : g[j] = g[k] => j = k
  /\ \A k \in 1..L : b[k] = a[g[k]]

\* A sum does not depend on the order.
LEMMA TotalReordered ==
  ASSUME NEW g, NEW L, NEW a, NEW b, Reorders(g, L, a, b)
  PROVE  Total(a) = Total(b)
<1> DEFINE S == Cells(b, L)
           T == Cells(a, L)
           f == [c \in S |-> <<g[c[1]], c[2]>>]
<1>0. /\ L \in Nat /\ a \in [1..L -> Nat] /\ b \in [1..L -> Nat]
      /\ g \in [1..L -> 1..L]
      /\ \A i \in 1..L : \E k \in 1..L : g[k] = i
      /\ \A j, k \in 1..L : g[j] = g[k] => j = k
      /\ \A k \in 1..L : b[k] = a[g[k]]
  BY DEF Reorders
<1>1. ASSUME NEW c \in S PROVE \E k \in 1..L : \E j \in 1..b[k] : c = <<k, j>>
  BY <1>0, CellIs
<1>2. ASSUME NEW k \in 1..L, NEW j \in 1..b[k] PROVE <<k, j>> \in S /\ <<g[k], j>> \in T
  <2>1. g[k] \in 1..L /\ j \in 1..a[g[k]]
    BY <1>0
  <2>2. QED
    BY <1>0, <2>1, CellIs
<1>3. ASSUME NEW c \in T PROVE \E k \in 1..L : \E j \in 1..a[k] : c = <<k, j>>
  BY <1>0, CellIs
<1>8. IsFiniteSet(S)
  <2>1. L \in 0..L
    BY <1>0
  <2>2. QED
    BY <1>0, <2>1, CellsFinite
<1> HIDE DEF S, T
<1>4. f \in [S -> T]
  <2>1. ASSUME NEW c \in S PROVE <<g[c[1]], c[2]>> \in T
    <3>1. PICK k \in 1..L : \E j \in 1..b[k] : c = <<k, j>>
      BY <1>1
    <3>2. PICK j \in 1..b[k] : c = <<k, j>>
      BY <3>1
    <3>3. c[1] = k /\ c[2] = j
      BY <3>2
    <3>4. <<g[c[1]], c[2]>> = <<g[k], j>>
      BY <3>3
    <3>5. QED
      BY <1>2, <3>4
  <2>2. QED
    BY <2>1
<1>5. ASSUME NEW c \in S, NEW d \in S, f[c] = f[d] PROVE c = d
  <2>1. PICK k \in 1..L : \E j \in 1..b[k] : c = <<k, j>>
    BY <1>1
  <2>2. PICK l \in 1..L : \E j \in 1..b[l] : d = <<l, j>>
    BY <1>1
  <2>3. PICK i \in 1..b[k] : c = <<k, i>>
    BY <2>1
  <2>4. PICK j \in 1..b[l] : d = <<l, j>>
    BY <2>2
  <2>5. <<g[k], i>> = <<g[l], j>>
    BY <1>5, <2>3, <2>4
  <2>6. k = l /\ i = j
    BY <1>0, <2>5
  <2>7. QED
    BY <2>3, <2>4, <2>6
<1>6. ASSUME NEW c \in T PROVE \E d \in S : f[d] = c
  <2>1. PICK i \in 1..L : \E j \in 1..a[i] : c = <<i, j>>
    BY <1>3
  <2>2. PICK j \in 1..a[i] : c = <<i, j>>
    BY <2>1
  <2>3. PICK k \in 1..L : g[k] = i
    BY <1>0
  <2>4. j \in 1..b[k]
    BY <1>0, <2>3
  <2>5. <<k, j>> \in S
    BY <1>2, <2>4
  <2>6. f[<<k, j>>] = <<i, j>>
    BY <2>3, <2>5
  <2>7. QED
    BY <2>2, <2>5, <2>6
<1>7. ExistsBijection(S, T)
  <2> HIDE DEF f
  <2>1. f \in Bijection(S, T)
    BY <1>4, <1>5, <1>6, Fun_IsBij
  <2>2. QED
    BY <2>1, Fun_ExistsBij
<1>9. Cardinality(T) = Cardinality(S)
  BY <1>7, <1>8, FS_Bijection
<1>10. QED
  BY <1>0, <1>9, TotalCounts DEF S, T

\* ByteSizeLong sums over the members, _InternalSerialize writes in the order of the field
\* numbers: the same numbers, in two orders.
LEMMA SoundSize ==
  ASSUME Typed, NEW m, Sound(m)
  PROVE  ByteSize(m) = WireSize(Serialized(m))
<1> DEFINE F == IndexFields[type]
           L == Len(F)
           Size(f) == IF f \notin focus THEN 0
                      ELSE IF Kind(f) = "list" THEN Len(m.val[f]) * (IndexSized[type][f][2] + 1)
                      ELSE IF Passes(IndexSized[type][f][1], m.has) THEN IndexSized[type][f][2] + 1
                      ELSE 0
           a == [i \in 1..L |-> Size(F[i].name)]
           b == [k \in 1..L |-> PieceSize(Piece(Entry(k), m))]
           g == [k \in 1..L |-> Place[type][Entry(k)[1]]]
<1>1. L \in Nat /\ DOMAIN F = 1..L /\ DOMAIN IndexWritten[type] = 1..L
  <2>1. FieldsAgree(type)
    BY TablesAgree DEF Typed, Agrees
  <2>2. QED
    BY <2>1, EntriesDistinct DEF FieldsAgree
<1>2. ByteSize(m) = Total(a) + 2 * m.unknown
  BY <1>1 DEF ByteSize
<1>3. WireSize(Serialized(m)) = Total(b) + 2 * m.unknown
  <2>1. Serialized(m).unread = m.unknown
    BY DEF Serialized
  <2>2. Serialized(m).pieces = [k \in 1..L |-> Piece(Entry(k), m)]
    BY <1>1 DEF Serialized, Entry
  <2>3. [k \in DOMAIN Serialized(m).pieces |-> PieceSize(Serialized(m).pieces[k])] = b
    BY <2>2
  <2>4. QED
    BY <2>1, <2>3 DEF WireSize
<1>4. ASSUME NEW k \in 1..L
      PROVE  /\ b[k] \in Nat
             /\ g[k] \in 1..L
             /\ b[k] = Size(Entry(k)[1])
             /\ b[k] = a[g[k]]
  <2>1. PICK f : f = Entry(k)[1]
    OBVIOUS
  <2>2. /\ f \in DOMAIN Place[type]
        /\ Entry(k)[2] = F[Place[type][f]].number
    BY <1>1, <2>1, EntryOf
  <2>3. /\ g[k] = Place[type][f]
        /\ g[k] \in 1..L
        /\ F[g[k]].name = f
        /\ F[g[k]].kind = Kind(f)
    BY <1>1, <2>1, <2>2, PlaceOf
  <2>4. PICK p : p = Piece(Entry(k), m)
    OBVIOUS
  <2>5. /\ p.items = IF f \notin focus THEN <<>>
                     ELSE IF Kind(f) = "list" THEN m.val[f]
                     ELSE IF Bit(f) \in m.has THEN <<Get(m, f)>>
                     ELSE <<>>
        /\ p = [tag |-> EntryTag(k), items |-> p.items]
    BY <1>1, <2>1, <2>4, PieceIs
  <2>6. SizeAgrees(type) /\ FieldsAgree(type)
    BY TablesAgree DEF Typed, Agrees
  <2>7. F[g[k]].number \in 1..16
    BY <1>1, <2>3, <2>6 DEF FieldsAgree
  <2>8. IndexSized[type][f][2] = IF F[g[k]].number < 16 THEN 1 ELSE 2
    BY <1>1, <2>3, <2>6 DEF SizeAgrees
  <2>9. EntryTag(k) < 128 <=> F[g[k]].number < 16
    <3>1. EntryTag(k) = 8 * F[g[k]].number + (IF Kind(f) = "scalar" THEN 0 ELSE 2)
      BY <2>1, <2>2, <2>3 DEF EntryTag, WireType
    <3> HIDE DEF g, F, L
    <3>2. QED
      BY <2>7, <3>1
  <2>10. b[k] = Len(p.items) * (IndexSized[type][f][2] + 1)
    <3>1. p.tag = EntryTag(k)
      BY <2>5
    <3>2. b[k] = Len(p.items) * (IF p.tag < 128 THEN 2 ELSE 3)
      BY <2>4 DEF PieceSize
    <3>3. (IF p.tag < 128 THEN 2 ELSE 3) = IndexSized[type][f][2] + 1
      BY <2>8, <2>9, <3>1
    <3>4. QED
      BY <3>2, <3>3
  <2>11. IndexSized[type][f][2] + 1 \in Nat
    BY <2>8
  <2>12. Len(p.items) \in Nat /\ Len(p.items) * (IndexSized[type][f][2] + 1) = Size(f)
    <3>1. CASE f \notin focus
      BY <2>5, <2>11, <3>1
    <3>2. CASE f \in focus /\ Kind(f) = "list"
      <4>1. m.val[f] \in Seq(Elem)
        BY <3>2, FullField DEF Sound, FieldSound
      <4>2. QED
        BY <2>5, <3>2, <4>1, LenProperties
    <3>3. CASE f \in focus /\ Kind(f) # "list"
      <4>1. Passes(IndexSized[type][f][1], m.has) <=> Bit(f) \in m.has
        BY <2>2, <3>3, BitOfField, PassesExact
      <4>2. Len(p.items) = IF Bit(f) \in m.has THEN 1 ELSE 0
        BY <2>5, <3>3
      <4>3. QED
        BY <2>11, <3>3, <4>1, <4>2
    <3>4. QED
      BY <3>1, <3>2, <3>3
  <2>13. b[k] = Size(f)
    BY <2>10, <2>12
  <2>14. b[k] \in Nat
    <3> DEFINE w == IndexSized[type][f][2] + 1
               n == Len(p.items)
    <3>1. b[k] = n * w /\ n \in Nat /\ w \in Nat
      BY <2>10, <2>11, <2>12
    <3> HIDE DEF w, n, b
    <3>2. QED
      BY <3>1
  <2> HIDE DEF Size, b
  <2>15. a[g[k]] = Size(f)
    BY <2>3
  <2>16. QED
    BY <2>1, <2>3, <2>13, <2>14, <2>15
<1>5. ASSUME NEW i \in 1..L PROVE \E k \in 1..L : g[k] = i
  <2>1. F[i].name \in DOMAIN Place[type] /\ Place[type][F[i].name] = i
    BY <1>1, PlaceOfName
  <2>2. PICK k \in 1..L : Entry(k)[1] = F[i].name
    BY <1>1, <2>1, EntriesDistinct
  <2>3. QED
    BY <2>1, <2>2
<1>6. ASSUME NEW j \in 1..L, NEW k \in 1..L, g[j] = g[k] PROVE j = k
  <2>1. /\ Entry(j)[1] \in DOMAIN Place[type]
        /\ Entry(k)[1] \in DOMAIN Place[type]
    BY <1>1, EntryOf
  <2>2. Entry(j)[1] = Entry(k)[1]
    BY <1>6, <2>1, PlaceOf
  <2>3. QED
    BY <1>1, <2>2, EntriesDistinct
<1>7. a \in [1..L -> Nat] /\ b \in [1..L -> Nat] /\ g \in [1..L -> 1..L]
  <2>1. ASSUME NEW i \in 1..L PROVE a[i] \in Nat
    <3>1. PICK k \in 1..L : g[k] = i
      BY <1>5
    <3>2. a[g[k]] \in Nat
      BY <1>4
    <3> HIDE DEF a, g
    <3>3. QED
      BY <3>1, <3>2
  <2> HIDE DEF Size
  <2>2. QED
    BY <1>4, <2>1
<1> HIDE DEF a, b, g, L
<1>8. Total(a) = Total(b)
  <2>1. \A k \in 1..L : b[k] = a[g[k]]
    BY <1>4
  <2>2. \A i \in 1..L : \E k \in 1..L : g[k] = i
    BY <1>5
  <2>3. \A j, k \in 1..L : g[j] = g[k] => j = k
    BY <1>6
  <2>4. Reorders(g, L, a, b)
    BY <1>1, <1>7, <2>1, <2>2, <2>3 DEF Reorders
  <2>5. QED
    BY <2>4, TotalReordered
<1>9. QED
  BY <1>2, <1>3, <1>8
-----------------------------------------------------------------------------
(* The properties of the runs *)

\* Has bits, members and unknown fields of all objects have the values their types allow,
\* after any calls of the generated functions.
THEOREM TypeCorrect == Spec => []TypeOK
<1>1. AllGood => TypeOK
  <2>1. SUFFICES ASSUME AllGood PROVE TypeOK
    OBVIOUS
  <2>2. ASSUME NEW o \in Obj
        PROVE  /\ msg[o] = [has |-> msg[o].has, val |-> [f \in focus |-> msg[o].val[f]],
                            unknown |-> msg[o].unknown]
               /\ msg[o].has \subseteq {IndexBits[type][f] : f \in focus \ Of("list")}
               /\ \A f \in focus : msg[o].val[f] \in Values(f) \union {Default(f)}
               /\ msg[o].unknown \in 0..MaxUnknown
    <3>1. Shape(msg[o]) /\ Fits(msg[o])
      BY <2>1 DEF AllGood, Good, Sound
    <3>2. msg[o].unknown \in 0..MaxUnknown
      BY <3>1, BoundsAssumption DEF Shape, Fits
    <3>3. ASSUME NEW f \in focus PROVE msg[o].val[f] \in Values(f) \union {Default(f)}
      <4> DEFINE v == msg[o].val[f]
      <4>1. FieldSound(msg[o], f) /\ Typed
        BY <2>1 DEF AllGood, Good, Sound
      <4>2. CASE Kind(f) = "list"
        <5>1. v \in Seq(Elem)
          BY <4>1, <4>2, FullField DEF FieldSound
        <5>2. Len(v) \in 0..MaxLen /\ v \in [1..Len(v) -> Elem]
          BY <3>1, <4>2, <5>1, LenProperties, BoundsAssumption DEF Fits, Of
        <5>3. Values(f) = UNION {[1..n -> Elem] : n \in 0..MaxLen}
          BY <4>2 DEF Values
        <5> HIDE DEF v
        <5>4. QED
          BY <5>2, <5>3 DEF v
      <4>3. CASE Kind(f) = "sub"
        BY <4>1, <4>3, FullField, DefaultField DEF FieldSound, Values
      <4>4. CASE Kind(f) \in {"scalar", "text"}
        BY <4>1, <4>4, FullField, DefaultField DEF FieldSound, Values
      <4>5. QED
        BY <4>1, <4>2, <4>3, <4>4, Kinds
    <3>4. QED
      BY <3>1, <3>2, <3>3 DEF Shape, Bit
  <2>3. QED
    BY <2>1, <2>2 DEF AllGood, Typed, TypeOK
<1>2. QED
  BY <1>1, Inductive, PTL

\* Clear, ByteSizeLong and _InternalSerialize never follow a null pointer: has_...()
\* promises the compiler that a pointer behind a set bit is not null.
THEOREM NeverNull == Spec => []NoNullBehindABit
<1>1. AllGood => NoNullBehindABit
  <2>1. SUFFICES ASSUME AllGood, NEW o \in Obj, NEW f \in Of("sub"), Has(msg[o], f)
                 PROVE  msg[o].val[f] # NULL
    BY DEF NoNullBehindABit
  <2>2. f \in focus /\ Kind(f) = "sub" /\ FieldSound(msg[o], f) /\ Typed
    BY <2>1 DEF AllGood, Good, Sound, Of
  <2>3. msg[o].val[f] \in SUBSET Part
    BY <2>1, <2>2, HasIs, FullField DEF FieldSound
  <2>4. QED
    BY <2>3, NullAssumption
<1>2. QED
  BY <1>1, Inductive, PTL

\* An accessor of a field the last message did not have reads the default, whatever the
\* object held before: Column reads m_reply without has_...(), row after row.
THEOREM AbsentIsDefault == Spec => []AbsentReadsDefault
<1>1. AllGood => AbsentReadsDefault
  <2>1. SUFFICES ASSUME AllGood, NEW o \in Obj, NEW f \in focus, ~Has(msg[o], f)
                 PROVE  Get(msg[o], f) = IF Kind(f) = "sub" THEN {} ELSE Default(f)
    BY DEF AbsentReadsDefault
  <2>2. Sound(msg[o]) /\ Typed
    BY <2>1 DEF AllGood, Good
  <2>3. CASE Kind(f) = "list"
    BY <2>1, <2>2, <2>3, HasIs, DefaultField DEF Get
  <2>4. CASE Kind(f) # "list"
    BY <2>1, <2>2, <2>4, HasIs, DefaultField, SoundReads, Kinds
  <2>5. QED
    BY <2>3, <2>4
<1>2. QED
  BY <1>1, Inductive, PTL

\* ByteSizeLong announces as many bytes as _InternalSerialize writes into the buffer that
\* was allocated for them.
THEOREM SizeExact == Spec => []SizeIsExact
<1>1. AllGood => SizeIsExact
  BY SoundSize DEF AllGood, Good, SizeIsExact
<1>2. QED
  BY <1>1, Inductive, PTL
-----------------------------------------------------------------------------
(* The refinement *)

\* A step of the objects is a step of the partial functions.
LEMMA ChangeMaps ==
  ASSUME AllGood, NEW o \in Obj, Changes(o)
  PROVE  Abstract!Change(Views, Views', o)
<1>1. PICK r : Becomes(o, r) /\ Good(r) /\ Changed(msg[o], r)
  BY DEF Changes
<1>2. Views' = [Views EXCEPT ![o] = View(r)]
  BY <1>1, BecomesLater
<1>3. Views[o] = View(msg[o]) /\ Views'[o] = View(r)
  BY <1>2 DEF Views
<1>4. CASE View(r) = Abstract!Nothing
  BY <1>2, <1>4 DEF Abstract!Change
<1>5. CASE \E f \in focus : View(r) = Abstract!Without(View(msg[o]), f)
  <2>1. PICK f \in focus : View(r) = Abstract!Without(View(msg[o]), f)
    BY <1>5
  <2>2. Views' = [Views EXCEPT ![o] = Abstract!Without(Views[o], f)]
    BY <1>2, <1>3, <2>1
  <2>3. f \in DOMAIN [g \in focus |-> Kind(g)]
    OBVIOUS
  <2>4. QED
    BY <2>2, <2>3 DEF Abstract!Change
<1>6. CASE \E f \in Present(r) : View(r) = Abstract!With(View(msg[o]), f, r.val[f])
  <2>1. PICK f \in Present(r) : View(r) = Abstract!With(View(msg[o]), f, r.val[f])
    BY <1>6
  <2>2. f \in Abstract!Fields(Views'[o]) /\ Views'[o].fields[f] = r.val[f]
    <3>1. f \in Abstract!Fields(View(r)) /\ View(r).fields[f] = r.val[f]
      BY ViewIs
    <3>2. QED
      BY <1>3, <3>1
  <2>3. Views' = [Views EXCEPT ![o] = Abstract!With(Views[o], f, Views'[o].fields[f])]
    BY <1>2, <1>3, <2>1, <2>2
  <2>4. f \in DOMAIN [g \in focus |-> Kind(g)]
    BY DEF Present
  <2>5. QED
    BY <2>2, <2>3, <2>4 DEF Abstract!Change
<1>7. QED
  BY <1>1, <1>4, <1>5, <1>6 DEF Changed

\* So is one that involves two objects.
LEMMA CombineMaps ==
  ASSUME AllGood, NEW o \in Obj, NEW p \in Obj \ {o}, Combines(o, p) \/ Swap(o, p)
  PROVE  Abstract!Combine(Views, Views', o, p)
<1>1. CASE Swap(o, p)
  BY <1>1, SwapLater DEF Abstract!Combine
<1>2. CASE Combines(o, p)
  <2>1. PICK r : Becomes(o, r) /\ Good(r) /\ Combined(msg[o], msg[p], r)
    BY <1>2 DEF Combines
  <2>2. Views' = [Views EXCEPT ![o] = View(r)]
    BY <2>1, BecomesLater
  <2>3. Views[o] = View(msg[o]) /\ Views[p] = View(msg[p]) /\ Views'[o] = View(r)
    BY <2>2 DEF Views
  <2>4. CASE View(r) = View(msg[p])
    BY <2>2, <2>3, <2>4 DEF Abstract!Combine
  <2>5. CASE View(r) = [View(msg[p]) EXCEPT !.unknown = @ + 1]
    BY <2>2, <2>3, <2>5 DEF Abstract!Combine
  <2>6. CASE View(r) = Abstract!Merged(View(msg[o]), View(msg[p]))
    BY <2>2, <2>3, <2>6 DEF Abstract!Combine
  <2>7. CASE Abstract!CutOff(View(r), View(msg[p]))
    BY <2>2, <2>3, <2>7 DEF Abstract!Combine
  <2>8. QED
    BY <2>1, <2>4, <2>5, <2>6, <2>7 DEF Combined
<1>3. QED
  BY <1>1, <1>2

\* The generated functions implement partial functions from fields to values: no field
\* is lost, mixed up with another or left behind by any of them, and a reply that was
\* read equals the one that was sent.
THEOREM Refines == Spec => ImplementsMessageSpec
<1>1. Init => Abstract!Init
  <2>1. SUFFICES ASSUME Init PROVE Abstract!Init
    OBVIOUS
  <2>2. Views = [o \in Obj |-> Abstract!Nothing]
    BY <2>1, Starts
  <2>3. QED
    BY <2>2 DEF Abstract!Init, Views, IsOneof
<1>2. AllGood /\ [Next]_vars => [Abstract!Next]_(Abstract!vars)
  <2>1. ASSUME AllGood, UNCHANGED <<type, focus>>
        PROVE  UNCHANGED <<[f \in focus |-> Kind(f)], IsOneof>>
    BY <2>1 DEF Kind, IsOneof
  <2>2. ASSUME AllGood, Next PROVE Abstract!Next
    <3>1. UNCHANGED <<type, focus>>
      <4>1. \/ \E o \in Obj : Changes(o)
            \/ \E o \in Obj : \E p \in Obj \ {o} : Combines(o, p) \/ Swap(o, p)
        BY <2>2, NextMeans
      <4>2. QED
        BY <4>1 DEF Changes, Combines, Becomes, Swap
    <3>2. \/ \E o \in Obj : Abstract!Change(Views, Views', o)
          \/ \E o \in Obj : \E p \in Obj \ {o} : Abstract!Combine(Views, Views', o, p)
      BY <2>2, NextMeans, ChangeMaps, CombineMaps
    <3>3. QED
      BY <2>1, <2>2, <3>1, <3>2 DEF Abstract!Next, Views
  <2>3. ASSUME AllGood, UNCHANGED vars PROVE UNCHANGED Abstract!vars
    <3>1. UNCHANGED <<type, focus>>
      BY <2>3 DEF vars
    <3>2. QED
      BY <2>1, <2>3, <3>1, StutterLater DEF Abstract!vars, Views
  <2>4. QED
    BY <2>2, <2>3
<1>3. QED
  BY <1>1, <1>2, Inductive, PTL DEF Spec, ImplementsMessageSpec, Abstract!Spec
=============================================================================
