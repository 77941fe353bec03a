------------------------- MODULE IndexSchemaProofs -------------------------
(***************************************************************************)
(* The ten functions protoc generated for a message agree on the place of   *)
(* every field: proved table by table, for all sixteen messages.  The       *)
(* theorems about Messages rest on this and on nothing else about a schema. *)
(***************************************************************************)
EXTENDS IndexSchema, Sequences, TLAPS

\* There is nothing to test.
Free(masks) == \A mask \in masks : FALSE

\* A test of these masks passes whenever the bit is set.
Loose(masks, bit) == \A mask \in masks : bit \in mask

\* Such a test passes when the bit is set and only then.
Exact(masks, bit) == {bit} \in masks /\ \A mask \in masks : bit \in mask

\* The members of a message have names and numbers of their own.
FieldsAgree(t) ==
  LET F == IndexFields[t] IN
  /\ Len(F) \in Nat /\ DOMAIN F = 1..Len(F)
  /\ \A i, j \in DOMAIN F : F[i].name = F[j].name \/ F[i].number = F[j].number => i = j
  /\ \A i \in DOMAIN F : /\ F[i].kind \in {"scalar", "text", "sub", "list"}
                         /\ F[i].number \in 1..16
                         /\ t \in IndexOneofs => F[i].kind = "sub"

\* No two fields have the same bit, and the parser sets the bit that is tested.
BitsAgree(t) ==
  LET F == IndexFields[t] IN
  /\ \A i, j \in {k \in DOMAIN F : F[k].kind # "list"} :
       IndexBits[t][F[i].name] = IndexBits[t][F[j].name] => i = j
  /\ \A i \in DOMAIN F :
       F[i].kind # "list" => IndexMarks[t][F[i].name] = IndexBits[t][F[i].name]

\* Clear skips no field whose bit is set, and no list.
ClearAgrees(t) ==
  LET F == IndexFields[t] IN
  \A i \in DOMAIN F :
    LET f == F[i].name IN
    IF F[i].kind = "list" THEN Free(IndexCleared[t][f])
    ELSE Loose(IndexCleared[t][f], IndexBits[t][f])

\* MergeFrom takes the fields whose bit is set, and every list.
MergeAgrees(t) ==
  LET F == IndexFields[t] IN
  \A i \in DOMAIN F :
    LET f == F[i].name IN
    IF F[i].kind = "list" THEN Free(IndexMerged[t][f])
    ELSE Exact(IndexMerged[t][f], IndexBits[t][f])

\* The copy constructor of a oneof takes the case that is set.
CopyAgrees(t) ==
  LET F == IndexFields[t] IN
  \A i \in DOMAIN F : LET f == F[i].name IN Exact(IndexCopied[t][f], IndexBits[t][f])

\* A member lies between the two at the ends of a block of memory.
InBlock(t, i, ends) ==
  LET F == IndexFields[t] IN
  ends # <<>> /\ \E a, b \in DOMAIN F : F[a].name = ends[1] /\ F[b].name = ends[2] /\ i \in a..b

\* The blocks that are zeroed, copied and exchanged hold every member that
\* has no constructor of its own, and the bits of scalars are taken over.
BlocksAgree(t) ==
  LET F == IndexFields[t] IN
  \A i \in DOMAIN F :
    /\ F[i].kind \in {"scalar", "sub"} => /\ InBlock(t, i, IndexBuilt[t].zeroed)
                                         /\ InBlock(t, i, IndexSwapped[t])
    /\ F[i].kind = "scalar" => /\ InBlock(t, i, IndexBuilt[t].copied)
                               /\ IndexOred[t] # {} => IndexBits[t][F[i].name] \in IndexOred[t]

\* Every field is written once, when its bit is set.
WriteAgrees(t) ==
  LET F == IndexFields[t]
      W == IndexWritten[t] IN
  /\ DOMAIN W = 1..Len(F)
  /\ Len(W) = Len(F)
  /\ \A j, k \in DOMAIN W : W[j][1] = W[k][1] => j = k
  /\ \A j \in DOMAIN W : \E i \in DOMAIN F : W[j][1] = F[i].name
  /\ \A i \in DOMAIN F : \E j \in DOMAIN W :
       /\ W[j][1] = F[i].name
       /\ W[j][2] = F[i].number
       /\ IF F[i].kind = "list" THEN Free(W[j][3])
          ELSE Exact(W[j][3], IndexBits[t][F[i].name])

\* What is written is parsed as the same field.
ParseAgrees(t) ==
  LET F == IndexFields[t] IN
  \A i \in DOMAIN F :
    IndexParsed[t][F[i].name] =
      <<F[i].number, (8 * F[i].number + (IF F[i].kind = "scalar" THEN 0 ELSE 2)) % 256>>

\* What is written was counted, with as many bytes of tag.
SizeAgrees(t) ==
  LET F == IndexFields[t] IN
  \A i \in DOMAIN F :
    LET f == F[i].name IN
    /\ IF F[i].kind = "list" THEN Free(IndexSized[t][f][1])
       ELSE Exact(IndexSized[t][f][1], IndexBits[t][f])
    /\ IndexSized[t][f][2] = IF F[i].number < 16 THEN 1 ELSE 2

Agrees(t) == /\ FieldsAgree(t) /\ BitsAgree(t) /\ ClearAgrees(t) /\ MergeAgrees(t)
             /\ IF t \in IndexOneofs THEN CopyAgrees(t) ELSE BlocksAgree(t)
             /\ WriteAgrees(t) /\ ParseAgrees(t) /\ SizeAgrees(t)
-----------------------------------------------------------------------------
LEMMA FinalResultAgrees == Agrees("FinalResult")
<1>1. FieldsAgree("FinalResult")
  BY DEF FieldsAgree, IndexFields, FinalResultFields, Scalar, Text, Sub,
         List, IndexOneofs
<1>2. BitsAgree("FinalResult")
  BY DEF BitsAgree, IndexFields, FinalResultFields, IndexBits,
         FinalResultBits, IndexMarks, FinalResultMarks, Scalar, Text, Sub,
         List
<1>3. ClearAgrees("FinalResult")
  BY DEF ClearAgrees, Free, Loose, IndexFields, FinalResultFields, IndexBits,
         FinalResultBits, IndexCleared, FinalResultCleared, Scalar, Text,
         Sub, List
<1>4. MergeAgrees("FinalResult")
  BY DEF MergeAgrees, Free, Exact, IndexFields, FinalResultFields, IndexBits,
         FinalResultBits, IndexMerged, FinalResultMerged, Scalar, Text, Sub,
         List
<1>5. BlocksAgree("FinalResult")
  BY DEF BlocksAgree, InBlock, IndexFields, FinalResultFields, IndexBuilt,
         FinalResultBuilt, IndexSwapped, FinalResultSwapped, IndexOred,
         FinalResultOred, IndexBits, FinalResultBits, Scalar, Text, Sub, List
<1>6. WriteAgrees("FinalResult")
  BY DEF WriteAgrees, Free, Exact, IndexFields, FinalResultFields, IndexBits,
         FinalResultBits, IndexWritten, FinalResultWritten, Scalar, Text,
         Sub, List
<1>7. ParseAgrees("FinalResult")
  BY DEF ParseAgrees, IndexFields, FinalResultFields, IndexParsed,
         FinalResultParsed, Scalar, Text, Sub, List
<1>8. SizeAgrees("FinalResult")
  BY DEF SizeAgrees, Free, Exact, IndexFields, FinalResultFields, IndexBits,
         FinalResultBits, IndexSized, FinalResultSized, Scalar, Text, Sub,
         List
<1>9. ("FinalResult" \in IndexOneofs) = FALSE
  BY DEF IndexOneofs
<1>10. QED
  BY <1>1, <1>2, <1>3, <1>4, <1>5, <1>6, <1>7, <1>8, <1>9 DEF Agrees

LEMMA LookupRequestAgrees == Agrees("LookupRequest")
<1>1. FieldsAgree("LookupRequest")
  BY DEF FieldsAgree, IndexFields, LookupRequestFields, Scalar, Text, Sub,
         List, IndexOneofs
<1>2. BitsAgree("LookupRequest")
  BY DEF BitsAgree, IndexFields, LookupRequestFields, IndexBits,
         LookupRequestBits, IndexMarks, Scalar, Text, Sub, List
<1>3. ClearAgrees("LookupRequest")
  BY DEF ClearAgrees, Free, Loose, IndexFields, LookupRequestFields,
         IndexBits, LookupRequestBits, IndexCleared, LookupRequestCleared,
         Scalar, Text, Sub, List
<1>4. MergeAgrees("LookupRequest")
  BY DEF MergeAgrees, Free, Exact, IndexFields, LookupRequestFields,
         IndexBits, LookupRequestBits, IndexMerged, LookupRequestMerged,
         Scalar, Text, Sub, List
<1>5. BlocksAgree("LookupRequest")
  BY DEF BlocksAgree, InBlock, IndexFields, LookupRequestFields, IndexBuilt,
         LookupRequestBuilt, IndexSwapped, LookupRequestSwapped, IndexOred,
         LookupRequestOred, IndexBits, LookupRequestBits, Scalar, Text, Sub,
         List
<1>6. WriteAgrees("LookupRequest")
  BY DEF WriteAgrees, Free, Exact, IndexFields, LookupRequestFields,
         IndexBits, LookupRequestBits, IndexWritten, LookupRequestWritten,
         Scalar, Text, Sub, List
<1>7. ParseAgrees("LookupRequest")
  BY DEF ParseAgrees, IndexFields, LookupRequestFields, IndexParsed,
         LookupRequestParsed, Scalar, Text, Sub, List
<1>8. SizeAgrees("LookupRequest")
  BY DEF SizeAgrees, Free, Exact, IndexFields, LookupRequestFields,
         IndexBits, LookupRequestBits, IndexSized, LookupRequestSized,
         Scalar, Text, Sub, List
<1>9. ("LookupRequest" \in IndexOneofs) = FALSE
  BY DEF IndexOneofs
<1>10. QED
  BY <1>1, <1>2, <1>3, <1>4, <1>5, <1>6, <1>7, <1>8, <1>9 DEF Agrees

LEMMA LookupReplyAgrees == Agrees("LookupReply")
<1>1. FieldsAgree("LookupReply")
  BY DEF FieldsAgree, IndexFields, LookupReplyFields, Scalar, Text, Sub,
         List, IndexOneofs
<1>2. BitsAgree("LookupReply")
  BY DEF BitsAgree, IndexFields, LookupReplyFields, IndexBits,
         LookupReplyBits, IndexMarks, LookupReplyMarks, Scalar, Text, Sub,
         List
<1>3. ClearAgrees("LookupReply")
  BY DEF ClearAgrees, Free, Loose, IndexFields, LookupReplyFields, IndexBits,
         LookupReplyBits, IndexCleared, LookupReplyCleared, Scalar, Text,
         Sub, List
<1>4. MergeAgrees("LookupReply")
  BY DEF MergeAgrees, Free, Exact, IndexFields, LookupReplyFields, IndexBits,
         LookupReplyBits, IndexMerged, LookupReplyMerged, Scalar, Text, Sub,
         List
<1>5. CopyAgrees("LookupReply")
  BY DEF CopyAgrees, Exact, IndexFields, LookupReplyFields, IndexBits,
         LookupReplyBits, IndexCopied, LookupReplyCopied, Scalar, Text, Sub,
         List
<1>6. WriteAgrees("LookupReply")
  BY DEF WriteAgrees, Free, Exact, IndexFields, LookupReplyFields, IndexBits,
         LookupReplyBits, IndexWritten, LookupReplyWritten, Scalar, Text,
         Sub, List
<1>7. ParseAgrees("LookupReply")
  BY DEF ParseAgrees, IndexFields, LookupReplyFields, IndexParsed,
         LookupReplyParsed, Scalar, Text, Sub, List
<1>8. SizeAgrees("LookupReply")
  BY DEF SizeAgrees, Free, Exact, IndexFields, LookupReplyFields, IndexBits,
         LookupReplyBits, IndexSized, LookupReplySized, Scalar, Text, Sub,
         List
<1>9. ("LookupReply" \in IndexOneofs) = TRUE
  BY DEF IndexOneofs
<1>10. QED
  BY <1>1, <1>2, <1>3, <1>4, <1>5, <1>6, <1>7, <1>8, <1>9 DEF Agrees

LEMMA FuzzyFindRequestAgrees == Agrees("FuzzyFindRequest")
<1>1. FieldsAgree("FuzzyFindRequest")
  BY DEF FieldsAgree, IndexFields, FuzzyFindRequestFields, Scalar, Text, Sub,
         List, IndexOneofs
<1>2. BitsAgree("FuzzyFindRequest")
  BY DEF BitsAgree, IndexFields, FuzzyFindRequestFields, IndexBits,
         FuzzyFindRequestBits, IndexMarks, FuzzyFindRequestMarks, Scalar,
         Text, Sub, List
<1>3. ClearAgrees("FuzzyFindRequest")
  BY DEF ClearAgrees, Free, Loose, IndexFields, FuzzyFindRequestFields,
         IndexBits, FuzzyFindRequestBits, IndexCleared,
         FuzzyFindRequestCleared, Scalar, Text, Sub, List
<1>4. MergeAgrees("FuzzyFindRequest")
  BY DEF MergeAgrees, Free, Exact, IndexFields, FuzzyFindRequestFields,
         IndexBits, FuzzyFindRequestBits, IndexMerged,
         FuzzyFindRequestMerged, Scalar, Text, Sub, List
<1>5. BlocksAgree("FuzzyFindRequest")
  <2>1. DOMAIN FuzzyFindRequestFields = 1..7
    BY DEF FuzzyFindRequestFields, Scalar, Text, Sub, List
  <2>2. /\ FuzzyFindRequestFields[5].name = "limit"
        /\ FuzzyFindRequestFields[5].name = "limit"
        /\ FuzzyFindRequestFields[7].name = "restricted_for_code_completion"
    BY DEF FuzzyFindRequestFields, Scalar, Text, Sub, List
  <2>3. ASSUME NEW i \in 1..7, FuzzyFindRequestFields[i].kind \in {"scalar", "sub"}
        PROVE  InBlock("FuzzyFindRequest", i, <<"limit", "restricted_for_code_completion">>)
    <3>1. i \in 5..7
      BY <2>3 DEF FuzzyFindRequestFields, Scalar, Text, Sub, List
    <3>2. QED
      BY <2>1, <2>2, <3>1 DEF InBlock, IndexFields
  <2>4. ASSUME NEW i \in 1..7, FuzzyFindRequestFields[i].kind = "scalar"
        PROVE  /\ InBlock("FuzzyFindRequest", i, <<"limit", "restricted_for_code_completion">>)
               /\ FuzzyFindRequestBits[FuzzyFindRequestFields[i].name] \in FuzzyFindRequestOred
    <3>1. /\ i \in 5..7
          /\ FuzzyFindRequestBits[FuzzyFindRequestFields[i].name] \in 1..3
      BY <2>4 DEF FuzzyFindRequestFields, Scalar, Text, Sub, List, FuzzyFindRequestBits
    <3>2. InBlock("FuzzyFindRequest", i, <<"limit", "restricted_for_code_completion">>)
      BY <2>1, <2>2, <3>1 DEF InBlock, IndexFields
    <3>3. QED
      BY <3>1, <3>2 DEF FuzzyFindRequestOred
  <2>5. /\ IndexFields["FuzzyFindRequest"] = FuzzyFindRequestFields
        /\ IndexBuilt["FuzzyFindRequest"].zeroed = <<"limit", "restricted_for_code_completion">>
        /\ IndexBuilt["FuzzyFindRequest"].copied = <<"limit", "restricted_for_code_completion">>
        /\ IndexSwapped["FuzzyFindRequest"] = <<"limit", "restricted_for_code_completion">>
    BY DEF IndexFields, IndexBuilt, FuzzyFindRequestBuilt, IndexSwapped, FuzzyFindRequestSwapped
  <2>6. IndexOred["FuzzyFindRequest"] = FuzzyFindRequestOred /\ IndexBits["FuzzyFindRequest"] = FuzzyFindRequestBits
    BY DEF IndexOred, IndexBits
  <2>7. QED
    BY <2>1, <2>3, <2>4, <2>5, <2>6 DEF BlocksAgree
<1>6. WriteAgrees("FuzzyFindRequest")
  BY DEF WriteAgrees, Free, Exact, IndexFields, FuzzyFindRequestFields,
         IndexBits, FuzzyFindRequestBits, IndexWritten,
         FuzzyFindRequestWritten, Scalar, Text, Sub, List
<1>7. ParseAgrees("FuzzyFindRequest")
  BY DEF ParseAgrees, IndexFields, FuzzyFindRequestFields, IndexParsed,
         FuzzyFindRequestParsed, Scalar, Text, Sub, List
<1>8. SizeAgrees("FuzzyFindRequest")
  BY DEF SizeAgrees, Free, Exact, IndexFields, FuzzyFindRequestFields,
         IndexBits, FuzzyFindRequestBits, IndexSized, FuzzyFindRequestSized,
         Scalar, Text, Sub, List
<1>9. ("FuzzyFindRequest" \in IndexOneofs) = FALSE
  BY DEF IndexOneofs
<1>10. QED
  BY <1>1, <1>2, <1>3, <1>4, <1>5, <1>6, <1>7, <1>8, <1>9 DEF Agrees

LEMMA FuzzyFindReplyAgrees == Agrees("FuzzyFindReply")
<1>1. FieldsAgree("FuzzyFindReply")
  BY DEF FieldsAgree, IndexFields, FuzzyFindReplyFields, Scalar, Text, Sub,
         List, IndexOneofs
<1>2. BitsAgree("FuzzyFindReply")
  BY DEF BitsAgree, IndexFields, FuzzyFindReplyFields, IndexBits,
         FuzzyFindReplyBits, IndexMarks, FuzzyFindReplyMarks, Scalar, Text,
         Sub, List
<1>3. ClearAgrees("FuzzyFindReply")
  BY DEF ClearAgrees, Free, Loose, IndexFields, FuzzyFindReplyFields,
         IndexBits, FuzzyFindReplyBits, IndexCleared, FuzzyFindReplyCleared,
         Scalar, Text, Sub, List
<1>4. MergeAgrees("FuzzyFindReply")
  BY DEF MergeAgrees, Free, Exact, IndexFields, FuzzyFindReplyFields,
         IndexBits, FuzzyFindReplyBits, IndexMerged, FuzzyFindReplyMerged,
         Scalar, Text, Sub, List
<1>5. CopyAgrees("FuzzyFindReply")
  BY DEF CopyAgrees, Exact, IndexFields, FuzzyFindReplyFields, IndexBits,
         FuzzyFindReplyBits, IndexCopied, FuzzyFindReplyCopied, Scalar, Text,
         Sub, List
<1>6. WriteAgrees("FuzzyFindReply")
  BY DEF WriteAgrees, Free, Exact, IndexFields, FuzzyFindReplyFields,
         IndexBits, FuzzyFindReplyBits, IndexWritten, FuzzyFindReplyWritten,
         Scalar, Text, Sub, List
<1>7. ParseAgrees("FuzzyFindReply")
  BY DEF ParseAgrees, IndexFields, FuzzyFindReplyFields, IndexParsed,
         FuzzyFindReplyParsed, Scalar, Text, Sub, List
<1>8. SizeAgrees("FuzzyFindReply")
  BY DEF SizeAgrees, Free, Exact, IndexFields, FuzzyFindReplyFields,
         IndexBits, FuzzyFindReplyBits, IndexSized, FuzzyFindReplySized,
         Scalar, Text, Sub, List
<1>9. ("FuzzyFindReply" \in IndexOneofs) = TRUE
  BY DEF IndexOneofs
<1>10. QED
  BY <1>1, <1>2, <1>3, <1>4, <1>5, <1>6, <1>7, <1>8, <1>9 DEF Agrees

LEMMA RefsRequestAgrees == Agrees("RefsRequest")
<1>1. FieldsAgree("RefsRequest")
  BY DEF FieldsAgree, IndexFields, RefsRequestFields, Scalar, Text, Sub,
         List, IndexOneofs
<1>2. BitsAgree("RefsRequest")
  BY DEF BitsAgree, IndexFields, RefsRequestFields, IndexBits,
         RefsRequestBits, IndexMarks, RefsRequestMarks, Scalar, Text, Sub,
         List
<1>3. ClearAgrees("RefsRequest")
  BY DEF ClearAgrees, Free, Loose, IndexFields, RefsRequestFields, IndexBits,
         RefsRequestBits, IndexCleared, RefsRequestCleared, Scalar, Text,
         Sub, List
<1>4. MergeAgrees("RefsRequest")
  BY DEF MergeAgrees, Free, Exact, IndexFields, RefsRequestFields, IndexBits,
         RefsRequestBits, IndexMerged, RefsRequestMerged, Scalar, Text, Sub,
         List
<1>5. BlocksAgree("RefsRequest")
  BY DEF BlocksAgree, InBlock, IndexFields, RefsRequestFields, IndexBuilt,
         RefsRequestBuilt, IndexSwapped, RefsRequestSwapped, IndexOred,
         RefsRequestOred, IndexBits, RefsRequestBits, Scalar, Text, Sub, List
<1>6. WriteAgrees("RefsRequest")
  BY DEF WriteAgrees, Free, Exact, IndexFields, RefsRequestFields, IndexBits,
         RefsRequestBits, IndexWritten, RefsRequestWritten, Scalar, Text,
         Sub, List
<1>7. ParseAgrees("RefsRequest")
  BY DEF ParseAgrees, IndexFields, RefsRequestFields, IndexParsed,
         RefsRequestParsed, Scalar, Text, Sub, List
<1>8. SizeAgrees("RefsRequest")
  BY DEF SizeAgrees, Free, Exact, IndexFields, RefsRequestFields, IndexBits,
         RefsRequestBits, IndexSized, RefsRequestSized, Scalar, Text, Sub,
         List
<1>9. ("RefsRequest" \in IndexOneofs) = FALSE
  BY DEF IndexOneofs
<1>10. QED
  BY <1>1, <1>2, <1>3, <1>4, <1>5, <1>6, <1>7, <1>8, <1>9 DEF Agrees

LEMMA RefsReplyAgrees == Agrees("RefsReply")
<1>1. FieldsAgree("RefsReply")
  BY DEF FieldsAgree, IndexFields, RefsReplyFields, Scalar, Text, Sub, List,
         IndexOneofs
<1>2. BitsAgree("RefsReply")
  BY DEF BitsAgree, IndexFields, RefsReplyFields, IndexBits, RefsReplyBits,
         IndexMarks, RefsReplyMarks, Scalar, Text, Sub, List
<1>3. ClearAgrees("RefsReply")
  BY DEF ClearAgrees, Free, Loose, IndexFields, RefsReplyFields, IndexBits,
         RefsReplyBits, IndexCleared, RefsReplyCleared, Scalar, Text, Sub,
         List
<1>4. MergeAgrees("RefsReply")
  BY DEF MergeAgrees, Free, Exact, IndexFields, RefsReplyFields, IndexBits,
         RefsReplyBits, IndexMerged, RefsReplyMerged, Scalar, Text, Sub, List
<1>5. CopyAgrees("RefsReply")
  BY DEF CopyAgrees, Exact, IndexFields, RefsReplyFields, IndexBits,
         RefsReplyBits, IndexCopied, RefsReplyCopied, Scalar, Text, Sub, List
<1>6. WriteAgrees("RefsReply")
  BY DEF WriteAgrees, Free, Exact, IndexFields, RefsReplyFields, IndexBits,
         RefsReplyBits, IndexWritten, RefsReplyWritten, Scalar, Text, Sub,
         List
<1>7. ParseAgrees("RefsReply")
  BY DEF ParseAgrees, IndexFields, RefsReplyFields, IndexParsed,
         RefsReplyParsed, Scalar, Text, Sub, List
<1>8. SizeAgrees("RefsReply")
  BY DEF SizeAgrees, Free, Exact, IndexFields, RefsReplyFields, IndexBits,
         RefsReplyBits, IndexSized, RefsReplySized, Scalar, Text, Sub, List
<1>9. ("RefsReply" \in IndexOneofs) = TRUE
  BY DEF IndexOneofs
<1>10. QED
  BY <1>1, <1>2, <1>3, <1>4, <1>5, <1>6, <1>7, <1>8, <1>9 DEF Agrees

LEMMA SymbolAgrees == Agrees("Symbol")
<1>1. FieldsAgree("Symbol")
  BY DEF FieldsAgree, IndexFields, SymbolFields, Scalar, Text, Sub, List,
         IndexOneofs
<1>2. BitsAgree("Symbol")
  BY SMTT(100) DEF BitsAgree, IndexFields, SymbolFields, IndexBits,
         SymbolBits, IndexMarks, SymbolMarks, Scalar, Text, Sub, List
<1>3. ClearAgrees("Symbol")
  BY DEF ClearAgrees, Free, Loose, IndexFields, SymbolFields, IndexBits,
         SymbolBits, IndexCleared, SymbolCleared, Scalar, Text, Sub, List
<1>4. MergeAgrees("Symbol")
  BY DEF MergeAgrees, Free, Exact, IndexFields, SymbolFields, IndexBits,
         SymbolBits, IndexMerged, SymbolMerged, Scalar, Text, Sub, List
<1>5. BlocksAgree("Symbol")
  <2>1. DOMAIN SymbolFields = 1..16
    BY DEF SymbolFields, Scalar, Text, Sub, List
  <2>2. /\ SymbolFields[11].name = "info"
        /\ SymbolFields[14].name = "references"
        /\ SymbolFields[16].name = "flags"
    BY DEF SymbolFields, Scalar, Text, Sub, List
  <2>3. ASSUME NEW i \in 1..16, SymbolFields[i].kind \in {"scalar", "sub"}
        PROVE  InBlock("Symbol", i, <<"info", "flags">>)
    <3>1. i \in 11..16
      BY <2>3 DEF SymbolFields, Scalar, Text, Sub, List
    <3>2. QED
      BY <2>1, <2>2, <3>1 DEF InBlock, IndexFields
  <2>4. ASSUME NEW i \in 1..16, SymbolFields[i].kind = "scalar"
        PROVE  /\ InBlock("Symbol", i, <<"references", "flags">>)
               /\ SymbolBits[SymbolFields[i].name] \in SymbolOred
    <3>1. /\ i \in 14..16
          /\ SymbolBits[SymbolFields[i].name] \in 12..14
      BY <2>4 DEF SymbolFields, Scalar, Text, Sub, List, SymbolBits
    <3>2. InBlock("Symbol", i, <<"references", "flags">>)
      BY <2>1, <2>2, <3>1 DEF InBlock, IndexFields
    <3>3. QED
      BY <3>1, <3>2 DEF SymbolOred
  <2>5. /\ IndexFields["Symbol"] = SymbolFields
        /\ IndexBuilt["Symbol"].zeroed = <<"info", "flags">>
        /\ IndexBuilt["Symbol"].copied = <<"references", "flags">>
        /\ IndexSwapped["Symbol"] = <<"info", "flags">>
    BY DEF IndexFields, IndexBuilt, SymbolBuilt, IndexSwapped, SymbolSwapped
  <2>6. IndexOred["Symbol"] = SymbolOred /\ IndexBits["Symbol"] = SymbolBits
    BY DEF IndexOred, IndexBits
  <2>7. QED
    BY <2>1, <2>3, <2>4, <2>5, <2>6 DEF BlocksAgree
<1>6. WriteAgrees("Symbol")
  BY SMTT(100) DEF WriteAgrees, Free, Exact, IndexFields, SymbolFields,
         IndexBits, SymbolBits, IndexWritten, SymbolWritten, Scalar, Text,
         Sub, List
<1>7. ParseAgrees("Symbol")
  BY SMTT(100) DEF ParseAgrees, IndexFields, SymbolFields, IndexParsed,
         SymbolParsed, Scalar, Text, Sub, List
<1>8. SizeAgrees("Symbol")
  BY SMTT(100) DEF SizeAgrees, Free, Exact, IndexFields, SymbolFields,
         IndexBits, SymbolBits, IndexSized, SymbolSized, Scalar, Text, Sub,
         List
<1>9. ("Symbol" \in IndexOneofs) = FALSE
  BY DEF IndexOneofs
<1>10. QED
  BY <1>1, <1>2, <1>3, <1>4, <1>5, <1>6, <1>7, <1>8, <1>9 DEF Agrees

LEMMA RefAgrees == Agrees("Ref")
<1>1. FieldsAgree("Ref")
  BY DEF FieldsAgree, IndexFields, RefFields, Scalar, Text, Sub, List,
         IndexOneofs
<1>2. BitsAgree("Ref")
  BY DEF BitsAgree, IndexFields, RefFields, IndexBits, RefBits, IndexMarks,
         RefMarks, Scalar, Text, Sub, List
<1>3. ClearAgrees("Ref")
  BY DEF ClearAgrees, Free, Loose, IndexFields, RefFields, IndexBits,
         RefBits, IndexCleared, RefCleared, Scalar, Text, Sub, List
<1>4. MergeAgrees("Ref")
  BY DEF MergeAgrees, Free, Exact, IndexFields, RefFields, IndexBits,
         RefBits, IndexMerged, RefMerged, Scalar, Text, Sub, List
<1>5. BlocksAgree("Ref")
  BY DEF BlocksAgree, InBlock, IndexFields, RefFields, IndexBuilt, RefBuilt,
         IndexSwapped, RefSwapped, IndexOred, RefOred, IndexBits, RefBits,
         Scalar, Text, Sub, List
<1>6. WriteAgrees("Ref")
  BY DEF WriteAgrees, Free, Exact, IndexFields, RefFields, IndexBits,
         RefBits, IndexWritten, RefWritten, Scalar, Text, Sub, List
<1>7. ParseAgrees("Ref")
  BY DEF ParseAgrees, IndexFields, RefFields, IndexParsed, RefParsed, Scalar,
         Text, Sub, List
<1>8. SizeAgrees("Ref")
  BY DEF SizeAgrees, Free, Exact, IndexFields, RefFields, IndexBits, RefBits,
         IndexSized, RefSized, Scalar, Text, Sub, List
<1>9. ("Ref" \in IndexOneofs) = FALSE
  BY DEF IndexOneofs
<1>10. QED
  BY <1>1, <1>2, <1>3, <1>4, <1>5, <1>6, <1>7, <1>8, <1>9 DEF Agrees

LEMMA SymbolInfoAgrees == Agrees("SymbolInfo")
<1>1. FieldsAgree("SymbolInfo")
  BY DEF FieldsAgree, IndexFields, SymbolInfoFields, Scalar, Text, Sub, List,
         IndexOneofs
<1>2. BitsAgree("SymbolInfo")
  BY DEF BitsAgree, IndexFields, SymbolInfoFields, IndexBits, SymbolInfoBits,
         IndexMarks, SymbolInfoMarks, Scalar, Text, Sub, List
<1>3. ClearAgrees("SymbolInfo")
  BY DEF ClearAgrees, Free, Loose, IndexFields, SymbolInfoFields, IndexBits,
         SymbolInfoBits, IndexCleared, SymbolInfoCleared, Scalar, Text, Sub,
         List
<1>4. MergeAgrees("SymbolInfo")
  BY DEF MergeAgrees, Free, Exact, IndexFields, SymbolInfoFields, IndexBits,
         SymbolInfoBits, IndexMerged, SymbolInfoMerged, Scalar, Text, Sub,
         List
<1>5. BlocksAgree("SymbolInfo")
  BY DEF BlocksAgree, InBlock, IndexFields, SymbolInfoFields, IndexBuilt,
         SymbolInfoBuilt, IndexSwapped, SymbolInfoSwapped, IndexOred,
         SymbolInfoOred, IndexBits, SymbolInfoBits, Scalar, Text, Sub, List
<1>6. WriteAgrees("SymbolInfo")
  BY DEF WriteAgrees, Free, Exact, IndexFields, SymbolInfoFields, IndexBits,
         SymbolInfoBits, IndexWritten, SymbolInfoWritten, Scalar, Text, Sub,
         List
<1>7. ParseAgrees("SymbolInfo")
  BY DEF ParseAgrees, IndexFields, SymbolInfoFields, IndexParsed,
         SymbolInfoParsed, Scalar, Text, Sub, List
<1>8. SizeAgrees("SymbolInfo")
  BY DEF SizeAgrees, Free, Exact, IndexFields, SymbolInfoFields, IndexBits,
         SymbolInfoBits, IndexSized, SymbolInfoSized, Scalar, Text, Sub, List
<1>9. ("SymbolInfo" \in IndexOneofs) = FALSE
  BY DEF IndexOneofs
<1>10. QED
  BY <1>1, <1>2, <1>3, <1>4, <1>5, <1>6, <1>7, <1>8, <1>9 DEF Agrees

LEMMA SymbolLocationAgrees == Agrees("SymbolLocation")
<1>1. FieldsAgree("SymbolLocation")
  BY DEF FieldsAgree, IndexFields, SymbolLocationFields, Scalar, Text, Sub,
         List, IndexOneofs
<1>2. BitsAgree("SymbolLocation")
  BY DEF BitsAgree, IndexFields, SymbolLocationFields, IndexBits,
         SymbolLocationBits, IndexMarks, SymbolLocationMarks, Scalar, Text,
         Sub, List
<1>3. ClearAgrees("SymbolLocation")
  BY DEF ClearAgrees, Free, Loose, IndexFields, SymbolLocationFields,
         IndexBits, SymbolLocationBits, IndexCleared, SymbolLocationCleared,
         Scalar, Text, Sub, List
<1>4. MergeAgrees("SymbolLocation")
  BY DEF MergeAgrees, Free, Exact, IndexFields, SymbolLocationFields,
         IndexBits, SymbolLocationBits, IndexMerged, SymbolLocationMerged,
         Scalar, Text, Sub, List
<1>5. BlocksAgree("SymbolLocation")
  BY DEF BlocksAgree, InBlock, IndexFields, SymbolLocationFields, IndexBuilt,
         SymbolLocationBuilt, IndexSwapped, SymbolLocationSwapped, IndexOred,
         SymbolLocationOred, IndexBits, SymbolLocationBits, Scalar, Text,
         Sub, List
<1>6. WriteAgrees("SymbolLocation")
  BY DEF WriteAgrees, Free, Exact, IndexFields, SymbolLocationFields,
         IndexBits, SymbolLocationBits, IndexWritten, SymbolLocationWritten,
         Scalar, Text, Sub, List
<1>7. ParseAgrees("SymbolLocation")
  BY DEF ParseAgrees, IndexFields, SymbolLocationFields, IndexParsed,
         SymbolLocationParsed, Scalar, Text, Sub, List
<1>8. SizeAgrees("SymbolLocation")
  BY DEF SizeAgrees, Free, Exact, IndexFields, SymbolLocationFields,
         IndexBits, SymbolLocationBits, IndexSized, SymbolLocationSized,
         Scalar, Text, Sub, List
<1>9. ("SymbolLocation" \in IndexOneofs) = FALSE
  BY DEF IndexOneofs
<1>10. QED
  BY <1>1, <1>2, <1>3, <1>4, <1>5, <1>6, <1>7, <1>8, <1>9 DEF Agrees

LEMMA PositionAgrees == Agrees("Position")
<1>1. FieldsAgree("Position")
  BY DEF FieldsAgree, IndexFields, PositionFields, Scalar, Text, Sub, List,
         IndexOneofs
<1>2. BitsAgree("Position")
  BY DEF BitsAgree, IndexFields, PositionFields, IndexBits, PositionBits,
         IndexMarks, PositionMarks, Scalar, Text, Sub, List
<1>3. ClearAgrees("Position")
  BY DEF ClearAgrees, Free, Loose, IndexFields, PositionFields, IndexBits,
         PositionBits, IndexCleared, PositionCleared, Scalar, Text, Sub, List
<1>4. MergeAgrees("Position")
  BY DEF MergeAgrees, Free, Exact, IndexFields, PositionFields, IndexBits,
         PositionBits, IndexMerged, PositionMerged, Scalar, Text, Sub, List
<1>5. BlocksAgree("Position")
  BY DEF BlocksAgree, InBlock, IndexFields, PositionFields, IndexBuilt,
         PositionBuilt, IndexSwapped, PositionSwapped, IndexOred,
         PositionOred, IndexBits, PositionBits, Scalar, Text, Sub, List
<1>6. WriteAgrees("Position")
  BY DEF WriteAgrees, Free, Exact, IndexFields, PositionFields, IndexBits,
         PositionBits, IndexWritten, PositionWritten, Scalar, Text, Sub, List
<1>7. ParseAgrees("Position")
  BY DEF ParseAgrees, IndexFields, PositionFields, IndexParsed,
         PositionParsed, Scalar, Text, Sub, List
<1>8. SizeAgrees("Position")
  BY DEF SizeAgrees, Free, Exact, IndexFields, PositionFields, IndexBits,
         PositionBits, IndexSized, PositionSized, Scalar, Text, Sub, List
<1>9. ("Position" \in IndexOneofs) = FALSE
  BY DEF IndexOneofs
<1>10. QED
  BY <1>1, <1>2, <1>3, <1>4, <1>5, <1>6, <1>7, <1>8, <1>9 DEF Agrees

LEMMA HeaderWithReferencesAgrees == Agrees("HeaderWithReferences")
<1>1. FieldsAgree("HeaderWithReferences")
  BY DEF FieldsAgree, IndexFields, HeaderWithReferencesFields, Scalar, Text,
         Sub, List, IndexOneofs
<1>2. BitsAgree("HeaderWithReferences")
  BY DEF BitsAgree, IndexFields, HeaderWithReferencesFields, IndexBits,
         HeaderWithReferencesBits, IndexMarks, HeaderWithReferencesMarks,
         Scalar, Text, Sub, List
<1>3. ClearAgrees("HeaderWithReferences")
  BY DEF ClearAgrees, Free, Loose, IndexFields, HeaderWithReferencesFields,
         IndexBits, HeaderWithReferencesBits, IndexCleared,
         HeaderWithReferencesCleared, Scalar, Text, Sub, List
<1>4. MergeAgrees("HeaderWithReferences")
  BY DEF MergeAgrees, Free, Exact, IndexFields, HeaderWithReferencesFields,
         IndexBits, HeaderWithReferencesBits, IndexMerged,
         HeaderWithReferencesMerged, Scalar, Text, Sub, List
<1>5. BlocksAgree("HeaderWithReferences")
  BY DEF BlocksAgree, InBlock, IndexFields, HeaderWithReferencesFields,
         IndexBuilt, HeaderWithReferencesBuilt, IndexSwapped,
         HeaderWithReferencesSwapped, IndexOred, HeaderWithReferencesOred,
         IndexBits, HeaderWithReferencesBits, Scalar, Text, Sub, List
<1>6. WriteAgrees("HeaderWithReferences")
  BY DEF WriteAgrees, Free, Exact, IndexFields, HeaderWithReferencesFields,
         IndexBits, HeaderWithReferencesBits, IndexWritten,
         HeaderWithReferencesWritten, Scalar, Text, Sub, List
<1>7. ParseAgrees("HeaderWithReferences")
  BY DEF ParseAgrees, IndexFields, HeaderWithReferencesFields, IndexParsed,
         HeaderWithReferencesParsed, Scalar, Text, Sub, List
<1>8. SizeAgrees("HeaderWithReferences")
  BY DEF SizeAgrees, Free, Exact, IndexFields, HeaderWithReferencesFields,
         IndexBits, HeaderWithReferencesBits, IndexSized,
         HeaderWithReferencesSized, Scalar, Text, Sub, List
<1>9. ("HeaderWithReferences" \in IndexOneofs) = FALSE
  BY DEF IndexOneofs
<1>10. QED
  BY <1>1, <1>2, <1>3, <1>4, <1>5, <1>6, <1>7, <1>8, <1>9 DEF Agrees

LEMMA RelationsRequestAgrees == Agrees("RelationsRequest")
<1>1. FieldsAgree("RelationsRequest")
  BY DEF FieldsAgree, IndexFields, RelationsRequestFields, Scalar, Text, Sub,
         List, IndexOneofs
<1>2. BitsAgree("RelationsRequest")
  BY DEF BitsAgree, IndexFields, RelationsRequestFields, IndexBits,
         RelationsRequestBits, IndexMarks, RelationsRequestMarks, Scalar,
         Text, Sub, List
<1>3. ClearAgrees("RelationsRequest")
  BY DEF ClearAgrees, Free, Loose, IndexFields, RelationsRequestFields,
         IndexBits, RelationsRequestBits, IndexCleared,
         RelationsRequestCleared, Scalar, Text, Sub, List
<1>4. MergeAgrees("RelationsRequest")
  BY DEF MergeAgrees, Free, Exact, IndexFields, RelationsRequestFields,
         IndexBits, RelationsRequestBits, IndexMerged,
         RelationsRequestMerged, Scalar, Text, Sub, List
<1>5. BlocksAgree("RelationsRequest")
  BY DEF BlocksAgree, InBlock, IndexFields, RelationsRequestFields,
         IndexBuilt, RelationsRequestBuilt, IndexSwapped,
         RelationsRequestSwapped, IndexOred, RelationsRequestOred, IndexBits,
         RelationsRequestBits, Scalar, Text, Sub, List
<1>6. WriteAgrees("RelationsRequest")
  BY DEF WriteAgrees, Free, Exact, IndexFields, RelationsRequestFields,
         IndexBits, RelationsRequestBits, IndexWritten,
         RelationsRequestWritten, Scalar, Text, Sub, List
<1>7. ParseAgrees("RelationsRequest")
  BY DEF ParseAgrees, IndexFields, RelationsRequestFields, IndexParsed,
         RelationsRequestParsed, Scalar, Text, Sub, List
<1>8. SizeAgrees("RelationsRequest")
  BY DEF SizeAgrees, Free, Exact, IndexFields, RelationsRequestFields,
         IndexBits, RelationsRequestBits, IndexSized, RelationsRequestSized,
         Scalar, Text, Sub, List
<1>9. ("RelationsRequest" \in IndexOneofs) = FALSE
  BY DEF IndexOneofs
<1>10. QED
  BY <1>1, <1>2, <1>3, <1>4, <1>5, <1>6, <1>7, <1>8, <1>9 DEF Agrees

LEMMA RelationsReplyAgrees == Agrees("RelationsReply")
<1>1. FieldsAgree("RelationsReply")
  BY DEF FieldsAgree, IndexFields, RelationsReplyFields, Scalar, Text, Sub,
         List, IndexOneofs
<1>2. BitsAgree("RelationsReply")
  BY DEF BitsAgree, IndexFields, RelationsReplyFields, IndexBits,
         RelationsReplyBits, IndexMarks, RelationsReplyMarks, Scalar, Text,
         Sub, List
<1>3. ClearAgrees("RelationsReply")
  BY DEF ClearAgrees, Free, Loose, IndexFields, RelationsReplyFields,
         IndexBits, RelationsReplyBits, IndexCleared, RelationsReplyCleared,
         Scalar, Text, Sub, List
<1>4. MergeAgrees("RelationsReply")
  BY DEF MergeAgrees, Free, Exact, IndexFields, RelationsReplyFields,
         IndexBits, RelationsReplyBits, IndexMerged, RelationsReplyMerged,
         Scalar, Text, Sub, List
<1>5. CopyAgrees("RelationsReply")
  BY DEF CopyAgrees, Exact, IndexFields, RelationsReplyFields, IndexBits,
         RelationsReplyBits, IndexCopied, RelationsReplyCopied, Scalar, Text,
         Sub, List
<1>6. WriteAgrees("RelationsReply")
  BY DEF WriteAgrees, Free, Exact, IndexFields, RelationsReplyFields,
         IndexBits, RelationsReplyBits, IndexWritten, RelationsReplyWritten,
         Scalar, Text, Sub, List
<1>7. ParseAgrees("RelationsReply")
  BY DEF ParseAgrees, IndexFields, RelationsReplyFields, IndexParsed,
         RelationsReplyParsed, Scalar, Text, Sub, List
<1>8. SizeAgrees("RelationsReply")
  BY DEF SizeAgrees, Free, Exact, IndexFields, RelationsReplyFields,
         IndexBits, RelationsReplyBits, IndexSized, RelationsReplySized,
         Scalar, Text, Sub, List
<1>9. ("RelationsReply" \in IndexOneofs) = TRUE
  BY DEF IndexOneofs
<1>10. QED
  BY <1>1, <1>2, <1>3, <1>4, <1>5, <1>6, <1>7, <1>8, <1>9 DEF Agrees

LEMMA RelationAgrees == Agrees("Relation")
<1>1. FieldsAgree("Relation")
  BY DEF FieldsAgree, IndexFields, RelationFields, Scalar, Text, Sub, List,
         IndexOneofs
<1>2. BitsAgree("Relation")
  BY DEF BitsAgree, IndexFields, RelationFields, IndexBits, RelationBits,
         IndexMarks, RelationMarks, Scalar, Text, Sub, List
<1>3. ClearAgrees("Relation")
  BY DEF ClearAgrees, Free, Loose, IndexFields, RelationFields, IndexBits,
         RelationBits, IndexCleared, RelationCleared, Scalar, Text, Sub, List
<1>4. MergeAgrees("Relation")
  BY DEF MergeAgrees, Free, Exact, IndexFields, RelationFields, IndexBits,
         RelationBits, IndexMerged, RelationMerged, Scalar, Text, Sub, List
<1>5. BlocksAgree("Relation")
  BY DEF BlocksAgree, InBlock, IndexFields, RelationFields, IndexBuilt,
         RelationBuilt, IndexSwapped, RelationSwapped, IndexOred,
         RelationOred, IndexBits, RelationBits, Scalar, Text, Sub, List
<1>6. WriteAgrees("Relation")
  BY DEF WriteAgrees, Free, Exact, IndexFields, RelationFields, IndexBits,
         RelationBits, IndexWritten, RelationWritten, Scalar, Text, Sub, List
<1>7. ParseAgrees("Relation")
  BY DEF ParseAgrees, IndexFields, RelationFields, IndexParsed,
         RelationParsed, Scalar, Text, Sub, List
<1>8. SizeAgrees("Relation")
  BY DEF SizeAgrees, Free, Exact, IndexFields, RelationFields, IndexBits,
         RelationBits, IndexSized, RelationSized, Scalar, Text, Sub, List
<1>9. ("Relation" \in IndexOneofs) = FALSE
  BY DEF IndexOneofs
<1>10. QED
  BY <1>1, <1>2, <1>3, <1>4, <1>5, <1>6, <1>7, <1>8, <1>9 DEF Agrees

\* In every message of the schema the ten generated functions mean the same field
\* by the same bit, number, tag and member.
THEOREM TablesAgree == \A t \in DOMAIN IndexFields : Agrees(t)
<1>1. DOMAIN IndexFields =
        {"FinalResult", "LookupRequest", "LookupReply", "FuzzyFindRequest",
         "FuzzyFindReply", "RefsRequest", "RefsReply", "Symbol", "Ref",
         "SymbolInfo", "SymbolLocation", "Position", "HeaderWithReferences",
         "RelationsRequest", "RelationsReply", "Relation"}
  BY DEF IndexFields
<1>2. QED
  BY <1>1, FinalResultAgrees, LookupRequestAgrees, LookupReplyAgrees,
     FuzzyFindRequestAgrees, FuzzyFindReplyAgrees, RefsRequestAgrees,
     RefsReplyAgrees, SymbolAgrees, RefAgrees, SymbolInfoAgrees,
     SymbolLocationAgrees, PositionAgrees, HeaderWithReferencesAgrees,
     RelationsRequestAgrees, RelationsReplyAgrees, RelationAgrees
=============================================================================
