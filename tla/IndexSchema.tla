---------------------------- MODULE IndexSchema ----------------------------
(***************************************************************************)
(* What protoc wrote into Index.pb.h and Index.pb.cc for each message of    *)
(* Index.proto.  The code of one field is spread over ten functions, and    *)
(* each of them spells out the field's place again: its has bit, the group  *)
(* of bits tested before it, its number, its tag, or the two members a      *)
(* block of memory runs between.  Each table holds what one function spells *)
(* out for every field:                                                     *)
(*   Fields   the members in the order they are stored, with their numbers  *)
(*   Bits     the has bit the accessors test, set and reset; in a oneof,    *)
(*            the case                                                      *)
(*   Marks    the has bit set by _Internal::set_has_...; in a oneof, the    *)
(*            case set by set_allocated_...                                 *)
(*   Built    first and last member of the block that SharedCtor zeroes and *)
(*            of the one that the copy constructor copies                   *)
(*   Copied   (oneofs) the case under which the copy constructor copies     *)
(*   Cleared  the masks under which Clear resets the field, outermost first *)
(*   Parsed   the field number and the byte of the tag _InternalParse tests *)
(*   Written  in the order of _InternalSerialize: field, number, masks      *)
(*   Sized    the masks ByteSizeLong tests and the bytes it counts for a tag *)
(*   Merged   the masks under which MergeFrom takes the field               *)
(*   Ored     the mask under which MergeFrom takes over all has bits, or {} *)
(*   Swapped  first and last member of the block InternalSwap exchanges     *)
(* A mask is the set of its bits; no mask: unconditionally.                 *)
(***************************************************************************)
EXTENDS Integers

Scalar(name, number) == [name |-> name, number |-> number, kind |-> "scalar"]
Text(name, number) == [name |-> name, number |-> number, kind |-> "text"]
Sub(name, number) == [name |-> name, number |-> number, kind |-> "sub"]
List(name, number) == [name |-> name, number |-> number, kind |-> "list"]

\* FinalResult
FinalResultFields == <<Scalar("has_more", 1)>>
FinalResultBits == [has_more |-> 0]
FinalResultMarks == [has_more |-> 0]
FinalResultBuilt == [zeroed |-> <<"has_more", "has_more">>,
                     copied |-> <<"has_more", "has_more">>]
FinalResultCleared == [has_more |-> {}]
FinalResultParsed == [has_more |-> <<1, 8>>]
FinalResultWritten == <<<<"has_more", 1, {{0}}>>>>
FinalResultSized == [has_more |-> <<{{0}}, 1>>]
FinalResultMerged == [has_more |-> {{0}}]
FinalResultOred == {}
FinalResultSwapped == <<"has_more", "has_more">>

\* LookupRequest
LookupRequestFields == <<List("ids", 1)>>
LookupRequestBits == <<>>
LookupRequestBuilt == [zeroed |-> <<>>, copied |-> <<>>]
LookupRequestCleared == [ids |-> {}]
LookupRequestParsed == [ids |-> <<1, 10>>]
LookupRequestWritten == <<<<"ids", 1, {}>>>>
LookupRequestSized == [ids |-> <<{}, 1>>]
LookupRequestMerged == [ids |-> {}]
LookupRequestOred == {}
LookupRequestSwapped == <<>>

\* LookupReply
LookupReplyFields == <<Sub("stream_result", 1), Sub("final_result", 2)>>
LookupReplyBits == [stream_result |-> 1, final_result |-> 2]
LookupReplyMarks == [stream_result |-> 1, final_result |-> 2]
LookupReplyCopied == [stream_result |-> {{1}}, final_result |-> {{2}}]
LookupReplyCleared == [stream_result |-> {{1}}, final_result |-> {{2}}]
LookupReplyParsed == [stream_result |-> <<1, 10>>, final_result |-> <<2, 18>>]
LookupReplyWritten == <<<<"stream_result", 1, {{1}}>>, <<"final_result", 2, {{2}}>>>>
LookupReplySized == [stream_result |-> <<{{1}}, 1>>, final_result |-> <<{{2}}, 1>>]
LookupReplyMerged == [stream_result |-> {{1}}, final_result |-> {{2}}]

\* FuzzyFindRequest
FuzzyFindRequestFields == <<List("scopes", 2), List("proximity_paths", 6),
                            List("preferred_types", 7), Text("query", 1), Scalar("limit", 4),
                            Scalar("any_scope", 3),
                            Scalar("restricted_for_code_completion", 5)>>
FuzzyFindRequestBits == [query |-> 0, limit |-> 1, any_scope |-> 2,
                         restricted_for_code_completion |-> 3]
FuzzyFindRequestMarks == [query |-> 0, limit |-> 1, any_scope |-> 2,
                          restricted_for_code_completion |-> 3]
FuzzyFindRequestBuilt == [zeroed |-> <<"limit", "restricted_for_code_completion">>,
                          copied |-> <<"limit", "restricted_for_code_completion">>]
FuzzyFindRequestCleared == [scopes |-> {}, proximity_paths |-> {}, preferred_types |-> {},
                            query |-> {{0}}, limit |-> {1..3}, any_scope |-> {1..3},
                            restricted_for_code_completion |-> {1..3}]
FuzzyFindRequestParsed == [scopes |-> <<2, 18>>, proximity_paths |-> <<6, 50>>,
                           preferred_types |-> <<7, 58>>, query |-> <<1, 10>>,
                           limit |-> <<4, 32>>, any_scope |-> <<3, 24>>,
                           restricted_for_code_completion |-> <<5, 40>>]
FuzzyFindRequestWritten == <<<<"query", 1, {{0}}>>, <<"scopes", 2, {}>>,
                             <<"any_scope", 3, {{2}}>>, <<"limit", 4, {{1}}>>,
                             <<"restricted_for_code_completion", 5, {{3}}>>,
                             <<"proximity_paths", 6, {}>>, <<"preferred_types", 7, {}>>>>
FuzzyFindRequestSized == [scopes |-> <<{}, 1>>, proximity_paths |-> <<{}, 1>>,
                          preferred_types |-> <<{}, 1>>, query |-> <<{0..3, {0}}, 1>>,
                          limit |-> <<{0..3, {1}}, 1>>, any_scope |-> <<{0..3, {2}}, 1>>,
                          restricted_for_code_completion |-> <<{0..3, {3}}, 1>>]
FuzzyFindRequestMerged == [scopes |-> {}, proximity_paths |-> {}, preferred_types |-> {},
                           query |-> {0..3, {0}}, limit |-> {0..3, {1}},
                           any_scope |-> {0..3, {2}},
                           restricted_for_code_completion |-> {0..3, {3}}]
FuzzyFindRequestOred == 0..3
FuzzyFindRequestSwapped == <<"limit", "restricted_for_code_completion">>

\* FuzzyFindReply
FuzzyFindReplyFields == <<Sub("stream_result", 1), Sub("final_result", 2)>>
FuzzyFindReplyBits == [stream_result |-> 1, final_result |-> 2]
FuzzyFindReplyMarks == [stream_result |-> 1, final_result |-> 2]
FuzzyFindReplyCopied == [stream_result |-> {{1}}, final_result |-> {{2}}]
FuzzyFindReplyCleared == [stream_result |-> {{1}}, final_result |-> {{2}}]
FuzzyFindReplyParsed == [stream_result |-> <<1, 10>>, final_result |-> <<2, 18>>]
FuzzyFindReplyWritten == <<<<"stream_result", 1, {{1}}>>, <<"final_result", 2, {{2}}>>>>
FuzzyFindReplySized == [stream_result |-> <<{{1}}, 1>>, final_result |-> <<{{2}}, 1>>]
FuzzyFindReplyMerged == [stream_result |-> {{1}}, final_result |-> {{2}}]

\* RefsRequest
RefsRequestFields == <<List("ids", 1), Scalar("filter", 2), Scalar("limit", 3)>>
RefsRequestBits == [filter |-> 0, limit |-> 1]
RefsRequestMarks == [filter |-> 0, limit |-> 1]
RefsRequestBuilt == [zeroed |-> <<"filter", "limit">>, copied |-> <<"filter", "limit">>]
RefsRequestCleared == [ids |-> {}, filter |-> {{0, 1}}, limit |-> {{0, 1}}]
RefsRequestParsed == [ids |-> <<1, 10>>, filter |-> <<2, 16>>, limit |-> <<3, 24>>]
RefsRequestWritten == <<<<"ids", 1, {}>>, <<"filter", 2, {{0}}>>, <<"limit", 3, {{1}}>>>>
RefsRequestSized == [ids |-> <<{}, 1>>, filter |-> <<{{0, 1}, {0}}, 1>>,
                     limit |-> <<{{0, 1}, {1}}, 1>>]
RefsRequestMerged == [ids |-> {}, filter |-> {{0, 1}, {0}}, limit |-> {{0, 1}, {1}}]
RefsRequestOred == {0, 1}
RefsRequestSwapped == <<"filter", "limit">>

\* RefsReply
RefsReplyFields == <<Sub("stream_result", 1), Sub("final_result", 2)>>
RefsReplyBits == [stream_result |-> 1, final_result |-> 2]
RefsReplyMarks == [stream_result |-> 1, final_result |-> 2]
RefsReplyCopied == [stream_result |-> {{1}}, final_result |-> {{2}}]
RefsReplyCleared == [stream_result |-> {{1}}, final_result |-> {{2}}]
RefsReplyParsed == [stream_result |-> <<1, 10>>, final_result |-> <<2, 18>>]
RefsReplyWritten == <<<<"stream_result", 1, {{1}}>>, <<"final_result", 2, {{2}}>>>>
RefsReplySized == [stream_result |-> <<{{1}}, 1>>, final_result |-> <<{{2}}, 1>>]
RefsReplyMerged == [stream_result |-> {{1}}, final_result |-> {{2}}]

\* Symbol
SymbolFields == <<List("headers", 15), Text("id", 1), Text("name", 3), Text("scope", 5),
                  Text("signature", 9), Text("template_specialization_args", 10),
                  Text("completion_snippet_suffix", 11), Text("documentation", 12),
                  Text("return_type", 13), Text("type", 14), Sub("info", 2),
                  Sub("definition", 4), Sub("canonical_declaration", 6),
                  Scalar("references", 7), Scalar("origin", 8), Scalar("flags", 16)>>
SymbolBits == [id |-> 0, name |-> 1, scope |-> 2, signature |-> 3,
               template_specialization_args |-> 4, completion_snippet_suffix |-> 5,
               documentation |-> 6, return_type |-> 7, type |-> 8, info |-> 9,
               definition |-> 10, canonical_declaration |-> 11, references |-> 12,
               origin |-> 13, flags |-> 14]
SymbolMarks == [id |-> 0, name |-> 1, scope |-> 2, signature |-> 3,
                template_specialization_args |-> 4, completion_snippet_suffix |-> 5,
                documentation |-> 6, return_type |-> 7, type |-> 8, info |-> 9,
                definition |-> 10, canonical_declaration |-> 11, references |-> 12,
                origin |-> 13, flags |-> 14]
SymbolBuilt == [zeroed |-> <<"info", "flags">>, copied |-> <<"references", "flags">>]
SymbolCleared == [headers |-> {}, id |-> {0..7, {0}}, name |-> {0..7, {1}},
                  scope |-> {0..7, {2}}, signature |-> {0..7, {3}},
                  template_specialization_args |-> {0..7, {4}},
                  completion_snippet_suffix |-> {0..7, {5}}, documentation |-> {0..7, {6}},
                  return_type |-> {0..7, {7}}, type |-> {8..11, {8}}, info |-> {8..11, {9}},
                  definition |-> {8..11, {10}}, canonical_declaration |-> {8..11, {11}},
                  references |-> {12..14}, origin |-> {12..14}, flags |-> {12..14}]
SymbolParsed == [headers |-> <<15, 122>>, id |-> <<1, 10>>, name |-> <<3, 26>>,
                 scope |-> <<5, 42>>, signature |-> <<9, 74>>,
                 template_specialization_args |-> <<10, 82>>,
                 completion_snippet_suffix |-> <<11, 90>>, documentation |-> <<12, 98>>,
                 return_type |-> <<13, 106>>, type |-> <<14, 114>>, info |-> <<2, 18>>,
                 definition |-> <<4, 34>>, canonical_declaration |-> <<6, 50>>,
                 references |-> <<7, 56>>, origin |-> <<8, 64>>, flags |-> <<16, 128>>]
SymbolWritten == <<<<"id", 1, {{0}}>>, <<"info", 2, {{9}}>>, <<"name", 3, {{1}}>>,
                   <<"definition", 4, {{10}}>>, <<"scope", 5, {{2}}>>,
                   <<"canonical_declaration", 6, {{11}}>>, <<"references", 7, {{12}}>>,
                   <<"origin", 8, {{13}}>>, <<"signature", 9, {{3}}>>,
                   <<"template_specialization_args", 10, {{4}}>>,
                   <<"completion_snippet_suffix", 11, {{5}}>>, <<"documentation", 12, {{6}}>>,
                   <<"return_type", 13, {{7}}>>, <<"type", 14, {{8}}>>, <<"headers", 15, {}>>,
                   <<"flags", 16, {{14}}>>>>
SymbolSized == [headers |-> <<{}, 1>>, id |-> <<{0..7, {0}}, 1>>, name |-> <<{0..7, {1}}, 1>>,
                scope |-> <<{0..7, {2}}, 1>>, signature |-> <<{0..7, {3}}, 1>>,
                template_specialization_args |-> <<{0..7, {4}}, 1>>,
                completion_snippet_suffix |-> <<{0..7, {5}}, 1>>,
                documentation |-> <<{0..7, {6}}, 1>>, return_type |-> <<{0..7, {7}}, 1>>,
                type |-> <<{8..14, {8}}, 1>>, info |-> <<{8..14, {9}}, 1>>,
                definition |-> <<{8..14, {10}}, 1>>,
                canonical_declaration |-> <<{8..14, {11}}, 1>>,
                references |-> <<{8..14, {12}}, 1>>, origin |-> <<{8..14, {13}}, 1>>,
                flags |-> <<{8..14, {14}}, 2>>]
SymbolMerged == [headers |-> {}, id |-> {0..7, {0}}, name |-> {0..7, {1}},
                 scope |-> {0..7, {2}}, signature |-> {0..7, {3}},
                 template_specialization_args |-> {0..7, {4}},
                 completion_snippet_suffix |-> {0..7, {5}}, documentation |-> {0..7, {6}},
                 return_type |-> {0..7, {7}}, type |-> {8..14, {8}}, info |-> {8..14, {9}},
                 definition |-> {8..14, {10}}, canonical_declaration |-> {8..14, {11}},
                 references |-> {8..14, {12}}, origin |-> {8..14, {13}},
                 flags |-> {8..14, {14}}]
SymbolOred == 8..14
SymbolSwapped == <<"info", "flags">>

\* Ref
RefFields == <<Sub("location", 1), Scalar("kind", 2)>>
RefBits == [location |-> 0, kind |-> 1]
\* A mistake in RefMarks: the second field gets the bit after the next.
RefMarksShifted == [location |-> 0, kind |-> 2]
RefMarks == [location |-> 0, kind |-> 1]
RefBuilt == [zeroed |-> <<"location", "kind">>, copied |-> <<"kind", "kind">>]
RefCleared == [location |-> {{0}}, kind |-> {}]
RefParsed == [location |-> <<1, 10>>, kind |-> <<2, 16>>]
RefWritten == <<<<"location", 1, {{0}}>>, <<"kind", 2, {{1}}>>>>
\* A mistake in RefSized: the group is tested for one of its two bits only.
RefSizedNarrow == [location |-> <<{{1}, {0}}, 1>>, kind |-> <<{{1}, {1}}, 1>>]
RefSized == [location |-> <<{{0, 1}, {0}}, 1>>, kind |-> <<{{0, 1}, {1}}, 1>>]
\* A mistake in RefMerged: the two bits are exchanged.
RefMergedCrossed == [location |-> {{0, 1}, {1}}, kind |-> {{0, 1}, {0}}]
RefMerged == [location |-> {{0, 1}, {0}}, kind |-> {{0, 1}, {1}}]
RefOred == {0, 1}
RefSwapped == <<"location", "kind">>

\* SymbolInfo
SymbolInfoFields == <<Scalar("kind", 1), Scalar("subkind", 2), Scalar("language", 3),
                      Scalar("properties", 4)>>
SymbolInfoBits == [kind |-> 0, subkind |-> 1, language |-> 2, properties |-> 3]
SymbolInfoMarks == [kind |-> 0, subkind |-> 1, language |-> 2, properties |-> 3]
SymbolInfoBuilt == [zeroed |-> <<"kind", "properties">>, copied |-> <<"kind", "properties">>]
SymbolInfoCleared == [kind |-> {0..3}, subkind |-> {0..3}, language |-> {0..3},
                      properties |-> {0..3}]
SymbolInfoParsed == [kind |-> <<1, 8>>, subkind |-> <<2, 16>>, language |-> <<3, 24>>,
                     properties |-> <<4, 32>>]
SymbolInfoWritten == <<<<"kind", 1, {{0}}>>, <<"subkind", 2, {{1}}>>, <<"language", 3, {{2}}>>,
                       <<"properties", 4, {{3}}>>>>
SymbolInfoSized == [kind |-> <<{0..3, {0}}, 1>>, subkind |-> <<{0..3, {1}}, 1>>,
                    language |-> <<{0..3, {2}}, 1>>, properties |-> <<{0..3, {3}}, 1>>]
SymbolInfoMerged == [kind |-> {0..3, {0}}, subkind |-> {0..3, {1}}, language |-> {0..3, {2}},
                     properties |-> {0..3, {3}}]
SymbolInfoOred == 0..3
SymbolInfoSwapped == <<"kind", "properties">>

\* SymbolLocation
SymbolLocationFields == <<Text("file_path", 3), Sub("start", 1), Sub("end", 2)>>
SymbolLocationBits == [file_path |-> 0, start |-> 1, end |-> 2]
SymbolLocationMarks == [file_path |-> 0, start |-> 1, end |-> 2]
SymbolLocationBuilt == [zeroed |-> <<"start", "end">>, copied |-> <<>>]
SymbolLocationCleared == [file_path |-> {0..2, {0}}, start |-> {0..2, {1}}, end |-> {0..2, {2}}]
SymbolLocationParsed == [file_path |-> <<3, 26>>, start |-> <<1, 10>>, end |-> <<2, 18>>]
SymbolLocationWritten == <<<<"start", 1, {{1}}>>, <<"end", 2, {{2}}>>,
                           <<"file_path", 3, {{0}}>>>>
SymbolLocationSized == [file_path |-> <<{0..2, {0}}, 1>>, start |-> <<{0..2, {1}}, 1>>,
                        end |-> <<{0..2, {2}}, 1>>]
SymbolLocationMerged == [file_path |-> {0..2, {0}}, start |-> {0..2, {1}}, end |-> {0..2, {2}}]
SymbolLocationOred == {}
SymbolLocationSwapped == <<"start", "end">>

\* Position
PositionFields == <<Scalar("line", 1), Scalar("column", 2)>>
PositionBits == [line |-> 0, column |-> 1]
PositionMarks == [line |-> 0, column |-> 1]
PositionBuilt == [zeroed |-> <<"line", "column">>, copied |-> <<"line", "column">>]
PositionCleared == [line |-> {{0, 1}}, column |-> {{0, 1}}]
PositionParsed == [line |-> <<1, 8>>, column |-> <<2, 16>>]
PositionWritten == <<<<"line", 1, {{0}}>>, <<"column", 2, {{1}}>>>>
PositionSized == [line |-> <<{{0, 1}, {0}}, 1>>, column |-> <<{{0, 1}, {1}}, 1>>]
PositionMerged == [line |-> {{0, 1}, {0}}, column |-> {{0, 1}, {1}}]
PositionOred == {0, 1}
\* A mistake in PositionSwapped: the block ends one member early.
PositionSwappedShort == <<"line", "line">>
PositionSwapped == <<"line", "column">>

\* HeaderWithReferences
HeaderWithReferencesFields == <<Text("header", 1), Scalar("references", 2)>>
HeaderWithReferencesBits == [header |-> 0, references |-> 1]
HeaderWithReferencesMarks == [header |-> 0, references |-> 1]
HeaderWithReferencesBuilt == [zeroed |-> <<"references", "references">>,
                              copied |-> <<"references", "references">>]
HeaderWithReferencesCleared == [header |-> {{0}}, references |-> {}]
HeaderWithReferencesParsed == [header |-> <<1, 10>>, references |-> <<2, 16>>]
HeaderWithReferencesWritten == <<<<"header", 1, {{0}}>>, <<"references", 2, {{1}}>>>>
HeaderWithReferencesSized == [header |-> <<{{0, 1}, {0}}, 1>>,
                              references |-> <<{{0, 1}, {1}}, 1>>]
HeaderWithReferencesMerged == [header |-> {{0, 1}, {0}}, references |-> {{0, 1}, {1}}]
HeaderWithReferencesOred == {0, 1}
HeaderWithReferencesSwapped == <<"references", "references">>

\* RelationsRequest
RelationsRequestFields == <<List("subjects", 1), Scalar("predicate", 2), Scalar("limit", 3)>>
RelationsRequestBits == [predicate |-> 0, limit |-> 1]
RelationsRequestMarks == [predicate |-> 0, limit |-> 1]
RelationsRequestBuilt == [zeroed |-> <<"predicate", "limit">>,
                          copied |-> <<"predicate", "limit">>]
RelationsRequestCleared == [subjects |-> {}, predicate |-> {{0, 1}}, limit |-> {{0, 1}}]
RelationsRequestParsed == [subjects |-> <<1, 10>>, predicate |-> <<2, 16>>, limit |-> <<3, 24>>]
RelationsRequestWritten == <<<<"subjects", 1, {}>>, <<"predicate", 2, {{0}}>>,
                             <<"limit", 3, {{1}}>>>>
RelationsRequestSized == [subjects |-> <<{}, 1>>, predicate |-> <<{{0, 1}, {0}}, 1>>,
                          limit |-> <<{{0, 1}, {1}}, 1>>]
RelationsRequestMerged == [subjects |-> {}, predicate |-> {{0, 1}, {0}},
                           limit |-> {{0, 1}, {1}}]
RelationsRequestOred == {0, 1}
RelationsRequestSwapped == <<"predicate", "limit">>

\* RelationsReply
RelationsReplyFields == <<Sub("stream_result", 1), Sub("final_result", 2)>>
RelationsReplyBits == [stream_result |-> 1, final_result |-> 2]
RelationsReplyMarks == [stream_result |-> 1, final_result |-> 2]
RelationsReplyCopied == [stream_result |-> {{1}}, final_result |-> {{2}}]
RelationsReplyCleared == [stream_result |-> {{1}}, final_result |-> {{2}}]
RelationsReplyParsed == [stream_result |-> <<1, 10>>, final_result |-> <<2, 18>>]
RelationsReplyWritten == <<<<"stream_result", 1, {{1}}>>, <<"final_result", 2, {{2}}>>>>
RelationsReplySized == [stream_result |-> <<{{1}}, 1>>, final_result |-> <<{{2}}, 1>>]
RelationsReplyMerged == [stream_result |-> {{1}}, final_result |-> {{2}}]

\* Relation
RelationFields == <<Text("subject_id", 1), Sub("object", 2)>>
RelationBits == [subject_id |-> 0, object |-> 1]
RelationMarks == [subject_id |-> 0, object |-> 1]
RelationBuilt == [zeroed |-> <<"object", "object">>, copied |-> <<>>]
RelationCleared == [subject_id |-> {{0, 1}, {0}}, object |-> {{0, 1}, {1}}]
RelationParsed == [subject_id |-> <<1, 10>>, object |-> <<2, 18>>]
RelationWritten == <<<<"subject_id", 1, {{0}}>>, <<"object", 2, {{1}}>>>>
RelationSized == [subject_id |-> <<{{0, 1}, {0}}, 1>>, object |-> <<{{0, 1}, {1}}, 1>>]
RelationMerged == [subject_id |-> {{0, 1}, {0}}, object |-> {{0, 1}, {1}}]
RelationOred == {}
RelationSwapped == <<"object", "object">>

\* The tables by message.
IndexFields == [FinalResult |-> FinalResultFields, LookupRequest |-> LookupRequestFields,
                LookupReply |-> LookupReplyFields, FuzzyFindRequest |-> FuzzyFindRequestFields,
                FuzzyFindReply |-> FuzzyFindReplyFields, RefsRequest |-> RefsRequestFields,
                RefsReply |-> RefsReplyFields, Symbol |-> SymbolFields, Ref |-> RefFields,
                SymbolInfo |-> SymbolInfoFields, SymbolLocation |-> SymbolLocationFields,
                Position |-> PositionFields,
                HeaderWithReferences |-> HeaderWithReferencesFields,
                RelationsRequest |-> RelationsRequestFields,
                RelationsReply |-> RelationsReplyFields, Relation |-> RelationFields]
IndexBits == [FinalResult |-> FinalResultBits, LookupRequest |-> LookupRequestBits,
              LookupReply |-> LookupReplyBits, FuzzyFindRequest |-> FuzzyFindRequestBits,
              FuzzyFindReply |-> FuzzyFindReplyBits, RefsRequest |-> RefsRequestBits,
              RefsReply |-> RefsReplyBits, Symbol |-> SymbolBits, Ref |-> RefBits,
              SymbolInfo |-> SymbolInfoBits, SymbolLocation |-> SymbolLocationBits,
              Position |-> PositionBits, HeaderWithReferences |-> HeaderWithReferencesBits,
              RelationsRequest |-> RelationsRequestBits, RelationsReply |-> RelationsReplyBits,
              Relation |-> RelationBits]
IndexMarks == [FinalResult |-> FinalResultMarks, LookupReply |-> LookupReplyMarks,
               FuzzyFindRequest |-> FuzzyFindRequestMarks,
               FuzzyFindReply |-> FuzzyFindReplyMarks, RefsRequest |-> RefsRequestMarks,
               RefsReply |-> RefsReplyMarks, Symbol |-> SymbolMarks, Ref |-> RefMarks,
               SymbolInfo |-> SymbolInfoMarks, SymbolLocation |-> SymbolLocationMarks,
               Position |-> PositionMarks, HeaderWithReferences |-> HeaderWithReferencesMarks,
               RelationsRequest |-> RelationsRequestMarks,
               RelationsReply |-> RelationsReplyMarks, Relation |-> RelationMarks]
IndexBuilt == [FinalResult |-> FinalResultBuilt, LookupRequest |-> LookupRequestBuilt,
               FuzzyFindRequest |-> FuzzyFindRequestBuilt, RefsRequest |-> RefsRequestBuilt,
               Symbol |-> SymbolBuilt, Ref |-> RefBuilt, SymbolInfo |-> SymbolInfoBuilt,
               SymbolLocation |-> SymbolLocationBuilt, Position |-> PositionBuilt,
               HeaderWithReferences |-> HeaderWithReferencesBuilt,
               RelationsRequest |-> RelationsRequestBuilt, Relation |-> RelationBuilt]
IndexCopied == [LookupReply |-> LookupReplyCopied, FuzzyFindReply |-> FuzzyFindReplyCopied,
                RefsReply |-> RefsReplyCopied, RelationsReply |-> RelationsReplyCopied]
IndexCleared == [FinalResult |-> FinalResultCleared, LookupRequest |-> LookupRequestCleared,
                 LookupReply |-> LookupReplyCleared,
                 FuzzyFindRequest |-> FuzzyFindRequestCleared,
                 FuzzyFindReply |-> FuzzyFindReplyCleared, RefsRequest |-> RefsRequestCleared,
                 RefsReply |-> RefsReplyCleared, Symbol |-> SymbolCleared, Ref |-> RefCleared,
                 SymbolInfo |-> SymbolInfoCleared, SymbolLocation |-> SymbolLocationCleared,
                 Position |-> PositionCleared,
                 HeaderWithReferences |-> HeaderWithReferencesCleared,
                 RelationsRequest |-> RelationsRequestCleared,
                 RelationsReply |-> RelationsReplyCleared, Relation |-> RelationCleared]
IndexParsed == [FinalResult |-> FinalResultParsed, LookupRequest |-> LookupRequestParsed,
                LookupReply |-> LookupReplyParsed, FuzzyFindRequest |-> FuzzyFindRequestParsed,
                FuzzyFindReply |-> FuzzyFindReplyParsed, RefsRequest |-> RefsRequestParsed,
                RefsReply |-> RefsReplyParsed, Symbol |-> SymbolParsed, Ref |-> RefParsed,
                SymbolInfo |-> SymbolInfoParsed, SymbolLocation |-> SymbolLocationParsed,
                Position |-> PositionParsed,
                HeaderWithReferences |-> HeaderWithReferencesParsed,
                RelationsRequest |-> RelationsRequestParsed,
                RelationsReply |-> RelationsReplyParsed, Relation |-> RelationParsed]
IndexWritten == [FinalResult |-> FinalResultWritten, LookupRequest |-> LookupRequestWritten,
                 LookupReply |-> LookupReplyWritten,
                 FuzzyFindRequest |-> FuzzyFindRequestWritten,
                 FuzzyFindReply |-> FuzzyFindReplyWritten, RefsRequest |-> RefsRequestWritten,
                 RefsReply |-> RefsReplyWritten, Symbol |-> SymbolWritten, Ref |-> RefWritten,
                 SymbolInfo |-> SymbolInfoWritten, SymbolLocation |-> SymbolLocationWritten,
                 Position |-> PositionWritten,
                 HeaderWithReferences |-> HeaderWithReferencesWritten,
                 RelationsRequest |-> RelationsRequestWritten,
                 RelationsReply |-> RelationsReplyWritten, Relation |-> RelationWritten]
IndexSized == [FinalResult |-> FinalResultSized, LookupRequest |-> LookupRequestSized,
               LookupReply |-> LookupReplySized, FuzzyFindRequest |-> FuzzyFindRequestSized,
               FuzzyFindReply |-> FuzzyFindReplySized, RefsRequest |-> RefsRequestSized,
               RefsReply |-> RefsReplySized, Symbol |-> SymbolSized, Ref |-> RefSized,
               SymbolInfo |-> SymbolInfoSized, SymbolLocation |-> SymbolLocationSized,
               Position |-> PositionSized, HeaderWithReferences |-> HeaderWithReferencesSized,
               RelationsRequest |-> RelationsRequestSized,
               RelationsReply |-> RelationsReplySized, Relation |-> RelationSized]
IndexMerged == [FinalResult |-> FinalResultMerged, LookupRequest |-> LookupRequestMerged,
                LookupReply |-> LookupReplyMerged, FuzzyFindRequest |-> FuzzyFindRequestMerged,
                FuzzyFindReply |-> FuzzyFindReplyMerged, RefsRequest |-> RefsRequestMerged,
                RefsReply |-> RefsReplyMerged, Symbol |-> SymbolMerged, Ref |-> RefMerged,
                SymbolInfo |-> SymbolInfoMerged, SymbolLocation |-> SymbolLocationMerged,
                Position |-> PositionMerged,
                HeaderWithReferences |-> HeaderWithReferencesMerged,
                RelationsRequest |-> RelationsRequestMerged,
                RelationsReply |-> RelationsReplyMerged, Relation |-> RelationMerged]
IndexOred == [FinalResult |-> FinalResultOred, LookupRequest |-> LookupRequestOred,
              FuzzyFindRequest |-> FuzzyFindRequestOred, RefsRequest |-> RefsRequestOred,
              Symbol |-> SymbolOred, Ref |-> RefOred, SymbolInfo |-> SymbolInfoOred,
              SymbolLocation |-> SymbolLocationOred, Position |-> PositionOred,
              HeaderWithReferences |-> HeaderWithReferencesOred,
              RelationsRequest |-> RelationsRequestOred, Relation |-> RelationOred]
IndexSwapped == [FinalResult |-> FinalResultSwapped, LookupRequest |-> LookupRequestSwapped,
                 FuzzyFindRequest |-> FuzzyFindRequestSwapped,
                 RefsRequest |-> RefsRequestSwapped, Symbol |-> SymbolSwapped,
                 Ref |-> RefSwapped, SymbolInfo |-> SymbolInfoSwapped,
                 SymbolLocation |-> SymbolLocationSwapped, Position |-> PositionSwapped,
                 HeaderWithReferences |-> HeaderWithReferencesSwapped,
                 RelationsRequest |-> RelationsRequestSwapped, Relation |-> RelationSwapped]

\* The messages that are a oneof of a row and a final result.
IndexOneofs == {"LookupReply", "FuzzyFindReply", "RefsReply", "RelationsReply"}
=============================================================================
