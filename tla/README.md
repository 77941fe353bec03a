# A TLA+ model of ClangQL

ClangQL is a SQLite extension. It offers the index of a remote clangd server as
virtual tables: `symbols`, `base_of`, `overridden_by` and `refs`. This directory
holds TLA+ modules that model the extension, TLC configurations that check them
on small instances, and TLAPS proofs. Source paths below are relative to the
repository root; most of the code is in `src/`.

## 1. The system

| component | code | state it keeps | operations | modelled in |
|---|---|---|---|---|
| extension entry point and SQL functions | `src/clangql.cc` | constant name tables | `sqlite3_clangql_init`, `symbol_kind`, `symbol_subkind`, `symbol_language` | not modelled |
| table factory and channel cache | `src/ClangQLModule.cc` | a function-local static map from address to channel, shared by every connection of the process | `Create`, `get_channel` | `TableFactory` |
| adapter from SQLite's C interface to C++ | `src/Module.cc`, `VirtualTable*.hpp` | one heap object per table and per cursor | `module_create`, `module_destroy`, `module_open`, `module_close`; the other entry points forward to table and cursor | `TableFactory`, `VtabScan`, `OrScan` |
| result streams | `IResultStream.hpp`, the `*Stream` classes | the gRPC call and the last parsed reply | constructor (starts the call), `Next`, `Current` | `VtabScan` |
| `base_of`, `overridden_by` | `src/RelationsTable.cc` | `m_kind`; per cursor `m_eof`, `m_stream`, `m_subjects` | `BestIndex`, `Open`, `Filter`, `Next`, `Eof`, `Column`, `RowId` | `RelationsTable`, `OrScan` |
| `refs` | `src/RefsTable.cc` | per cursor `m_eof`, `m_stream` with the request | the same | `RefsTable` |
| `symbols` | `src/SymbolsTable.cc` | per cursor `m_eof`, `m_stream` | the same and `FindFunction` (LIKE) | `SymbolsTable`, `OrScan` |
| generated messages | `Index.pb.h`, `Index.pb.cc` | has bits or case, members, unknown fields | accessors, `Clear`, `MergeFrom`, `CopyFrom`, `Swap`, parsing, serializing, `ByteSizeLong` | `IndexSchema`, `Messages` |
| generated stubs, SQLite headers | `*.grpc.pb.*`, `Service.pb.*`, `sqlite3*.h` | | | not modelled |

How they interact. SQLite prepares a statement and shows each table the WHERE
clause (`BestIndex`): the table chooses which right-hand sides it wants as
arguments (`argvIndex`), which constraints SQLite need not test (`omit`), and
leaves itself a note (`idxNum`). SQLite then opens a cursor and runs its nested
loops: for each combination of outer rows it calls `Filter` on the *same*
cursor with the values bound now, and walks the rows with `Eof`, `Column` and
`Next`. It may abandon a scan half way (LIMIT, EXISTS) and filter again. `Filter`
builds a request from `idxNum` and the arguments, replaces the stream, and reads
the first reply; `Next` reads one more. Reading blocks until the server has sent
a message or the call is over. A reply is a row or the closing `FinalResult`; a
failed call looks to the cursor exactly like the end of the rows.

What is hard here:

* `BestIndex` and `Filter` run at different times and agree on the meaning and
  the order of the arguments only through `idxNum`.
* What a table omits, or does not ask for, nobody else makes up for: a request
  that is too narrow loses rows, an `omit` that is not honoured invents them.
* A cursor outlives a scan. What an earlier `Filter` left in it (subjects, the
  request, replies in flight) must not leak into the next.
* The server and the channel move on while SQLite is elsewhere: rows arrive,
  the answer is cut short, the channel breaks before, between or after rows.
* `Read` blocks without a deadline.
* Row ids are derived from hexadecimal symbol ids by arithmetic that saturates
  and overflows, and SQLite uses them to tell rows apart when it evaluates an OR
  of terms on different columns or of conjunctions.
* Tables of several connections, on several threads, share the channel map, and
  making a table can fail at any of its steps.
* One reply object is parsed into again and again, and read without a look at its
  has bits; ten generated functions have to agree on where each field is.

What makes each component correct:

* a table: a scan delivers only rows that satisfy the WHERE clause for the
  values bound now, none twice, and all of them when the server's answer is
  complete; the request asks for what the documentation says it does; a column
  is the one the schema names; a started scan does not hang while the server
  and the channel work;
* row ids: two rows of a table that SQLite may meet in one statement have
  different ids;
* the adapter: everything created is destroyed exactly once, on the error paths
  too, and no C++ exception crosses into SQLite;
* the channel cache: one channel per address, whoever asks;
* a message: a field that is absent reads as its default whatever the object held
  before, what is read equals what was written, and the announced size is exact;
* the SQL functions: a name for every valid number and an error for the others.

## 2. The modules

`VtabScan` has what the tables share: the cursor's `m_eof`, the stream
(`rpc`, `pending`, `wire`, `m_reply`), and SQLite's use of them. `phase` is where
SQLite is: `unprepared`, `prepared`, `opened`, `reading` (inside `Read`),
`positioned` (a call to `Filter` or `Next` has returned), `examined` (the row has
been looked at), `done` (Eof was seen), `aborted` (the process has ended).

| action | code |
|---|---|
| `Prepare` | `module_best_index`, called while the statement is prepared |
| `OpenCursor`, `CloseCursor` | `module_open`, `module_close` and the destructors of cursor and stream |
| `SeeEof`, `Examine` | `module_eof`; `module_column` for the columns of the constraints SQLite tests |
| `CallNext`, `ReadReply` | `module_next`, in two steps: entering `Read`, and returning from it |
| `StartStream(rows)` | the constructor of a stream (part of each table's `Filter`) |
| `ServerSend`, `ServerFinish` | the server: the next row; the closing `FinalResult`, early or not |
| `ChannelBreak` | the call fails; any suffix of the messages in flight is lost |

`RelationsTable`, `RefsTable` and `SymbolsTable` EXTEND it, each with its
`BestIndex`, the request its `Filter` makes, the server's `Answer` to it and its
`Column`s. `Filter` is one action with everything the function does up to the
`Read` of its final `Next()`; where the function has two paths (`refs` without
any argument) there is one action for each, and `FilterNull` is the path on which
a NULL argument is turned into a `std::string` or handed to protobuf as a null
pointer, which ends the process.

`Work` in `VtabScan` measures what is left of a scan: a row costs four steps (it is
sent, read, examined and left for the next one), and the call and the cursor have
some of their own until they end. `ScanGetsOn` says for each table that every step
of a scan, of whoever takes it, lowers `Work`, except an xFilter, which begins anew.

`TableScan` is the abstract specification: a scan is begun for a set of rows,
delivers rows of that set, each at most once, and ends when all are delivered or
fails. Each table defines `ImplementsTableScan` by INSTANCE ... WITH, mapping the
phase to the state of the scan, the rows the WHERE clause selects (`Promised`) to
what is wanted, and the rows SQLite has accepted to what was delivered.

`OrScan` models what row ids are for. SQLite evaluates `WHERE term OR term`, where the
terms are about different columns (`Id = x OR Name = n`) or are conjunctions
(`(Subject = x AND Object = y) OR (Subject = z AND Object = w)`), with one scan for
each term, each by a cursor opened for it, asks for the row id of each row
(`module_rowid`, in `RowId`), and passes over a row whose id a row of an earlier term
had. An OR that compares one column with several values is not among
these: it becomes an IN, for which one cursor is filtered once for each value and no
row id is asked for, a sequence of scans as `RelationsTable` and `SymbolsTable` have it.
Each of the scans of an OR is abstracted to what `TableScan` says of it:
it delivers the rows of its term in any order (`Return`, `Skip`) or is cut short
(`BreakOff`). `RowIds` has the arithmetic of the two `RowId` functions on words of
any width: `strtoll` saturates, and the errno check behind it is dead because
errno is cleared first; the pairing function halves before it multiplies, and its
sums and products wrap. `OrScan` refines `TableScan` in its turn, as long as the
row ids tell the selected rows apart (`TellsApart`).

`TableFactory` is the life of tables and cursors over several connections.

| action | code |
|---|---|
| `Enter` | `module_create` up to the new `module_vtab` |
| `CheckArguments`, `Find`, `CreateChannel`, `Insert` | `Create` and `get_channel`, one step for each access to the shared map |
| `RuinMap` | the data race: two threads in the map, one of them writing |
| `Succeed` | the constructor of the table and the return to SQLite |
| `Fail` | a `runtime_error`: the error is reported, the object leaked |
| `RunOutOfMemory`, `NoMemory` | `bad_alloc` in `Create`, and before it |
| `Terminate` | a `std::exception` that nobody catches |
| `Destroy`, `Open`, `Close` | `module_destroy`, `module_open`, `module_close` |

Undefined behaviour is a choice: the racing map operations take effect in some
order, or ruin the process, after which nothing is claimed.

`IndexSchema` has, for every message of `Index.proto`, what each generated function
spells out for each field: has bits, masks, field numbers, tag bytes, the ends of
the memory blocks that are copied, zeroed or swapped. `Messages` has the functions
themselves, each written once and driven by these tables, and the actions a user
of a message has, `Receive` being `ClientReader::Read` into an object that was used
before, `Broken` a reply that is cut off or malformed. `MessageSpec` is the abstract
specification: a message is a partial function from fields to values.
`Messages` implements it with the view of an object as the fields it `Has`.

| definition | code |
|---|---|
| `ClearedMessage`, `MergedMessage`, `CopiedMessage`, `SwappedMessage`, `BuiltMessage` | `Clear`, `MergeFrom`, the copy constructor, `InternalSwap`, `SharedCtor` |
| `Piece`, `Serialized` | `_InternalSerialize`: what it writes for one field, and for all in the order of their numbers |
| `ParsedPiece`, `Parsing`, `ParsedInto` | `_InternalParse`: one turn of its loop, the message after every turn, the end |
| `ByteSize` | `ByteSizeLong`, a sum in the order of the members (`Total`) |
| `PieceSize`, `WireSize` | the bytes that were in fact written |

`VtabScanProofs`, `RelationsTableProofs`, `RefsTableProofs`, `SymbolsTableProofs`,
`OrScanProofs`, `TableFactoryProofs`, `IndexSchemaProofs` and `MessagesProofs` hold the
proofs, and `MC*` the instances
for TLC. A definition commented as a mistake is never part of a specification: it
is a plausible bug, kept beside the definition it would replace in order to show
that the properties notice it.

### What is assumed of SQLite, the server and the channel

* SQLite tests every constraint that is not omitted, calls `Filter` only with a
  cursor that is open and outside a call, and may stop a scan or close the cursor
  whenever it is not inside a call. A comparison with NULL selects nothing. The
  values of all constraints are taken to be bound at `Filter`; a constraint that
  is not usable is tested but never an argument.
* The server answers a request with the matching rows of an index that does not
  change during the scan, each row once however often a subject is named, in any
  order, then a `FinalResult`, possibly before it has sent all rows (`has_more`).
  It answers nothing when no subject or symbol is named. A reference matches a
  filter if it has one of its kinds. A query finds at least the symbols with
  exactly that name. Proximity paths affect only the order.
* The channel keeps messages in order and neither duplicates nor invents any
  (gRPC over HTTP/2).
* A row stands for a reply message: two replies with the same contents are one
  row.

## 3. The runs

Six runs pass.

`MCRelationsTable` (`relations`): three symbols, two relations that overlap, five
WHERE clauses (an equality on `Subject` alone, with tests of `Object` before it,
twice and not usable once, after an inequality, and not at all). A cursor is
filtered by at most `MaxSubjects = 2` subjects before it is closed, so that every
scan after the first still names an earlier subject, equal or different; a third
subject adds only another of the same kind. The run shows that the leftovers of
the earlier scans change nothing in what a scan returns: soundness, completeness,
freshness, the inductive invariant of the proofs and the refinement; that every step
gets on with the scan (`ScanGetsOn`); and, under the fairness of section 4, that a
blocked call returns and scans end.

`MCRefsTable` (`refs`): two symbols with references of several kinds, twelve WHERE
clauses: `SymbolId` with each kind column, with all four, with both columns that
share a flag in either order, with tests only SQLite does, doubled, unusable,
missing. Completeness is claimed only for scans that compare no kind column with
zero. `ScanGetsOn` is the share of the table itself in the end of its scans. The
stream and its fairness are those of the other tables, so liveness under fairness is
not checked once more here, where the many values that can be bound make the
temporal check slow.

`MCSymbolsTable` (`symbols`): three symbols that differ in name and scope, one found
by a query for another's name, one without a definition, one without `SymbolInfo`;
thirteen WHERE clauses that exercise each search alone, combined in an order that
is not the order of the arguments, and doubled with EQ and LIKE. Safety, the
inductive invariant, the refinement, that every step gets on with the scan, and
that scans end.

For these three one cursor is enough: cursors share nothing but the table's
constant stub.

`MCOrScan` (`or_scan`): words of five bits, so that row ids run from -16 to 15;
symbol ids on both sides of the largest that `strtoll` can represent; pairs with
equal and unequal row ids and one on which the arithmetic overflows; ORs of one
and two terms with every selection of rows. No row is returned twice, and where the
row ids can be relied on none is lost, whether or not a scan is cut short.

`MCTableFactory` (`factory`): two connections on two threads, two addresses, two
objects, three channels, one cursor for each table: two calls can be in flight on
one address, and a third table can be wanted while two are held. SQLite holds
whole tables only, each with one owner; what leaks is empty; a thread makes at
most one channel to a server. These invariants say nothing of a process whose map a
data race has ruined; `SafeOnceWarm` bounds the race itself: once there is a channel to
every server and nobody is about to store another, all threads only read the map, for
ever. It would notice a `get_channel` that stores again what it has found, which leaves
every invariant as it is. `Threaded = FALSE` describes a program that opens its
tables one at a time; the proofs cover both.

`MCMessages` (`messages`): two objects of each of the sixteen message types, followed
in every pair of fields (`MaxFocus = 2`): a wrong bit, tag or mask clashes with one
other field, so a pair shows it. Lists have up to two elements, so that their
order and the difference between appending and replacing show; an object keeps
up to one unknown field. Every function of the generated code is run in every
order on these objects. That a pair of fields and lists this short are enough does
not rest on this argument alone: the proofs have no such bound.

Six runs show that the code does not do what a document or a comment says:

| run | what fails |
|---|---|
| `refs_regular` (`RegularRefsTable.cfg`) | a kind compared with 0 empties the filter (`kind &= !Kind_X` is `kind &= 0`), and no row comes back |
| `refs_arguments` (`ArgumentsRefsTable.cfg`) | Declaration and Definition share a flag, so with both the arguments of the later flags are off by one |
| `symbols_like` (`LikeSymbolsTable.cfg`) | a LIKE on a column the request does not use selects everything |
| `symbols_schema` (`SchemaSymbolsTable.cfg`) | a repeated case label shifts the property columns from `UnitTest` on |
| `or_symbols` (`RegularSymbolsOrScan.cfg`) | two symbols with ids from 8000000000000000 on share a row id, and an OR such as `Id = x OR Name = n` loses one |
| `or_pairs` (`UniquePairsOrScan.cfg`) | the pairing of `base_of` is not injective, and an OR of conjunctions loses a relation |

Two more differences show in the definitions and need no run. `m_subjects` is never
cleared (`Subjects` appends), so from its second scan on a cursor asks the server
for the relations of all earlier subjects too, where the documentation promises
a specific query. And a kind compared with 1 leaves the filter of a `refs` request
at all kinds (`RequestFilter`), where it is documented to make the request more
specific.

The runs that pass show that, in spite of these, what the tables do return
satisfies the WHERE clause: each time, SQLite repeats the test. The exception is
LIKE on `symbols`, which is documented to select nothing more than the server's
fuzzy search does, and `Promised` of `SymbolsTable` says so.

## 4. Fairness

`Spec` assumes none. `FairSpec` of `RelationsTable` and of `SymbolsTable` has weak
fairness of

* `ReadReply`: a blocked `Read` returns once a message has arrived or the call has
  ended, which gRPC promises;
* SQLite's own next step in a scan (`SeeEof`, `Examine`, `CallNext`): a statement
  that is being stepped runs;
* the server's next step (`ServerSend` or `ServerFinish`). This one the code does
  not enforce: no deadline is set on the `ClientContext`, and without it a server
  that stays silent on a working channel blocks SQLite for ever. It is stated as
  an assumption about the server.

Nothing forces SQLite to begin a scan, and nothing keeps it from restarting one
for ever, so `ScanEnds` allows for that. `OrScan`, `TableFactory` and `Messages` wait
for nobody, and state no fairness.

## 5. The proofs

The proofs hold for every value of the constants that the assumptions of the
modules allow: any set of ids, any index, any list of WHERE clauses, any number
of connections, servers and objects, words of any width, any number of fields
followed at once and lists of any length.

`VtabScanProofs` proves about each step of `VtabScan`, for any table, that it
preserves `StreamInv`, and what it does to `Unread`, the rows the scan can still
come to: the server and `Read` move rows but lose none, a broken channel loses
some, `Examine` uses one up, a new stream has exactly the rows it was started
for. `StreamInv` says that a `FinalResult` is the last message on the wire and is
not gone before the reader has seen it, and that a row is in one place only.

For each table, `Inductive` proves `Spec => []IInv`. `ScanComplete` is not inductive:
it speaks of the end of a scan, and what it needs on the way there is
`Accounting`: the rows owed are among those accepted and those `Unread`, unless the
channel broke. What that rests on differs:

* `RelationsTable`: the present subject is among those of the request
  (`SubjectsOK`), the plan's argument is an equality on Subject and nothing is
  omitted (`PlanOK`).
* `RefsTable`: the request names the symbol that SQLite compares `SymbolId` with and
  leaves the filter at all kinds unless a kind is compared with zero or NULL
  (`RequestOK`). `PlanOK` says why: `SymbolId` comes first, and the arguments that
  follow, however many there are for one flag, are equalities on kind columns.
  That no reference is lost therefore does not depend on which of them `Filter`
  takes for which.
* `SymbolsTable`: the request is the one the plan and the bound values make
  (`RequestOK`), and is not narrower than the WHERE clause. Here the plan omits
  tests, so soundness has to come from the answer to the request. The columns are
  those `xColumn` computes (`Selected`); they are the schema's (`Promised`) only if
  the server sends no properties, which README.md:96 says of it. `Sound`, `Complete`
  and `Refines` have that as their hypothesis, `NoProperties`; `Inductive`,
  `TypeCorrect` and `Fresh` have none.

From `IInv` follow `TypeOK`, `ScanSound`, `ScanComplete` and `CurrentRowIsFresh`, and each
table implements `TableScan` (`Refines`).

Of the end of a scan, `GetsOn` proves the part that needs no fairness, `ScanGetsOn`.
`VtabScanProofs` has one lemma for each kind of step (`ServerWork`, `ReadWork`,
`ClientWork`, `CloseWork`), which need little more of the state than its types; the
invariant is needed for `PendingFinite`, that `Work` is a number at all: what the
server has still to send is part of the answer to the present request (`Accounting`),
which is finite if the index is (for `refs`, if what it says of each symbol is). This
is the hypothesis of the three theorems, and it is needed: a server with no end of
rows to send is not waited out by anybody. A natural number does not sink for ever,
so between two xFilters a cursor makes finitely many steps. What then remains of `ScanEnds` is that a next step
is taken, which is the fairness of section 4: a blocked `Read` finds a message, a
call that is over, or a server that may still send (`EndOfStream`).

`OrScanProofs` proves that symbol ids up to the largest that `strtoll` represents
have different row ids and all larger ones the same, and that pairs with sums of
one parity are told apart while nothing overflows (halving an odd sum before it is
multiplied drops half of the other factor, so sums of different parity mix). Its invariant (`RowSet`, `Progress`): every row of the
terms that are over has been returned, or one with its row id has, and the row
set holds the ids of returned rows only. It follows that no row is returned twice
for any row ids, that none is lost where they can be relied on, and the
refinement.

`TableFactoryProofs` proves its invariant for any number of threads: `Locals` ties
each call's variables to the place it has reached, `MapOK` and `Private` say that a
channel in use is in the map, was replaced there, or is about to be stored by its
maker and known to nobody else, and `Missed` that a thread that found no channel has
made none. All the properties of the run follow; for `SafeOnceWarm` the arguments of a
call have to be real ones (`Locals`), so that `find` on a warm map cannot miss
(`SafeMap`).

`IndexSchemaProofs` proves, for each of the sixteen messages, that what protoc spelled
out ten times over agrees (`TablesAgree`): fields have numbers and bits of their
own; the parser marks the bit that is tested elsewhere; `Clear` skips no field whose
bit is set; `MergeFrom`, `ByteSizeLong` and `_InternalSerialize` take a field exactly
if its bit is set, and every list; tag bytes and announced sizes fit the number and
the kind; the blocks of memory that are zeroed, copied and swapped hold every member
they must. These are facts about constant tables, each proved from its table alone;
everything about `Messages` rests on `TablesAgree` and on nothing else in the schema.

`MessagesProofs` then reasons about any type, any set of fields and any number of
objects. The four invariants of the run lean on each other (a number that survived in a
member whose bit is gone is of the right type, and would be merged, parsed over or
copied later), and none of them says that only one case of a oneof is set, without
which an object is no partial function that a merge of oneofs makes sense for. The
inductive invariant is `AllGood`; its part `Sound` says of each object that

* a field whose bit is set, and every list, has a value of its kind, so no null
  pointer (`FieldSound`);
* a field whose bit is not set holds its default, or is an empty message whose
  memory was kept;
* at most one case of a oneof is set (`OneCase`).

Each function has a lemma that says what it makes of sound messages (`ClearedIs`,
`SwappedIs`, `CopiedIs`, `MergedIs`, `PutSound`, ...), and what that looks like to a user
(`ClearedGood`, `MergedView`, ...). The reader of the wire is reduced to `MergeFrom`:
`ParsingIsMerging` says that parsing what was written of one message into another is
the same as merging it. For that, `TurnIs` shows that one turn of the loop brings
one more field, and `ParsingIs` that after k turns the first k fields have been
brought; the same lemma describes a reply that is cut off (`ReadGood`, `BrokenStep`).
`SizeExact` has to compare two sums of the same numbers in two orders, since
`ByteSizeLong` goes through the members as they are stored and `_InternalSerialize`
through the numbers of the fields: a sum counts the places (entry, byte) of a set
(`TotalCounts`), and a bijection of the entries is one of the places
(`TotalReordered`). From `Inductive` follow `TypeCorrect`, `NeverNull`, `AbsentIsDefault` and
`SizeExact`. `Refines` shows that each call takes the views of the objects where
`MessageSpec` says (`Changed` for a call on one object, `Combined` for one on two).

These loops and sums need induction. The induction theorems of the library cannot be
applied by the provers installed here, so the proofs use sets: `LeastNat` takes the
least element of a set of numbers from the well-foundedness of <, and `NatInductive`
says that a set with 0 that is closed under + 1 has every number. `AllGood` was
also checked by TLC, as an invariant of the instance `MCMessages`, before the proof.

Assumed are `NullAssumption`, that the null pointer is not a message, and
`BoundsAssumption`, that the bounds on lists, fields and unknown fields are natural
numbers. `MaxLen` and `MaxUnknown` keep TLC's instance finite and may be any number;
`MaxFocus` is used in no proof.

Every safety property, action property and refinement that a passing run checks
is stated by a theorem. Only model-checked is liveness (`BlockedCallReturns`, and `ScanEnds` of
`RelationsTable` and `SymbolsTable`, whose measure `GetsOn` provides), because fairness and ENABLED are beyond the
provers; and the six counterexamples are runs by nature.

## 6. Not modelled

* `clangql.cc`: three name tables looked up with a range check, and the registration
  of the module and the functions: straight-line code without state.
* Of the generated messages: arenas (this program allocates on the heap),
  reflection and descriptors, and the contents of unknown fields, of which the
  number is kept. `Service.pb.cc` defines no message. The gRPC stubs forward to the
  library.
* SQLite's headers and the build files: not this program's code.
* The wording of errors, and the location columns of `refs` and the unsearched
  columns of `symbols` one by one: their values are opaque.
* What a cursor does once the process has ended (`FilterNull`, `Terminate`) or memory
  is ruined (`RuinMap`).

What could be added: the three cursors of the README's example joined, the inner
ones filtered again for each outer row (each of them is covered as it is, since
the models filter a cursor again with any values at any time); and the name
functions on integers that do not fit an `int`, which `sqlite3_value_int` truncates.
