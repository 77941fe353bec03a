---------------------------- MODULE TableFactory ----------------------------
(***************************************************************************)
(* The life of a table: module_create and module_destroy (Module.cc), the  *)
(* factory ClangQLModule::Create and its channel cache get_channel         *)
(* (ClangQLModule.cc), with the cursors SQLite opens on a table.           *)
(*                                                                         *)
(* SQLite calls module_create for each connection on the thread that uses  *)
(* it, holding a lock of the connection only, so several threads may be    *)
(* inside at a time; they share the static map `channels`.  Memory may run *)
(* out wherever it is asked for.  On each path, what was allocated is      *)
(* handed to SQLite, deleted, or left behind.                              *)
(***************************************************************************)
EXTENDS Naturals

CONSTANTS
  Conn,        \* connections to databases
  Addr,        \* addresses of servers
  Vtab,        \* bound: the memory in which module_vtab objects can be
  Channel,     \* bound: the memory for channels
  MaxCursors,  \* bound: cursors open on one table
  Threaded,    \* whether connections are used on different threads
  NULL

TableType == {"symbols", "base_of", "overridden_by", "refs"}
Args == [argc : {"five", "other"}, type : TableType \cup {"unknown"}, addr : Addr]
Table == [type : TableType, channel : Channel]
Maker == [addr : Addr, by : Conn]

ASSUME FactoryAssumption ==
  /\ Threaded \in BOOLEAN /\ MaxCursors \in Nat
  /\ NULL \notin Vtab \cup Channel \cup Table \cup Maker

VARIABLES
  at,        \* where each connection is in module_create; "idle" is outside
  args,      \* the arguments of the call
  vtab,      \* the local variable of module_create: the object under way
  channel,   \* the local variable of get_channel or of Create
  heap,      \* the module_vtab objects that are allocated
  tab,       \* tab[v]: the table a module_vtab owns, or NULL
  held,      \* the tables of each connection, as SQLite knows them
  cursors,   \* how many cursors are open on a table
  channels,  \* the static map of get_channel, from address to channel
  made,      \* made[ch]: for which address, and on whose thread, ch was made
  process    \* "running", "terminated" by an exception, or "corrupted"

vars == <<at, args, vtab, channel, heap, tab, held, cursors, channels, made, process>>

\* Without threads, a connection calls only while no other is inside.
MayCall(c) ==
  /\ process = "running"
  /\ at[c] = "idle"
  /\ Threaded \/ \A d \in Conn : at[d] = "idle"

At(c, place) == process = "running" /\ at[c] = place

-----------------------------------------------------------------------------
(* Channels are shared: one lives as long as the map, a table, or a call    *)
(* refers to it.                                                           *)

Alive ==
  {channels[a] : a \in Addr} \cup {channel[c] : c \in Conn}
    \cup {tab[v].channel : v \in {w \in heap : tab[w] # NULL}}

-----------------------------------------------------------------------------
Init ==
  /\ at = [c \in Conn |-> "idle"]
  /\ args = [c \in Conn |-> NULL]
  /\ vtab = [c \in Conn |-> NULL]
  /\ channel = [c \in Conn |-> NULL]
  /\ heap = {} /\ tab = [v \in Vtab |-> NULL]
  /\ held = [c \in Conn |-> {}]
  /\ cursors = [v \in Vtab |-> 0]
  /\ channels = [a \in Addr |-> NULL]
  /\ made = [ch \in Channel |-> NULL]
  /\ process = "running"

\* module_create or module_open without memory for the first object: SQLite is
\* told so, and nothing has changed.
NoMemory(c) == MayCall(c) /\ UNCHANGED vars

\* A mistake in module_create: its variable vtab is static, and every call that
\* is under way goes on with the newest object.
EnterSharing(c) ==
  /\ MayCall(c)
  /\ \E x \in Args, v \in Vtab \ heap :
       /\ args' = [args EXCEPT ![c] = x]
       /\ vtab' = [d \in Conn |-> IF d = c \/ at[d] # "idle" THEN v ELSE NULL]
       /\ heap' = heap \cup {v}
       /\ tab' = [tab EXCEPT ![v] = NULL]
  /\ at' = [at EXCEPT ![c] = "entered"]
  /\ UNCHANGED <<channel, held, cursors, channels, made, process>>

\* module_create, up to the new object.
Enter(c) ==
  /\ MayCall(c)
  /\ \E x \in Args, v \in Vtab \ heap :
       /\ args' = [args EXCEPT ![c] = x]
       /\ vtab' = [vtab EXCEPT ![c] = v]
       /\ heap' = heap \cup {v}
       /\ tab' = [tab EXCEPT ![v] = NULL]
  /\ at' = [at EXCEPT ![c] = "entered"]
  /\ UNCHANGED <<channel, held, cursors, channels, made, process>>

\* The call returns, and its local variables are gone.
Return(c) ==
  /\ at' = [at EXCEPT ![c] = "idle"]
  /\ args' = [args EXCEPT ![c] = NULL]
  /\ vtab' = [vtab EXCEPT ![c] = NULL]
  /\ channel' = [channel EXCEPT ![c] = NULL]

\* Create with five arguments goes on to get_channel.
CheckArguments(c) ==
  /\ At(c, "entered") /\ args[c].argc = "five"
  /\ at' = [at EXCEPT ![c] = "finding"]
  /\ UNCHANGED <<args, vtab, channel, heap, tab, held, cursors, channels, made, process>>

\* A mistake in get_channel: a channel that is there is stored once more.
FindRewriting(c) ==
  /\ At(c, "finding")
  /\ channel' = [channel EXCEPT ![c] = channels[args[c].addr]]
  /\ at' = [at EXCEPT ![c] = IF channels[args[c].addr] = NULL THEN "missed" ELSE "inserting"]
  /\ UNCHANGED <<args, vtab, heap, tab, held, cursors, channels, made, process>>

\* channels.find(addr): the channel that is there, or none.
Find(c) ==
  /\ At(c, "finding")
  /\ channel' = [channel EXCEPT ![c] = channels[args[c].addr]]
  /\ at' = [at EXCEPT ![c] = IF channels[args[c].addr] = NULL THEN "missed" ELSE "connected"]
  /\ UNCHANGED <<args, vtab, heap, tab, held, cursors, channels, made, process>>

\* grpc::CreateChannel.
CreateChannel(c) ==
  /\ At(c, "missed")
  /\ \E ch \in Channel \ Alive :
       /\ channel' = [channel EXCEPT ![c] = ch]
       /\ made' = [made EXCEPT ![ch] = [addr |-> args[c].addr, by |-> c]]
  /\ at' = [at EXCEPT ![c] = "inserting"]
  /\ UNCHANGED <<args, vtab, heap, tab, held, cursors, channels, process>>

\* A mistake in get_channel: the new channel is not stored.
InsertForgotten(c) ==
  /\ At(c, "inserting")
  /\ at' = [at EXCEPT ![c] = "connected"]
  /\ UNCHANGED <<args, vtab, channel, heap, tab, held, cursors, channels, made, process>>

\* channels[addr] = channel, whatever another thread has put there since Find.
Insert(c) ==
  /\ At(c, "inserting")
  /\ channels' = [channels EXCEPT ![args[c].addr] = channel[c]]
  /\ at' = [at EXCEPT ![c] = "connected"]
  /\ UNCHANGED <<args, vtab, channel, heap, tab, held, cursors, made, process>>

\* Two threads are inside the map and one of them changes it: a data race.  It
\* may go well, in either order (Find, Insert), or ruin the map.
RuinMap(c) ==
  /\ At(c, "inserting")
  /\ \E d \in Conn \ {c} : at[d] \in {"finding", "inserting"}
  /\ process' = "corrupted"
  /\ UNCHANGED <<at, args, vtab, channel, heap, tab, held, cursors, channels, made>>

\* The constructor of the table has declared its schema: module_create hands
\* the object to SQLite.
Succeed(c) ==
  /\ At(c, "connected") /\ args[c].type \in TableType
  /\ tab' = [tab EXCEPT ![vtab[c]] = [type |-> args[c].type, channel |-> channel[c]]]
  /\ held' = [held EXCEPT ![c] = @ \cup {[vtab |-> vtab[c], type |-> args[c].type,
                                         addr |-> args[c].addr]}]
  /\ Return(c)
  /\ UNCHANGED <<heap, cursors, channels, made, process>>

\* A mistake in module_create: a failed call hands out the object all the same.
FailHandingOut(c) ==
  /\ \/ At(c, "entered") /\ args[c].argc = "other"
     \/ At(c, "connected") /\ args[c].type \in {"unknown", "refs"}
  /\ held' = [held EXCEPT ![c] = @ \cup {[vtab |-> vtab[c], type |-> args[c].type,
                                         addr |-> args[c].addr]}]
  /\ Return(c)
  /\ UNCHANGED <<heap, tab, cursors, channels, made, process>>

\* A runtime_error: the wrong number of arguments, an unknown type of table, or
\* a `refs` table whose schema SQLite refuses.  SQLITE_ERROR is returned; the
\* object is not deleted, and nobody knows of it any more.
Fail(c) ==
  /\ \/ At(c, "entered") /\ args[c].argc = "other"
     \/ At(c, "connected") /\ args[c].type \in {"unknown", "refs"}
  /\ Return(c)
  /\ UNCHANGED <<heap, tab, held, cursors, channels, made, process>>

\* A mistake in module_create: the table is stored before it is complete, and
\* the object is not deleted when memory runs out.
RunOutOfMemoryKeeping(c) ==
  /\ \E place \in {"entered", "missed", "inserting", "connected"} : At(c, place)
  /\ tab' = [tab EXCEPT ![vtab[c]] = [type |-> args[c].type, channel |-> channel[c]]]
  /\ Return(c)
  /\ UNCHANGED <<heap, held, cursors, channels, made, process>>

\* bad_alloc in Create: the object is deleted and SQLite told there is no
\* memory.  A channel that has not been stored is gone with the call.
RunOutOfMemory(c) ==
  /\ \E place \in {"entered", "missed", "inserting", "connected"} : At(c, place)
  /\ heap' = heap \ {vtab[c]}
  /\ Return(c)
  /\ UNCHANGED <<tab, held, cursors, channels, made, process>>

\* The constructors of the other tables throw a std::exception when SQLite
\* refuses the schema: module_create does not catch it.
Terminate(c) ==
  /\ At(c, "connected") /\ args[c].type \in TableType \ {"refs"}
  /\ process' = "terminated"
  /\ UNCHANGED <<at, args, vtab, channel, heap, tab, held, cursors, channels, made>>

\* module_destroy deletes the object, its table, and the table's stub.  SQLite
\* calls it once the table's cursors are closed.
Destroy(c) ==
  /\ MayCall(c)
  /\ \E t \in held[c] :
       /\ cursors[t.vtab] = 0
       /\ held' = [held EXCEPT ![c] = @ \ {t}]
       /\ heap' = heap \ {t.vtab}
       /\ tab' = [tab EXCEPT ![t.vtab] = NULL]
  /\ UNCHANGED <<at, args, vtab, channel, cursors, channels, made, process>>

\* module_open: a cursor that refers to its table's stub.  When memory runs out
\* whatever was allocated is deleted.
Open(c) ==
  /\ MayCall(c)
  /\ \E t \in held[c] : /\ cursors[t.vtab] < MaxCursors
                        /\ cursors' = [cursors EXCEPT ![t.vtab] = @ + 1]
  /\ UNCHANGED <<at, args, vtab, channel, heap, tab, held, channels, made, process>>

\* module_close.
Close(c) ==
  /\ MayCall(c)
  /\ \E t \in held[c] : /\ cursors[t.vtab] > 0
                        /\ cursors' = [cursors EXCEPT ![t.vtab] = @ - 1]
  /\ UNCHANGED <<at, args, vtab, channel, heap, tab, held, channels, made, process>>

\* The process has ended, or anything may happen in it.
Stopped == process # "running" /\ UNCHANGED vars

Create(c) ==
  \/ NoMemory(c) \/ Enter(c) \/ CheckArguments(c) \/ Find(c) \/ CreateChannel(c)
  \/ Insert(c) \/ RuinMap(c) \/ Succeed(c) \/ Fail(c) \/ RunOutOfMemory(c) \/ Terminate(c)

Next ==
  \/ \E c \in Conn : Create(c) \/ Destroy(c) \/ Open(c) \/ Close(c)
  \/ Stopped

Spec == Init /\ [][Next]_vars

-----------------------------------------------------------------------------
(* Properties.                                                             *)

Places == {"idle", "entered", "finding", "missed", "inserting", "connected"}

TypeOK ==
  /\ at \in [Conn -> Places]
  /\ args \in [Conn -> Args \cup {NULL}]
  /\ vtab \in [Conn -> Vtab \cup {NULL}]
  /\ channel \in [Conn -> Channel \cup {NULL}]
  /\ heap \subseteq Vtab
  /\ tab \in [Vtab -> Table \cup {NULL}]
  /\ held \in [Conn -> SUBSET [vtab : Vtab, type : TableType, addr : Addr]]
  /\ cursors \in [Vtab -> 0..MaxCursors]
  /\ channels \in [Addr -> Channel \cup {NULL}]
  /\ made \in [Channel -> Maker \cup {NULL}]
  /\ process \in {"running", "terminated", "corrupted"}

\* The objects SQLite knows of, and the one a connection is making.
Owned(c) == {t.vtab : t \in held[c]}
Making(c) == IF at[c] = "idle" THEN {} ELSE {vtab[c]}

\* What SQLite holds is a whole table: allocated, of the type the statement
\* named, on a channel to the server it named, whatever other connections were
\* doing while it was made and whichever of their calls failed.
HeldIsWhole ==
  \A c \in Conn : \A t \in held[c] :
    /\ t.vtab \in heap
    /\ tab[t.vtab] # NULL
    /\ tab[t.vtab].type = t.type
    /\ made[tab[t.vtab].channel].addr = t.addr

\* An object has one owner, and cursors are open only on objects SQLite holds:
\* none refers to a stub that is gone.
OneOwner ==
  /\ \A c, d \in Conn : c # d => (Owned(c) \cup Making(c)) \cap (Owned(d) \cup Making(d)) = {}
  /\ \A c \in Conn : Owned(c) \cap Making(c) = {}
  /\ \A v \in Vtab : cursors[v] > 0 => \E c \in Conn : v \in Owned(c)

\* What a failed call leaves behind is an empty shell: no table, and so no
\* channel, is kept alive by an object nobody can destroy.
LeaksAreEmpty ==
  \A v \in heap : tab[v] # NULL => \E c \in Conn : v \in Owned(c)

\* There is one channel to a server, however many tables were made and however
\* many calls have failed; with threads, each of them may have made one.
OneChannel ==
  \A x, y \in Alive \ {NULL} :
    made[x].addr = made[y].addr /\ x # y => Threaded /\ made[x].by # made[y].by

\* Every server has a channel in the map and no call is about to store another.
Warm ==
  /\ \A a \in Addr : channels[a] # NULL
  /\ \A c \in Conn : at[c] \notin {"missed", "inserting"}

\* The data race in get_channel is over with the first tables: once there is a
\* channel to every server and nobody is on the way to storing one, the threads
\* only read the map from then on, whatever tables they make and destroy and
\* whatever fails.
SafeOnceWarm == [][Warm => Warm' /\ process' # "corrupted"]_vars

\* The local variables of a call are those of the place it has got to.
Locals ==
  \A c \in Conn :
    IF at[c] = "idle" THEN vtab[c] = NULL /\ channel[c] = NULL
    ELSE /\ args[c] \in Args
         /\ vtab[c] \in heap /\ tab[vtab[c]] = NULL
         /\ IF at[c] \in {"inserting", "connected"}
              THEN channel[c] # NULL /\ made[channel[c]].addr = args[c].addr
              ELSE channel[c] = NULL

\* A channel is in the map under its own address.  One that is in use and not
\* in the map has been replaced there, or is about to be stored by its maker.
MapOK ==
  /\ \A a \in Addr : channels[a] # NULL => made[channels[a]].addr = a
  /\ \A ch \in Alive \ {NULL} :
       /\ made[ch] # NULL
       /\ \/ channels[made[ch].addr] # NULL
          \/ at[made[ch].by] = "inserting" /\ channel[made[ch].by] = ch

\* Nobody else refers to a channel before its maker has stored it.
Private ==
  \A c \in Conn : at[c] = "inserting" =>
    /\ \A a \in Addr : channels[a] # channel[c]
    /\ \A d \in Conn \ {c} : channel[d] # channel[c]
    /\ \A v \in heap : tab[v] # NULL => tab[v].channel # channel[c]

\* A thread that has not found a channel has not made one for that address;
\* without threads nobody has.
Missed ==
  \A c \in Conn :
    /\ at[c] # "idle" /\ ~Threaded => \A d \in Conn \ {c} : at[d] = "idle"
    /\ at[c] = "missed" =>
         \A ch \in Alive \ {NULL} :
           made[ch].addr = args[c].addr => Threaded /\ made[ch].by # c

\* The inductive invariant.
IInv ==
  /\ TypeOK /\ Locals /\ HeldIsWhole /\ OneOwner /\ LeaksAreEmpty
  /\ MapOK /\ Private /\ Missed /\ OneChannel
=============================================================================
