------------------------- MODULE TableFactoryProofs -------------------------
(***************************************************************************)
(* Proofs about TableFactory, for any number of connections, addresses,    *)
(* objects and channels, with threads and without.                         *)
(*                                                                         *)
(* Only CreateChannel makes a channel that was not in use; every other     *)
(* step leaves the channels in use among those that were (AliveShrinks).   *)
(***************************************************************************)
EXTENDS TableFactory, TLAPS

\* A table keeps its channel in use, and so does a call and the map.
LEMMA AliveBy ==
  /\ \A a \in Addr : channels[a] \in Alive
  /\ \A c \in Conn : channel[c] \in Alive
  /\ \A v \in heap : tab[v] # NULL => tab[v].channel \in Alive
BY DEF Alive

LEMMA AliveType ==
  ASSUME TypeOK
  PROVE  Alive \subseteq Channel \cup {NULL}
BY DEF TypeOK, Alive, Table, Maker

\* What OneChannel, MapOK and Missed say of the channels in use they say of
\* fewer, if nothing else changes for those.
LEMMA OneChannelOfFewer ==
  ASSUME OneChannel, Alive' \subseteq Alive \cup {NULL}, made' = made
  PROVE  OneChannel'
BY DEF OneChannel

LEMMA InitInductive == Init => IInv
<1> SUFFICES ASSUME Init PROVE IInv
  OBVIOUS
<1>1. Alive \subseteq {NULL}
  BY DEF Init, Alive
<1>2. TypeOK
  BY FactoryAssumption DEF Init, TypeOK, Places
<1>3. Locals /\ HeldIsWhole /\ OneOwner /\ LeaksAreEmpty
  BY DEF Init, Locals, HeldIsWhole, OneOwner, LeaksAreEmpty, Owned, Making
<1>4. MapOK /\ Private /\ Missed /\ OneChannel
  BY <1>1 DEF Init, MapOK, Private, Missed, OneChannel
<1> QED
  BY <1>2, <1>3, <1>4 DEF IInv

LEMMA EnterInductive ==
  ASSUME IInv, NEW c \in Conn, Enter(c)
  PROVE  IInv'
<1> USE DEF IInv
<1>1. PICK x \in Args, v \in Vtab \ heap :
        /\ args' = [args EXCEPT ![c] = x]
        /\ vtab' = [vtab EXCEPT ![c] = v]
        /\ heap' = heap \cup {v}
        /\ tab' = [tab EXCEPT ![v] = NULL]
  BY DEF Enter
<1>2. /\ at[c] = "idle" /\ (Threaded \/ \A d \in Conn : at[d] = "idle")
      /\ at' = [at EXCEPT ![c] = "entered"]
      /\ UNCHANGED <<channel, held, cursors, channels, made, process>>
  BY DEF Enter, MayCall
<1>3. Alive' \subseteq Alive
  BY <1>1, <1>2 DEF Alive, TypeOK
<1>4. \A d \in Conn : v \notin Owned(d) \cup Making(d)
  BY <1>1 DEF Owned, Making, HeldIsWhole, Locals
<1>5. \A d \in Conn : Owned(d)' = Owned(d) /\ (d # c => Making(d)' = Making(d))
  BY <1>1, <1>2 DEF Owned, Making, TypeOK
<1>6. Making(c)' = {v} /\ Making(c) = {}
  BY <1>1, <1>2 DEF Making, TypeOK
<1>7. TypeOK'
  BY <1>1, <1>2 DEF TypeOK, Places, Table, Maker
<1>8. Locals'
  BY <1>1, <1>2 DEF Locals, TypeOK
<1>9. HeldIsWhole'
  BY <1>1, <1>2 DEF HeldIsWhole, TypeOK
<1>10. OneOwner'
  BY <1>2, <1>4, <1>5, <1>6 DEF OneOwner
<1>11. LeaksAreEmpty'
  BY <1>1, <1>5 DEF LeaksAreEmpty, TypeOK
<1>12. MapOK'
  BY <1>1, <1>2, <1>3, AliveType DEF MapOK, TypeOK
<1>13. Missed'
  BY <1>1, <1>2, <1>3 DEF Missed, TypeOK
<1>14. OneChannel'
  BY <1>2, <1>3, OneChannelOfFewer
<1>15. Private'
  BY <1>1, <1>2 DEF Private, TypeOK
<1> QED
  BY <1>7, <1>8, <1>9, <1>10, <1>11, <1>12, <1>13, <1>14, <1>15

LEMMA FindInductive ==
  ASSUME IInv, NEW c \in Conn, CheckArguments(c) \/ Find(c)
  PROVE  IInv'
<1> USE DEF IInv
<1>1. /\ at[c] \in {"entered", "finding"} /\ vtab[c] \in heap /\ channel[c] = NULL
      /\ args[c].addr \in Addr
      /\ UNCHANGED <<args, vtab, heap, tab, held, cursors, channels, made, process>>
  BY DEF CheckArguments, Find, At, Locals, Args
<1>2. \/ at' = [at EXCEPT ![c] = "finding"] /\ channel' = channel
      \/ /\ channels[args[c].addr] = NULL
         /\ at[c] = "finding"
         /\ at' = [at EXCEPT ![c] = "missed"]
         /\ channel' = [channel EXCEPT ![c] = NULL]
      \/ /\ channels[args[c].addr] # NULL
         /\ at' = [at EXCEPT ![c] = "connected"]
         /\ channel' = [channel EXCEPT ![c] = channels[args[c].addr]]
  BY DEF CheckArguments, Find, At
<1>3. Alive' \subseteq Alive
  BY <1>1, <1>2 DEF Alive, TypeOK
<1>4. \A d \in Conn : Owned(d)' = Owned(d) /\ Making(d)' = Making(d)
  BY <1>1, <1>2 DEF Owned, Making, TypeOK
<1>5. TypeOK'
  BY <1>1, <1>2 DEF TypeOK, Places, Table, Maker
<1>6. Locals'
  BY <1>1, <1>2 DEF Locals, TypeOK, MapOK
<1>7. HeldIsWhole' /\ LeaksAreEmpty'
  BY <1>1, <1>4 DEF HeldIsWhole, LeaksAreEmpty
<1>8. OneOwner'
  BY <1>1, <1>4 DEF OneOwner
<1>9. MapOK'
  BY <1>1, <1>2, <1>3, AliveType DEF MapOK, TypeOK, Table, Maker
<1>10. Missed'
  <2>1. \A d \in Conn : at'[d] # "idle" /\ ~Threaded => \A e \in Conn \ {d} : at'[e] = "idle"
    BY <1>1, <1>2 DEF Missed, TypeOK
  <2>2. ASSUME NEW d \in Conn, at'[d] = "missed", NEW ch \in Alive' \ {NULL},
               made[ch].addr = args[d].addr
        PROVE  Threaded /\ made[ch].by # d
    <3>1. CASE d # c
      BY <1>2, <1>3, <2>2, <3>1 DEF Missed, TypeOK
    <3>2. CASE d = c
      <4>1. channels[made[ch].addr] = NULL /\ at[c] = "finding"
        BY <1>2, <2>2, <3>2 DEF TypeOK
      <4>2. made[ch] # NULL /\ at[made[ch].by] = "inserting" /\ ch \in Channel
        BY <1>3, <2>2, <4>1, AliveType DEF MapOK
      <4>3. made[ch].by \in Conn
        BY <4>2 DEF TypeOK, Table, Maker
      <4> QED
        BY <3>2, <4>1, <4>2, <4>3 DEF Missed
    <3> QED
      BY <3>1, <3>2
  <2> QED
    BY <1>1, <2>1, <2>2 DEF Missed
<1>11. OneChannel'
  BY <1>1, <1>3, OneChannelOfFewer
<1>12. Private'
  BY <1>1, <1>2 DEF Private, TypeOK
<1> QED
  BY <1>5, <1>6, <1>7, <1>8, <1>9, <1>10, <1>11, <1>12

LEMMA CreateChannelInductive ==
  ASSUME IInv, NEW c \in Conn, CreateChannel(c)
  PROVE  IInv'
<1> USE DEF IInv
<1>1. PICK ch \in Channel \ Alive :
        /\ channel' = [channel EXCEPT ![c] = ch]
        /\ made' = [made EXCEPT ![ch] = [addr |-> args[c].addr, by |-> c]]
  BY DEF CreateChannel
<1>2. /\ at[c] = "missed" /\ at' = [at EXCEPT ![c] = "inserting"]
      /\ args[c].addr \in Addr /\ ch # NULL
      /\ UNCHANGED <<args, vtab, heap, tab, held, cursors, channels, process>>
  BY FactoryAssumption DEF CreateChannel, At, Locals, Args
<1>3. Alive' \subseteq Alive \cup {ch}
  BY <1>1, <1>2 DEF Alive, TypeOK
<1>4. /\ \A x \in Alive : made'[x] = made[x]
      /\ made'[ch] = [addr |-> args[c].addr, by |-> c]
  BY <1>1 DEF TypeOK
<1>5. \A d \in Conn : Owned(d)' = Owned(d) /\ Making(d)' = Making(d)
  BY <1>2 DEF Owned, Making, TypeOK
<1>6. TypeOK'
  BY <1>1, <1>2 DEF TypeOK, Places, Table, Maker
<1>7. Locals'
  BY <1>1, <1>2, <1>4, AliveBy DEF Locals, TypeOK
<1>8. HeldIsWhole' /\ LeaksAreEmpty' /\ OneOwner'
  <2>1. HeldIsWhole'
    BY <1>2, <1>4, AliveBy DEF HeldIsWhole
  <2>2. LeaksAreEmpty' /\ OneOwner'
    BY <1>2, <1>5 DEF LeaksAreEmpty, OneOwner
  <2> QED
    BY <2>1, <2>2
<1>9. MapOK'
  <2>1. \A a \in Addr : channels'[a] # NULL => made'[channels'[a]].addr = a
    BY <1>2, <1>4, AliveBy DEF MapOK
  <2>2. ASSUME NEW x \in Alive' \ {NULL}
        PROVE  /\ made'[x] # NULL
               /\ \/ channels'[made'[x].addr] # NULL
                  \/ at'[made'[x].by] = "inserting" /\ channel'[made'[x].by] = x
    <3>1. CASE x = ch
      <4>1. made'[x] = [addr |-> args[c].addr, by |-> c]
        BY <1>4, <3>1
      <4>2. made'[x] # NULL
        BY <4>1, <1>2, FactoryAssumption DEF Maker
      <4> QED
        BY <1>1, <1>2, <3>1, <4>1, <4>2 DEF TypeOK
    <3>2. CASE x # ch
      <4>1. x \in Alive /\ x \in Channel
        BY <1>3, <3>2, AliveType
      <4>2. made[x] # NULL /\ made[x].by \in Conn
        BY <4>1, <2>2 DEF MapOK, TypeOK, Table, Maker
      <4>3. made[x].by # c \/ at[made[x].by] # "inserting"
        BY <1>2
      <4> QED
        BY <1>1, <1>2, <1>4, <4>1, <4>2, <4>3 DEF MapOK, TypeOK
    <3> QED
      BY <3>1, <3>2
  <2> QED
    BY <2>1, <2>2 DEF MapOK
<1>10. Missed'
  BY <1>1, <1>2, <1>3, <1>4 DEF Missed, TypeOK
<1>11. OneChannel'
  BY <1>2, <1>3, <1>4 DEF OneChannel, Missed
<1>12. Private'
  BY <1>1, <1>2, AliveBy DEF Private, TypeOK
<1> QED
  BY <1>6, <1>7, <1>8, <1>9, <1>10, <1>11, <1>12

LEMMA InsertInductive ==
  ASSUME IInv, NEW c \in Conn, Insert(c)
  PROVE  IInv'
<1> USE DEF IInv
<1>1. /\ at[c] = "inserting" /\ args[c].addr \in Addr
      /\ channel[c] \in Channel /\ channel[c] # NULL
      /\ made[channel[c]].addr = args[c].addr
  BY DEF Insert, At, Locals, TypeOK, Args
<1>2. /\ channels' = [channels EXCEPT ![args[c].addr] = channel[c]]
      /\ at' = [at EXCEPT ![c] = "connected"]
      /\ UNCHANGED <<args, vtab, channel, heap, tab, held, cursors, made, process>>
  BY DEF Insert
<1>3. Alive' \subseteq Alive
  BY <1>1, <1>2 DEF Alive, TypeOK
<1>4. \A d \in Conn : Owned(d)' = Owned(d) /\ Making(d)' = Making(d)
  BY <1>1, <1>2 DEF Owned, Making, TypeOK
<1>5. TypeOK'
  BY <1>1, <1>2 DEF TypeOK, Places, Table, Maker
<1>6. Locals'
  BY <1>1, <1>2 DEF Locals, TypeOK
<1>7. HeldIsWhole' /\ LeaksAreEmpty' /\ OneOwner'
  BY <1>2, <1>4 DEF HeldIsWhole, LeaksAreEmpty, OneOwner
<1>8. MapOK'
  <2>1. ASSUME NEW x \in Alive' \ {NULL}
        PROVE  /\ made[x] # NULL
               /\ \/ channels'[made[x].addr] # NULL
                  \/ at'[made[x].by] = "inserting" /\ channel[made[x].by] = x
    <3>1. x \in Alive \ {NULL} /\ x \in Channel
      BY <1>3, AliveType
    <3>2. made[x] # NULL /\ made[x].addr \in Addr /\ made[x].by \in Conn
      BY <3>1 DEF MapOK, TypeOK, Table, Maker
    <3>3. CASE made[x].addr = args[c].addr
      BY <1>1, <1>2, <3>2, <3>3 DEF TypeOK
    <3>4. CASE made[x].addr # args[c].addr
      <4>1. CASE channels[made[x].addr] # NULL
        BY <1>2, <3>2, <3>4, <4>1 DEF TypeOK
      <4>2. CASE at[made[x].by] = "inserting" /\ channel[made[x].by] = x
        BY <1>1, <1>2, <3>2, <3>4, <4>2 DEF TypeOK
      <4> QED
        BY <3>1, <4>1, <4>2 DEF MapOK
    <3> QED
      BY <3>3, <3>4
  <2>2. \A a \in Addr : channels'[a] # NULL => made[channels'[a]].addr = a
    BY <1>1, <1>2 DEF MapOK, TypeOK
  <2> QED
    BY <1>2, <2>1, <2>2 DEF MapOK
<1>9. Missed'
  BY <1>1, <1>2, <1>3 DEF Missed, TypeOK
<1>10. OneChannel'
  BY <1>2, <1>3, OneChannelOfFewer
<1>11. Private'
  BY <1>1, <1>2 DEF Private, TypeOK
<1> QED
  BY <1>5, <1>6, <1>7, <1>8, <1>9, <1>10, <1>11

\* The call returns, and nobody else refers to a channel it has not stored.
LEMMA ReturnPreserves ==
  ASSUME IInv, NEW c \in Conn, Return(c), UNCHANGED <<channels, made>>,
         Alive' \subseteq Alive \cup {NULL}, at[c] = "inserting" => channel[c] \notin Alive',
         \A v \in heap' : tab'[v] # NULL =>
           (v \in heap /\ tab'[v] = tab[v])
             \/ (at[c] = "connected" /\ tab'[v].channel = channel[c])
  PROVE  MapOK' /\ Private' /\ Missed' /\ OneChannel'
<1> USE DEF IInv
<1>1. /\ at' = [at EXCEPT ![c] = "idle"]
      /\ args' = [args EXCEPT ![c] = NULL]
      /\ channel' = [channel EXCEPT ![c] = NULL]
  BY DEF Return
<1>2. MapOK'
  <2>1. ASSUME NEW x \in Alive' \ {NULL}
        PROVE  /\ made[x] # NULL
               /\ \/ channels[made[x].addr] # NULL
                  \/ at'[made[x].by] = "inserting" /\ channel'[made[x].by] = x
    <3>1. x \in Alive \ {NULL} /\ x \in Channel
      BY AliveType
    <3>2. made[x] # NULL /\ made[x].by \in Conn
      BY <3>1 DEF MapOK, TypeOK, Maker
    <3>3. at[made[x].by] = "inserting" /\ channel[made[x].by] = x => made[x].by # c
      OBVIOUS
    <3> QED
      BY <1>1, <3>1, <3>2, <3>3 DEF MapOK, TypeOK
  <2> QED
    BY <2>1 DEF MapOK
<1>3. Missed'
  BY <1>1 DEF Missed, TypeOK
<1>4. OneChannel'
  BY OneChannelOfFewer
<1>5. Private'
  <2> SUFFICES ASSUME NEW d \in Conn, at'[d] = "inserting"
               PROVE  /\ \A a \in Addr : channels[a] # channel'[d]
                      /\ \A e \in Conn \ {d} : channel'[e] # channel'[d]
                      /\ \A v \in heap' : tab'[v] # NULL => tab'[v].channel # channel'[d]
    BY DEF Private
  <2>1. d # c /\ at[d] = "inserting" /\ channel'[d] = channel[d] /\ channel[d] # NULL
    BY <1>1 DEF TypeOK, Locals
  <2>2. \A e \in Conn \ {d} : channel'[e] # channel'[d]
    BY <1>1, <2>1 DEF Private, TypeOK
  <2> QED
    BY <2>1, <2>2 DEF Private
<1> QED
  BY <1>2, <1>3, <1>4, <1>5

LEMMA SucceedInductive ==
  ASSUME IInv, NEW c \in Conn, Succeed(c)
  PROVE  IInv'
<1> USE DEF IInv
<1> DEFINE v == vtab[c]
           t == [vtab |-> v, type |-> args[c].type, addr |-> args[c].addr]
<1>1. /\ at[c] = "connected" /\ args[c].type \in TableType /\ args[c].addr \in Addr
      /\ v \in heap /\ v \in Vtab /\ tab[v] = NULL
      /\ channel[c] \in Channel /\ made[channel[c]].addr = args[c].addr
  BY DEF Succeed, At, Locals, TypeOK, Args
<1>2. /\ tab' = [tab EXCEPT ![v] = [type |-> args[c].type, channel |-> channel[c]]]
      /\ held' = [held EXCEPT ![c] = @ \cup {t}]
      /\ UNCHANGED <<heap, cursors, channels, made, process>>
      /\ Return(c)
  BY DEF Succeed
<1>3. /\ at' = [at EXCEPT ![c] = "idle"]
      /\ args' = [args EXCEPT ![c] = NULL]
      /\ vtab' = [vtab EXCEPT ![c] = NULL]
      /\ channel' = [channel EXCEPT ![c] = NULL]
  BY <1>2 DEF Return
<1>4. tab'[v] = [type |-> args[c].type, channel |-> channel[c]] /\ tab'[v] # NULL
  <2>1. [type |-> args[c].type, channel |-> channel[c]] \in Table
    BY <1>1 DEF Table
  <2> QED
    BY <1>1, <1>2, <2>1, FactoryAssumption DEF TypeOK
<1>5. Alive' \subseteq Alive \cup {NULL}
  <2>1. \A w \in heap : tab'[w] # NULL => tab'[w].channel \in Alive
    BY <1>1, <1>2, <1>4, AliveBy DEF TypeOK
  <2>2. \A d \in Conn : channel'[d] \in Alive \cup {NULL}
    BY <1>3, AliveBy DEF TypeOK
  <2> QED
    BY <1>2, <2>1, <2>2, AliveBy DEF Alive
<1>6. /\ Making(c) = {v} /\ Making(c)' = {} /\ Owned(c)' = Owned(c) \cup {v}
      /\ \A d \in Conn \ {c} : Owned(d)' = Owned(d) /\ Making(d)' = Making(d)
  <2>1. held'[c] = held[c] \cup {t} /\ \A d \in Conn \ {c} : held'[d] = held[d]
    BY <1>2 DEF TypeOK
  <2>2. Owned(c)' = Owned(c) \cup {v}
    <3>1. t.vtab = v
      OBVIOUS
    <3> HIDE DEF t
    <3> QED
      BY <2>1, <3>1 DEF Owned
  <2>3. Making(c) = {v} /\ Making(c)' = {}
    BY <1>1, <1>3 DEF Making, TypeOK
  <2>4. \A d \in Conn \ {c} : Owned(d)' = Owned(d) /\ Making(d)' = Making(d)
    BY <1>3, <2>1 DEF Owned, Making, TypeOK
  <2> QED
    BY <2>2, <2>3, <2>4
<1>7. TypeOK'
  BY <1>1, <1>2, <1>3 DEF TypeOK, Places, Table
<1>8. Locals'
  <2>1. \A d \in Conn \ {c} : at[d] # "idle" => vtab[d] # v
    BY <1>6 DEF OneOwner, Making
  <2> QED
    BY <1>1, <1>2, <1>3, <2>1 DEF Locals, TypeOK
<1>9. HeldIsWhole'
  <2>1. \A d \in Conn : \A s \in held[d] : s.vtab # v
    BY <1>6 DEF OneOwner, Owned, Making
  <2>2. \A d \in Conn : \A s \in held'[d] : s \in held[d] \/ s = t
    BY <1>2 DEF TypeOK
  <2>3. \A d \in Conn : \A s \in held[d] : tab'[s.vtab] = tab[s.vtab]
    BY <1>2, <2>1 DEF TypeOK
  <2> QED
    BY <1>1, <1>2, <1>4, <2>2, <2>3 DEF HeldIsWhole
<1>10. OneOwner'
  BY <1>2, <1>6 DEF OneOwner
<1>11. LeaksAreEmpty'
  BY <1>2, <1>6 DEF LeaksAreEmpty, TypeOK
<1>12. MapOK' /\ Private' /\ Missed' /\ OneChannel'
  BY <1>1, <1>2, <1>4, <1>5, ReturnPreserves DEF TypeOK
<1> QED
  BY <1>7, <1>8, <1>9, <1>10, <1>11, <1>12

LEMMA FailInductive ==
  ASSUME IInv, NEW c \in Conn, Fail(c) \/ RunOutOfMemory(c)
  PROVE  IInv'
<1> USE DEF IInv
<1>1. /\ at[c] # "idle" /\ vtab[c] \in heap /\ tab[vtab[c]] = NULL
      /\ at[c] = "inserting" => RunOutOfMemory(c)
      /\ heap \ {vtab[c]} \subseteq heap' /\ heap' \subseteq heap
      /\ Return(c)
      /\ UNCHANGED <<tab, held, cursors, channels, made, process>>
  BY DEF Fail, RunOutOfMemory, At, Locals
<1>2. /\ at' = [at EXCEPT ![c] = "idle"]
      /\ args' = [args EXCEPT ![c] = NULL]
      /\ vtab' = [vtab EXCEPT ![c] = NULL]
      /\ channel' = [channel EXCEPT ![c] = NULL]
  BY <1>1 DEF Return
<1>3. Alive' \subseteq Alive \cup {NULL}
  BY <1>1, <1>2 DEF Alive, TypeOK
<1>5. /\ Making(c) = {vtab[c]} /\ Making(c)' = {}
      /\ \A d \in Conn : Owned(d)' = Owned(d)
      /\ \A d \in Conn \ {c} : Making(d)' = Making(d)
  BY <1>1, <1>2 DEF Owned, Making, TypeOK
<1>6. TypeOK'
  BY <1>1, <1>2 DEF TypeOK, Places
<1>7. Locals'
  <2>1. \A d \in Conn \ {c} : at[d] # "idle" => vtab[d] # vtab[c]
    BY <1>5 DEF OneOwner, Making
  <2> QED
    BY <1>1, <1>2, <2>1 DEF Locals, TypeOK
<1>8. HeldIsWhole'
  BY <1>1 DEF HeldIsWhole
<1>9. OneOwner' /\ LeaksAreEmpty'
  BY <1>1, <1>5 DEF OneOwner, LeaksAreEmpty
<1>10. at[c] = "inserting" => channel[c] \notin Alive'
  <2>1. at[c] = "inserting" => channel[c] # NULL
    BY DEF Locals
  <2> QED
    BY <1>1, <1>2, <2>1 DEF Alive, Private, TypeOK
<1>11. MapOK' /\ Private' /\ Missed' /\ OneChannel'
  BY <1>1, <1>3, <1>10, ReturnPreserves
<1> QED
  BY <1>6, <1>7, <1>8, <1>9, <1>11

\* The steps that are about the tables of a connection and their cursors.
LEMMA HeldInductive ==
  ASSUME IInv, NEW c \in Conn, Destroy(c) \/ Open(c) \/ Close(c)
  PROVE  IInv'
<1> USE DEF IInv
<1>1. /\ UNCHANGED <<at, args, vtab, channel, channels, made, process>>
      /\ heap' \subseteq heap
      /\ \A d \in Conn : held'[d] \subseteq held[d]
      /\ \A v \in heap' : tab'[v] = tab[v]
      /\ \A v \in heap \ heap' : v \in Owned(c) /\ cursors[v] = 0
      /\ \A d \in Conn : \A t \in held[d] : t \in held'[d] <=> t.vtab \in heap'
      /\ TypeOK'
  <2>1. CASE Destroy(c)
    <3>1. PICK t \in held[c] :
            /\ cursors[t.vtab] = 0
            /\ held' = [held EXCEPT ![c] = @ \ {t}]
            /\ heap' = heap \ {t.vtab}
            /\ tab' = [tab EXCEPT ![t.vtab] = NULL]
      BY <2>1 DEF Destroy
    <3>2. \A s \in held[c] : s # t => s.vtab # t.vtab
      BY DEF HeldIsWhole, TypeOK
    <3>3. \A d \in Conn \ {c} : \A s \in held[d] : s.vtab # t.vtab
      BY DEF OneOwner, Owned
    <3> QED
      BY <2>1, <3>1, <3>2, <3>3 DEF Destroy, HeldIsWhole, Owned, TypeOK, Table
  <2>2. CASE Open(c) \/ Close(c)
    BY <2>2, FactoryAssumption DEF Open, Close, HeldIsWhole, TypeOK
  <2> QED
    BY <2>1, <2>2
<1>2. \A v \in Vtab : cursors'[v] > 0 => \E d \in Conn : v \in Owned(d)'
  <2>1. CASE Destroy(c)
    <3>1. UNCHANGED cursors
      BY <2>1 DEF Destroy
    <3>2. ASSUME NEW v \in Vtab, cursors[v] > 0
          PROVE  \E d \in Conn : v \in Owned(d)'
      <4>1. PICK d \in Conn : \E t \in held[d] : t.vtab = v
        BY <3>2 DEF OneOwner, Owned
      <4>2. v \in heap'
        BY <1>1, <3>2, <4>1 DEF HeldIsWhole, TypeOK
      <4> QED
        BY <1>1, <4>1, <4>2 DEF Owned
    <3> QED
      BY <3>1, <3>2
  <2>2. CASE Open(c) \/ Close(c)
    <3>1. PICK t \in held[c] : \/ cursors' = [cursors EXCEPT ![t.vtab] = @ + 1]
                              \/ /\ cursors[t.vtab] > 0
                                 /\ cursors' = [cursors EXCEPT ![t.vtab] = @ - 1]
      BY <2>2 DEF Open, Close
    <3>2. held' = held /\ t.vtab \in Owned(c)
      BY <2>2 DEF Open, Close, Owned
    <3>3. \A d \in Conn : Owned(d)' = Owned(d)
      BY <3>2 DEF Owned
    <3>4. \A v \in Vtab : v # t.vtab => cursors'[v] = cursors[v]
      BY <3>1 DEF TypeOK
    <3> QED
      BY <3>2, <3>3, <3>4 DEF OneOwner
  <2> QED
    BY <2>1, <2>2
<1>3. Alive' \subseteq Alive
  BY <1>1 DEF Alive
<1>4. \A d \in Conn : Owned(d)' \subseteq Owned(d) /\ Making(d)' = Making(d)
  BY <1>1 DEF Owned, Making
<1>5. Locals'
  <2>1. \A d \in Conn : at[d] # "idle" => vtab[d] \in heap'
    BY <1>1 DEF OneOwner, Owned, Making, Locals
  <2> QED
    BY <1>1, <2>1 DEF Locals
<1>6. HeldIsWhole'
  BY <1>1 DEF HeldIsWhole
<1>7. OneOwner'
  BY <1>2, <1>4 DEF OneOwner
<1>8. LeaksAreEmpty'
  <2> SUFFICES ASSUME NEW v \in heap', tab'[v] # NULL
               PROVE  \E d \in Conn : v \in Owned(d)'
    BY DEF LeaksAreEmpty
  <2>1. PICK d \in Conn : \E t \in held[d] : t.vtab = v
    BY <1>1 DEF LeaksAreEmpty, Owned
  <2> QED
    BY <1>1, <2>1 DEF Owned
<1>9. MapOK' /\ Private' /\ Missed'
  BY <1>1, <1>3 DEF MapOK, Private, Missed
<1>10. OneChannel'
  BY <1>1, <1>3, OneChannelOfFewer
<1> QED
  BY <1>1, <1>5, <1>6, <1>7, <1>8, <1>9, <1>10

\* The steps that leave everything but the state of the process as it is.
LEMMA ProcessInductive ==
  ASSUME IInv, process' \in {"running", "terminated", "corrupted"},
         UNCHANGED <<at, args, vtab, channel, heap, tab, held, cursors, channels, made>>
  PROVE  IInv'
<1>1. Alive' = Alive /\ \A d \in Conn : Owned(d)' = Owned(d) /\ Making(d)' = Making(d)
  BY DEF Alive, Owned, Making
<1>2. TypeOK' /\ Locals' /\ HeldIsWhole'
  BY DEF IInv, TypeOK, Locals, HeldIsWhole
<1>3. OneOwner' /\ LeaksAreEmpty'
  BY <1>1 DEF IInv, OneOwner, LeaksAreEmpty
<1>4. MapOK' /\ Private' /\ Missed' /\ OneChannel'
  BY <1>1 DEF IInv, MapOK, Private, Missed, OneChannel
<1> QED
  BY <1>2, <1>3, <1>4 DEF IInv

LEMMA StepInductive == IInv /\ [Next]_vars => IInv'
<1> SUFFICES ASSUME IInv, [Next]_vars
             PROVE  IInv'
  OBVIOUS
<1>1. ASSUME NEW c \in Conn, Create(c) \/ Destroy(c) \/ Open(c) \/ Close(c)
      PROVE  IInv'
  <2>1. CASE NoMemory(c)
    BY <2>1, ProcessInductive DEF NoMemory, vars, IInv, TypeOK
  <2>2. CASE RuinMap(c) \/ Terminate(c)
    BY <2>2, ProcessInductive DEF RuinMap, Terminate
  <2> QED
    BY <1>1, <2>1, <2>2, EnterInductive, FindInductive, CreateChannelInductive,
       InsertInductive, SucceedInductive, FailInductive, HeldInductive DEF Create
<1>2. CASE Stopped \/ UNCHANGED vars
  BY <1>2, ProcessInductive DEF Stopped, vars, IInv, TypeOK
<1> QED
  BY <1>1, <1>2 DEF Next

\* The objects, the tables and the channels are accounted for after every step.
THEOREM Inductive == Spec => []IInv
BY InitInductive, StepInductive, PTL DEF Spec

\* The type invariant holds.
THEOREM TypeCorrect == Spec => []TypeOK
BY Inductive, PTL DEF IInv

\* SQLite holds whole tables, on channels to the servers its statements named.
THEOREM Whole == Spec => []HeldIsWhole
BY Inductive, PTL DEF IInv

\* An object has one owner, and no cursor outlives its table.
THEOREM Owners == Spec => []OneOwner
BY Inductive, PTL DEF IInv

\* Failed calls leave empty shells behind and nothing else.
THEOREM Leaks == Spec => []LeaksAreEmpty
BY Inductive, PTL DEF IInv

\* There is one channel to a server, or at most one for each thread.
THEOREM Channels == Spec => []OneChannel
BY Inductive, PTL DEF IInv

\* A step with a warm map writes nothing to it.
LEMMA WarmStep ==
  ASSUME IInv, Warm, [Next]_vars
  PROVE  Warm' /\ (process' # "corrupted" \/ UNCHANGED vars)
<1>1. ASSUME NEW c \in Conn, Create(c) \/ Destroy(c) \/ Open(c) \/ Close(c)
      PROVE  Warm' /\ (process' # "corrupted" \/ UNCHANGED vars)
  <2>1. at[c] \notin {"missed", "inserting"}
    BY DEF Warm
  <2>2. at \in [Conn -> Places]
    BY DEF IInv, TypeOK
  <2>3. CASE NoMemory(c)
    BY <2>3 DEF NoMemory, vars, Warm
  <2>4. CASE Enter(c) \/ CheckArguments(c)
    <3>1. /\ channels' = channels /\ process' = "running"
          /\ \E place \in {"entered", "finding"} : at' = [at EXCEPT ![c] = place]
      BY <2>4 DEF Enter, MayCall, CheckArguments, At
    <3> QED
      BY <2>2, <3>1 DEF Warm
  <2>5. CASE Find(c)
    <3>1. args[c].addr \in Addr
      BY <2>5 DEF Find, At, IInv, Locals, Args
    <3>2. channels[args[c].addr] # NULL
      BY <3>1 DEF Warm
    <3>3. channels' = channels /\ process' = "running" /\ at' = [at EXCEPT ![c] = "connected"]
      BY <2>5, <3>2 DEF Find, At
    <3> QED
      BY <2>2, <3>3 DEF Warm
  <2>6. CASE CreateChannel(c) \/ Insert(c) \/ RuinMap(c)
    BY <2>1, <2>6 DEF CreateChannel, Insert, RuinMap, At
  <2>7. CASE Succeed(c) \/ Fail(c) \/ RunOutOfMemory(c)
    <3>1. channels' = channels /\ process' = "running" /\ at' = [at EXCEPT ![c] = "idle"]
      BY <2>7 DEF Succeed, Fail, RunOutOfMemory, Return, At
    <3> QED
      BY <2>2, <3>1 DEF Warm
  <2>8. CASE Terminate(c) \/ Destroy(c) \/ Open(c) \/ Close(c)
    BY <2>8 DEF Terminate, Destroy, Open, Close, MayCall, Warm
  <2> QED
    BY <1>1, <2>3, <2>4, <2>5, <2>6, <2>7, <2>8 DEF Create
<1>2. CASE Stopped \/ UNCHANGED vars
  BY <1>2 DEF Stopped, vars, Warm
<1> QED
  BY <1>1, <1>2 DEF Next

\* No thread can ruin the map of channels once it is warm.
THEOREM SafeMap == Spec => SafeOnceWarm
<1>1. IInv /\ [Next]_vars => [Warm => Warm' /\ process' # "corrupted"]_vars
  BY WarmStep
<1> QED
  BY <1>1, Inductive, PTL DEF Spec, SafeOnceWarm
=============================================================================
