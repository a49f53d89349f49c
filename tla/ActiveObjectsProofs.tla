------------------------ MODULE ActiveObjectsProofs ------------------------
(***************************************************************************)
(* Proofs about ActiveObjects, for any number of objects, blocks, clients  *)
(* and ids: the types, that the active entries of the blocks are of the    *)
(* objects that own them, that a block which is not to be saved is as on   *)
(* disk, that a client can trust the ids it was told, and that every object*)
(* is in one block, lives once, and stays away when it was removed.        *)
(***************************************************************************)
EXTENDS ActiveObjects, Loops, FiniteSetTheorems, TLAPS

\* The values of the variables, and of the record that the functions of the
\* environment work on.
Maps(T) == UNION {[I -> T] : I \in SUBSET Ids}
Levels == {MOD_STATE_CLEAN, MOD_STATE_WRITE_AT_UNLOAD, MOD_STATE_WRITE_NEEDED}

MapBlocks == [loaded : BOOLEAN, stored : Seq(Objects), active : Maps(Objects),
              modified : Levels]

States ==
    [objects : Maps(ActiveObject), last : 0 .. MaxId,
     block : [Blocks -> MapBlocks], force : BOOLEAN, lost : SUBSET Objects]

\* The database has lists of objects.
DiskOK == /\ DOMAIN disk \subseteq Blocks
          /\ \A b \in DOMAIN disk : disk[b] \in Seq(Objects)

\* The operators on the maps from ids.
LEMMA SetMap ==
    ASSUME NEW T, NEW f \in Maps(T), NEW x \in Ids, NEW y \in T
    PROVE  /\ Set(f, x, y) \in Maps(T)
           /\ DOMAIN Set(f, x, y) = DOMAIN f \cup {x}
           /\ Set(f, x, y)[x] = y
           /\ \A z \in DOMAIN f : z # x => Set(f, x, y)[z] = f[z]
  <1>1. PICK I \in SUBSET Ids : f \in [I -> T]
    BY DEF Maps
  <1>2. I \cup {x} \in SUBSET Ids /\ Set(f, x, y) \in [I \cup {x} -> T]
    BY <1>1 DEF Set
  <1> QED BY <1>1, <1>2 DEF Maps, Set

LEMMA UnsetMap ==
    ASSUME NEW T, NEW f \in Maps(T), NEW x
    PROVE  /\ Unset(f, x) \in Maps(T)
           /\ DOMAIN Unset(f, x) = DOMAIN f \ {x}
           /\ \A z \in DOMAIN f : z # x => Unset(f, x)[z] = f[z]
  <1>1. PICK I \in SUBSET Ids : f \in [I -> T]
    BY DEF Maps
  <1>2. I \ {x} \in SUBSET Ids /\ Unset(f, x) \in [I \ {x} -> T]
    BY <1>1 DEF Unset, Restrict
  <1> QED BY <1>1, <1>2 DEF Maps, Unset, Restrict

\* A block is replaced, and nothing else.
LEMMA PutBlock ==
    ASSUME NEW s \in States, NEW b \in Blocks, NEW m \in MapBlocks
    PROVE  LET t == [s EXCEPT !.block[b] = m]
           IN  /\ t \in States
               /\ t.objects = s.objects /\ t.last = s.last
               /\ t.force = s.force /\ t.lost = s.lost
               /\ \A c \in Blocks : c # b => t.block[c] = s.block[c]
               /\ t.block[b] = m
  BY DEF States

\* raiseModified: only the flag changes, and it does not fall.
LEMMA RaiseDoes ==
    ASSUME NEW s \in States, NEW b \in Blocks, NEW level \in Levels
    PROVE  LET t == Raise(s, b, level)
           IN  /\ t \in States
               /\ t.objects = s.objects /\ t.last = s.last
               /\ t.force = s.force /\ t.lost = s.lost
               /\ \A c \in Blocks : c # b => t.block[c] = s.block[c]
               /\ t.block[b].loaded = s.block[b].loaded
               /\ t.block[b].stored = s.block[b].stored
               /\ t.block[b].active = s.block[b].active
               /\ t.block[b].modified >= level
               /\ t.block[b].modified >= s.block[b].modified
  <1> DEFINE m == s.block[b]
             n == [m EXCEPT !.modified = IF level > @ THEN level ELSE @]
  <1>1. m \in MapBlocks
    BY DEF States
  <1>2. /\ n \in MapBlocks
        /\ n.loaded = m.loaded /\ n.stored = m.stored /\ n.active = m.active
        /\ n.modified >= level /\ n.modified >= m.modified
    BY <1>1 DEF MapBlocks, Levels, MOD_STATE_CLEAN, MOD_STATE_WRITE_AT_UNLOAD,
                MOD_STATE_WRITE_NEEDED
  <1>3. Raise(s, b, level) = [s EXCEPT !.block[b] = n]
    BY DEF Raise
  <1> HIDE DEF n
  <1> QED BY <1>2, <1>3, PutBlock

\* emergeBlock: only a block that was not in memory changes.
LEMMA EmergeDoes ==
    ASSUME NEW s \in States, NEW b \in Blocks, NEW create \in BOOLEAN, DiskOK
    PROVE  LET t == EmergeBlock(s, b, create)
           IN  /\ t \in States
               /\ t.objects = s.objects /\ t.last = s.last
               /\ t.force = s.force /\ t.lost = s.lost
               /\ \A c \in Blocks : c # b => t.block[c] = s.block[c]
               /\ s.block[b].loaded \/ ~t.block[b].loaded => t = s
               /\ create => t.block[b].loaded
  <1>1. Nothing \in Maps(Objects)
    BY DEF Nothing, Maps
  <1>2. MOD_STATE_CLEAN \in Levels /\ MOD_STATE_WRITE_NEEDED \in Levels
    BY DEF Levels
  <1>3. \A c \in DOMAIN disk :
            MapBlock(TRUE, disk[c], MOD_STATE_CLEAN) \in MapBlocks
    BY <1>1, <1>2 DEF DiskOK, MapBlock, MapBlocks
  <1>4. MapBlock(TRUE, <<>>, MOD_STATE_WRITE_NEEDED) \in MapBlocks
    BY <1>1, <1>2 DEF DiskOK, MapBlock, MapBlocks
  <1> QED BY <1>3, <1>4 DEF States, EmergeBlock, MapBlock

-----------------------------------------------------------------------------
(***************************************************************************)
(* What holds of the record between two steps of a function. Each function *)
(* that is defined on it is shown to keep it.                              *)
(***************************************************************************)
\* What is not loaded has nothing in memory.
Unused(s) ==
    \A b \in Blocks : ~s.block[b].loaded => /\ s.block[b].stored = <<>>
                                            /\ DOMAIN s.block[b].active = {}

\* A block's active entries are of active objects that know they are there,
\* and no ghosts; and ghosts are pending. Except for id X, which a function has
\* in its hands. With X = 0 there is no exception.
MatchBut(s, X) ==
    /\ \A b \in Blocks : \A id \in DOMAIN s.block[b].active : id # X =>
           /\ id \in DOMAIN s.objects
           /\ s.objects[id].static_block = b
           /\ s.objects[id].obj = s.block[b].active[id]
           /\ ~s.objects[id].ghost
    /\ \A id \in DOMAIN s.objects :
           id # X /\ s.objects[id].ghost => s.objects[id].pending

\* The blocks that have an active entry of the id.
Entered(s, id) == {b \in Blocks : id \in DOMAIN s.block[b].active}

\* What the functions keep; between their steps it holds but for one id.
Good(s, X) == s \in States /\ Unused(s) /\ MatchBut(s, X)

\* What the functions leave alone.
SameActive(s, t) ==
    /\ t.objects = s.objects
    /\ \A b \in Blocks : t.block[b].active = s.block[b].active

Elsewhere(s, t, b) == \A c \in Blocks : c # b => t.block[c] = s.block[c]

SameRest(s, t) == t.last = s.last /\ t.force = s.force /\ t.lost = s.lost

\* The entries are of the same objects when none of the two changes.
LEMMA SameActiveKeeps ==
    ASSUME NEW s, NEW t, NEW X, SameActive(s, t)
    PROVE  /\ MatchBut(s, X) => MatchBut(t, X)
           /\ \A id : Entered(t, id) = Entered(s, id)
  BY DEF SameActive, MatchBut, Entered

-----------------------------------------------------------------------------
(***************************************************************************)
(* Where the objects are. Most of the time each has one home: a block that *)
(* stores it, in memory or on disk, or an id under which it is active.     *)
(***************************************************************************)
\* The stored objects of a block, in memory or on disk.
Listed(s, b) ==
    IF s.block[b].loaded THEN s.block[b].stored
    ELSE IF b \in DOMAIN disk THEN disk[b] ELSE <<>>

\* Where an object is stored, and under which ids it is active, but for ghosts.
Storing(s, o) == {b \in Blocks : o \in Range(Listed(s, b))}
Running(s, o) ==
    {id \in DOMAIN s.objects : s.objects[id].obj = o /\ ~s.objects[id].ghost}
Housed(s, o) == Storing(s, o) # {} \/ Running(s, o) # {}

Single(seq, o) == \A i, j \in DOMAIN seq : seq[i] = o /\ seq[j] = o => i = j

\* An active object has its data in a block, or is to be removed.
HasEntry(s, id) ==
    \/ s.objects[id].static_block \in Entered(s, id)
    \/ s.objects[id].static_block = None /\ s.objects[id].removed

\* An object is stored in one place, or active under one id, or neither.
HomeOf(s, o) ==
    /\ \A b \in Blocks : Single(Listed(s, b), o)
    /\ \A b, c \in Storing(s, o) : b = c
    /\ \A i, j \in Running(s, o) : i = j
    /\ Storing(s, o) = {} \/ Running(s, o) = {}
    /\ \A id \in Running(s, o) :
           HasEntry(s, id) /\ (o \in killed => s.objects[id].removed)
    /\ o \in killed => Storing(s, o) = {}

\* The objects that are not exempt.
Sound(s) == Objects \ (exempt \cup s.lost)

\* That holds of all of them, and those of B that were not killed have a home;
\* the others do not.
Homes(s, B) ==
    /\ \A id \in DOMAIN s.objects :
           s.objects[id].removed => s.objects[id].obj \in killed
    /\ \A o \in Sound(s) : /\ HomeOf(s, o)
                           /\ Housed(s, o) => o \in B
                           /\ o \in B \ killed => Housed(s, o)

\* What is stored where is the same.
SameLists(s, t) == \A b \in Blocks : Listed(t, b) = Listed(s, b)

\* Nothing but object id, its entries and the lists changes.
Others(s, t, id) ==
    \A i \in Ids \ {id} :
        /\ i \in DOMAIN t.objects <=> i \in DOMAIN s.objects
        /\ i \in DOMAIN s.objects => t.objects[i] = s.objects[i]
        /\ Entered(t, i) = Entered(s, i)

Quiet(s, t, id) == SameLists(s, t) /\ Others(s, t, id)

\* One object is appended to what a block stores.
Stores(s, t, b, o) ==
    /\ Listed(t, b) = Append(Listed(s, b), o)
    /\ \A c \in Blocks \ {b} : Listed(t, c) = Listed(s, c)

\* The object stays, and so does what it says of its data, or it is lost.
Stays(s, t, id) ==
    /\ id \in DOMAIN t.objects
    /\ t.objects[id].obj = s.objects[id].obj
    /\ t.objects[id].removed = s.objects[id].removed
    /\ t.objects[id].ghost = s.objects[id].ghost
    /\ HasEntry(s, id) => HasEntry(t, id) \/ s.objects[id].obj \in t.lost

(***************************************************************************)
(* What the functions for one object come to: it stays active; it is gone, *)
(* for it was to be removed or is lost; or it is stored in a block.        *)
(***************************************************************************)
Settles(s, t, id) ==
    /\ Others(s, t, id)
    /\ s.lost \subseteq t.lost
    /\ \/ SameLists(s, t) /\ Stays(s, t, id)
       \/ /\ SameLists(s, t) /\ id \notin DOMAIN t.objects
          /\ \/ s.objects[id].removed \/ s.objects[id].ghost
             \/ s.objects[id].obj \in t.lost
             \/ ~HasEntry(s, id)
       \/ /\ id \notin DOMAIN t.objects
          /\ s.objects[id].removed \/ s.objects[id].ghost =>
                 s.objects[id].obj \in t.lost
          /\ \E b \in Blocks : Stores(s, t, b, s.objects[id].obj)

\* The objects of B keep their homes.
Keeps(s, t) == \A B : Homes(s, B) => Homes(t, B)

\* What the lists of the blocks are.
LEMMA ListedIs ==
    ASSUME NEW s \in States, DiskOK, NEW b \in Blocks
    PROVE  Listed(s, b) \in Seq(Objects)
  <1>1. s.block[b].stored \in Seq(Objects) /\ <<>> \in Seq(Objects)
    BY DEF States, MapBlocks
  <1> QED BY <1>1 DEF Listed, DiskOK

\* An object for which nothing changes keeps its home.
LEMMA SameHome ==
    ASSUME NEW s, NEW t, NEW o,
           \A b \in Blocks : Single(Listed(s, b), o) => Single(Listed(t, b), o),
           Storing(t, o) = Storing(s, o), Running(t, o) = Running(s, o),
           \A id \in Running(s, o) :
               /\ HasEntry(s, id) => HasEntry(t, id)
               /\ t.objects[id].removed = s.objects[id].removed
    PROVE  /\ HomeOf(s, o) => HomeOf(t, o)
           /\ Housed(t, o) <=> Housed(s, o)
  BY DEF HomeOf, Housed

\* The same objects, entries and lists.
LEMMA AlikeKeeps ==
    ASSUME NEW s, NEW t, SameLists(s, t), s.lost \subseteq t.lost,
           DOMAIN t.objects = DOMAIN s.objects,
           \A id \in DOMAIN s.objects :
               /\ t.objects[id].obj = s.objects[id].obj
               /\ t.objects[id].removed = s.objects[id].removed
               /\ t.objects[id].ghost = s.objects[id].ghost
               /\ t.objects[id].static_block = s.objects[id].static_block
               /\ Entered(t, id) = Entered(s, id)
    PROVE  Keeps(s, t)
  <1> SUFFICES ASSUME NEW B, Homes(s, B) PROVE Homes(t, B)
    BY DEF Keeps
  <1>1. \A id \in DOMAIN t.objects :
            t.objects[id].removed => t.objects[id].obj \in killed
    BY DEF Homes
  <1>2. ASSUME NEW o \in Sound(t)
        PROVE  /\ HomeOf(t, o)
               /\ Housed(t, o) => o \in B
               /\ o \in B \ killed => Housed(t, o)
    <2>1. Storing(t, o) = Storing(s, o)
      BY DEF Storing, SameLists
    <2>2. Running(t, o) = Running(s, o)
      BY DEF Running
    <2>3. \A id \in Running(s, o) :
              /\ HasEntry(s, id) => HasEntry(t, id)
              /\ t.objects[id].removed = s.objects[id].removed
      BY DEF Running, HasEntry
    <2>4. \A b \in Blocks : Single(Listed(s, b), o) => Single(Listed(t, b), o)
      BY DEF SameLists
    <2>5. /\ HomeOf(s, o) => HomeOf(t, o)
          /\ Housed(t, o) <=> Housed(s, o)
      BY <2>1, <2>2, <2>3, <2>4, SameHome
    <2>6. o \in Sound(s)
      BY DEF Sound
    <2> QED BY <2>5, <2>6 DEF Homes
  <1> QED BY <1>1, <1>2 DEF Homes

\* What is in a list with one more.
LEMMA OneMore ==
    ASSUME NEW seq \in Seq(Objects), NEW x \in Objects
    PROVE  /\ Range(Append(seq, x)) = Range(seq) \cup {x}
           /\ \A o : o # x /\ Single(seq, o) => Single(Append(seq, x), o)
           /\ x \notin Range(seq) => Single(Append(seq, x), x)
  <1> DEFINE app == Append(seq, x)
  <1>1. /\ DOMAIN app = 1 .. Len(seq) + 1 /\ DOMAIN seq = 1 .. Len(seq)
        /\ \A i \in 1 .. Len(seq) : app[i] = seq[i]
        /\ app[Len(seq) + 1] = x /\ Len(seq) \in Nat
    OBVIOUS
  <1> HIDE DEF app
  <1>2. Range(app) = Range(seq) \cup {x}
    BY <1>1 DEF Range
  <1>3. ASSUME NEW o, o # x, Single(seq, o) PROVE Single(app, o)
    BY <1>1, <1>3 DEF Single
  <1>4. ASSUME x \notin Range(seq) PROVE Single(app, x)
    BY <1>1, <1>4 DEF Single, Range
  <1> QED BY <1>2, <1>3, <1>4 DEF app

\* The other objects, when one settles.
LEMMA SettlesOthers ==
    ASSUME NEW s \in States, NEW t \in States, DiskOK,
           NEW id \in DOMAIN s.objects, Settles(s, t, id),
           NEW o \in Objects, o # s.objects[id].obj
    PROVE  /\ HomeOf(s, o) => HomeOf(t, o)
           /\ Housed(t, o) <=> Housed(s, o)
  <1> DEFINE x == s.objects[id].obj
  <1>0. /\ DOMAIN s.objects \subseteq Ids /\ DOMAIN t.objects \subseteq Ids
        /\ x \in Objects
    BY DEF States, Maps, ActiveObject
  <1>1. Running(t, o) = Running(s, o)
    BY <1>0 DEF Running, Settles, Others, Stays
  <1>2. \A i \in Running(s, o) :
            /\ HasEntry(s, i) => HasEntry(t, i)
            /\ t.objects[i].removed = s.objects[i].removed
    BY <1>0 DEF Running, Settles, Others, HasEntry
  <1>3. ASSUME NEW b \in Blocks
        PROVE  /\ Single(Listed(s, b), o) => Single(Listed(t, b), o)
               /\ o \in Range(Listed(t, b)) <=> o \in Range(Listed(s, b))
    <2>1. CASE Listed(t, b) = Listed(s, b)
      BY <2>1
    <2>2. CASE Listed(t, b) = Append(Listed(s, b), x)
      <3>1. Listed(s, b) \in Seq(Objects)
        BY ListedIs
      <3> HIDE DEF x
      <3> QED BY <1>0, <2>2, <3>1, OneMore DEF x
    <2> QED BY <2>1, <2>2 DEF Settles, SameLists, Stores
  <1>4. Storing(t, o) = Storing(s, o)
    BY <1>3 DEF Storing
  <1> QED BY <1>1, <1>2, <1>3, <1>4, SameHome

\* Its own, when a ghost settles, if it is not lost.
LEMMA SettlesGhost ==
    ASSUME NEW s \in States, NEW t \in States,
           NEW id \in DOMAIN s.objects, Settles(s, t, id),
           NEW o \in Sound(t), o = s.objects[id].obj, s.objects[id].ghost
    PROVE  /\ HomeOf(s, o) => HomeOf(t, o)
           /\ Housed(t, o) <=> Housed(s, o)
  <1>0. /\ DOMAIN s.objects \subseteq Ids /\ DOMAIN t.objects \subseteq Ids
        /\ o \notin t.lost
    BY DEF States, Maps, Sound
  <1>1. SameLists(s, t) /\ (id \in DOMAIN t.objects => t.objects[id].ghost)
    BY <1>0 DEF Settles, Stays
  <1>2. Running(t, o) = Running(s, o)
    BY <1>0, <1>1 DEF Running, Settles, Others
  <1>3. \A i \in Running(s, o) :
            /\ HasEntry(s, i) => HasEntry(t, i)
            /\ t.objects[i].removed = s.objects[i].removed
    BY <1>0 DEF Running, Settles, Others, HasEntry
  <1>4. Storing(t, o) = Storing(s, o)
    BY <1>1 DEF Storing, SameLists
  <1>5. \A b \in Blocks : Single(Listed(s, b), o) => Single(Listed(t, b), o)
    BY <1>1 DEF SameLists
  <1> QED BY <1>2, <1>3, <1>4, <1>5, SameHome

\* The object itself, if it is not lost.
LEMMA SettlesOne ==
    ASSUME NEW s \in States, NEW t \in States, DiskOK,
           NEW id \in DOMAIN s.objects, Settles(s, t, id),
           NEW o \in Sound(t), o = s.objects[id].obj, HomeOf(s, o),
           s.objects[id].removed => o \in killed, ~s.objects[id].ghost
    PROVE  /\ HomeOf(t, o)
           /\ Housed(s, o)
           /\ Housed(t, o) \/ o \in killed
  <1>0. /\ DOMAIN s.objects \subseteq Ids /\ DOMAIN t.objects \subseteq Ids
        /\ o \in Objects /\ o \notin t.lost /\ o \notin s.lost
    BY DEF States, Maps, ActiveObject, Sound, Settles
  <1>1. /\ Running(s, o) = {id} /\ Storing(s, o) = {} /\ HasEntry(s, id)
        /\ o \in killed => s.objects[id].removed
        /\ \A b \in Blocks : Single(Listed(s, b), o)
    <2>1. id \in Running(s, o)
      BY DEF Running
    <2> QED BY <2>1 DEF HomeOf
  <1>2. Housed(s, o)
    BY <1>1 DEF Housed
  <1>3. Running(t, o) = IF /\ id \in DOMAIN t.objects /\ t.objects[id].obj = o
                           /\ ~t.objects[id].ghost
                        THEN {id} ELSE {}
    BY <1>0, <1>1 DEF Running, Settles, Others
  <1>4. CASE SameLists(s, t)
    <2>1. /\ Storing(t, o) = {}
          /\ \A b \in Blocks : Single(Listed(t, b), o)
      BY <1>1, <1>4 DEF Storing, SameLists
    <2>2. CASE Stays(s, t, id)
      <3>1. Running(t, o) = {id}
        BY <1>3, <2>2 DEF Stays
      <3>2. HasEntry(t, id) /\ (o \in killed => t.objects[id].removed)
        BY <1>0, <1>1, <2>2 DEF Stays
      <3>3. HomeOf(t, o) /\ Housed(t, o)
        BY <2>1, <3>1, <3>2 DEF HomeOf, Housed
      <3> QED BY <1>2, <3>3
    <2>3. CASE id \notin DOMAIN t.objects /\ s.objects[id].removed
      <3>1. Running(t, o) = {}
        BY <1>3, <2>3
      <3>2. HomeOf(t, o)
        BY <2>1, <3>1 DEF HomeOf
      <3> QED BY <1>2, <2>3, <3>2
    <2> HIDE DEF Stays
    <2>4. \/ Stays(s, t, id)
          \/ id \notin DOMAIN t.objects /\ s.objects[id].removed
          \/ \E b \in Blocks : Stores(s, t, b, o)
      BY <1>0, <1>1 DEF Settles
    <2>5. ASSUME NEW b \in Blocks, Stores(s, t, b, o) PROVE FALSE
      <3>1. Listed(s, b) \in Seq(Objects)
        BY ListedIs
      <3>2. Listed(s, b) = Append(Listed(s, b), o)
        BY <1>4, <2>5 DEF SameLists, Stores
      <3>3. o \in Range(Listed(s, b))
        BY <1>0, <3>1, <3>2, OneMore
      <3> QED BY <1>1, <3>3 DEF Storing
    <2> QED BY <2>2, <2>3, <2>4, <2>5
  <1>5. ASSUME id \notin DOMAIN t.objects, ~s.objects[id].removed,
               NEW b \in Blocks, Stores(s, t, b, o)
        PROVE  HomeOf(t, o) /\ Housed(t, o)
    <2>1. Running(t, o) = {}
      BY <1>3, <1>5
    <2>2. Listed(s, b) \in Seq(Objects) /\ o \notin Range(Listed(s, b))
      BY <1>1, ListedIs DEF Storing
    <2>3. /\ o \in Range(Listed(t, b)) /\ Single(Listed(t, b), o)
          /\ \A c \in Blocks \ {b} : Listed(t, c) = Listed(s, c)
      BY <1>0, <1>5, <2>2, OneMore DEF Stores
    <2>4. Storing(t, o) = {b}
      BY <1>1, <2>3 DEF Storing
    <2>5. \A c \in Blocks : Single(Listed(t, c), o)
      BY <1>1, <2>3
    <2>6. o \notin killed
      BY <1>1, <1>5
    <2> QED BY <2>1, <2>4, <2>5, <2>6 DEF HomeOf, Housed
  <1>6. \/ SameLists(s, t)
        \/ /\ id \notin DOMAIN t.objects /\ ~s.objects[id].removed
           /\ \E b \in Blocks : Stores(s, t, b, o)
    BY <1>0 DEF Settles
  <1> QED BY <1>2, <1>4, <1>5, <1>6

LEMMA SettlesKeeps ==
    ASSUME NEW s \in States, NEW t \in States, DiskOK,
           NEW id \in DOMAIN s.objects, Settles(s, t, id)
    PROVE  Keeps(s, t)
  <1> SUFFICES ASSUME NEW B, Homes(s, B) PROVE Homes(t, B)
    BY DEF Keeps
  <1>1. \A i \in DOMAIN t.objects :
            t.objects[i].removed => t.objects[i].obj \in killed
    <2>1. DOMAIN s.objects \subseteq Ids /\ DOMAIN t.objects \subseteq Ids
      BY DEF States, Maps
    <2> QED BY <2>1 DEF Homes, Settles, Others, Stays
  <1>2. ASSUME NEW o \in Sound(t)
        PROVE  /\ HomeOf(t, o)
               /\ Housed(t, o) => o \in B
               /\ o \in B \ killed => Housed(t, o)
    <2>1. o \in Sound(s) /\ o \in Objects
      BY DEF Sound, Settles
    <2>2. /\ HomeOf(s, o)
          /\ Housed(s, o) => o \in B
          /\ o \in B \ killed => Housed(s, o)
      BY <2>1 DEF Homes
    <2>3. CASE o # s.objects[id].obj
      BY <2>1, <2>2, <2>3, SettlesOthers
    <2>4. CASE o = s.objects[id].obj
      <3>1. s.objects[id].removed => o \in killed
        BY <2>4 DEF Homes
      <3>2. CASE s.objects[id].ghost
        BY <2>2, <2>4, <3>2, SettlesGhost
      <3>3. CASE ~s.objects[id].ghost
        BY <2>2, <2>4, <3>1, <3>3, SettlesOne
      <3> QED BY <3>2, <3>3
    <2> QED BY <2>3, <2>4
  <1> QED BY <1>1, <1>2 DEF Homes

\* One after the other.
LEMMA KeepsOn ==
    ASSUME NEW s, NEW t, NEW u, Keeps(s, t), Keeps(t, u)
    PROVE  Keeps(s, u)
  BY DEF Keeps

LEMMA QuietOn ==
    ASSUME NEW s, NEW t, NEW u, NEW id
    PROVE  /\ SameLists(s, t) /\ SameLists(t, u) => SameLists(s, u)
           /\ Others(s, t, id) /\ Others(t, u, id) => Others(s, u, id)
           /\ Quiet(s, t, id) /\ Quiet(t, u, id) => Quiet(s, u, id)
  BY DEF Quiet, SameLists, Others

\* Where nothing else changes, it is enough that the object stays.
LEMMA QuietSettles ==
    ASSUME NEW s, NEW t, NEW id, Quiet(s, t, id), s.lost \subseteq t.lost,
           Stays(s, t, id)
    PROVE  Settles(s, t, id)
  BY DEF Quiet, Settles

\* An object gets an id and an entry, or is lost.
Seated(s, t, o) ==
    /\ SameLists(s, t)
    /\ s.lost \subseteq t.lost
    /\ \/ o \in t.lost /\ Others(s, t, 0)
       \/ \E id \in Ids \ DOMAIN s.objects :
              /\ Others(s, t, id)
              /\ id \in DOMAIN t.objects
              /\ t.objects[id].obj = o
              /\ ~t.objects[id].removed /\ ~t.objects[id].ghost
              /\ t.objects[id].static_block \in Entered(t, id)

\* The other objects, when one is seated.
LEMMA SeatedOthers ==
    ASSUME NEW s \in States, NEW t \in States, NEW o \in Objects,
           Seated(s, t, o), NEW p \in Objects, p # o \/ o \in t.lost,
           p \notin t.lost
    PROVE  /\ HomeOf(s, p) => HomeOf(t, p)
           /\ Housed(t, p) <=> Housed(s, p)
  <1>0. /\ DOMAIN s.objects \subseteq Ids /\ DOMAIN t.objects \subseteq Ids
        /\ 0 \notin Ids
    BY DEF States, Maps, Ids
  <1>1. p # o
    OBVIOUS
  <1>2. PICK id \in Ids \cup {0} :
            /\ Others(s, t, id) /\ id \notin DOMAIN s.objects
            /\ id = 0 \/ t.objects[id].obj = o
    BY <1>0 DEF Seated
  <1>3. Running(t, p) = Running(s, p)
    BY <1>0, <1>1, <1>2 DEF Running, Others
  <1>4. \A i \in Running(s, p) :
            /\ HasEntry(s, i) => HasEntry(t, i)
            /\ t.objects[i].removed = s.objects[i].removed
    BY <1>0, <1>2 DEF Running, Others, HasEntry
  <1>5. Storing(t, p) = Storing(s, p)
    BY DEF Storing, Seated, SameLists
  <1>6. \A b \in Blocks : Single(Listed(s, b), p) => Single(Listed(t, b), p)
    BY DEF Seated, SameLists
  <1> QED BY <1>3, <1>4, <1>5, <1>6, SameHome

\* An object that has no home, and was not killed, gets one.
LEMMA SeatedHomes ==
    ASSUME NEW s \in States, NEW t \in States, NEW o \in Objects,
           Seated(s, t, o), NEW B, Homes(s, B),
           o \in Sound(t) => o \notin B /\ o \notin killed
    PROVE  Homes(t, B \cup {o})
  <1>0. /\ DOMAIN s.objects \subseteq Ids /\ DOMAIN t.objects \subseteq Ids
        /\ 0 \notin Ids
    BY DEF States, Maps, Ids
  <1>1. \A i \in DOMAIN t.objects :
            t.objects[i].removed => t.objects[i].obj \in killed
    BY <1>0 DEF Homes, Seated, Others
  <1>2. ASSUME NEW p \in Sound(t)
        PROVE  /\ HomeOf(t, p)
               /\ Housed(t, p) => p \in B \cup {o}
               /\ p \in (B \cup {o}) \ killed => Housed(t, p)
    <2>1. p \in Sound(s) /\ p \in Objects /\ p \notin t.lost
      BY DEF Sound, Seated
    <2>2. /\ HomeOf(s, p)
          /\ Housed(s, p) => p \in B
          /\ p \in B \ killed => Housed(s, p)
      BY <2>1 DEF Homes
    <2>3. CASE p # o
      BY <2>1, <2>2, <2>3, SeatedOthers
    <2>4. CASE p = o
      <3>1. o \notin B /\ o \notin killed /\ o \notin t.lost
        BY <2>1, <2>4
      <3>2. PICK id \in Ids \ DOMAIN s.objects :
                /\ Others(s, t, id)
                /\ id \in DOMAIN t.objects
                /\ t.objects[id].obj = o
                /\ ~t.objects[id].removed /\ ~t.objects[id].ghost
                /\ t.objects[id].static_block \in Entered(t, id)
        BY <3>1 DEF Seated
      <3>3. Running(s, o) = {} /\ Storing(s, o) = {}
        BY <2>2, <2>4, <3>1 DEF Housed
      <3>4. Running(t, o) = {id}
        BY <1>0, <3>2, <3>3 DEF Running, Others
      <3>5. Storing(t, o) = {}
        BY <3>3 DEF Storing, Seated, SameLists
      <3>6. \A b \in Blocks : Single(Listed(t, b), o)
        BY <2>2, <2>4 DEF Seated, SameLists, HomeOf
      <3>7. HasEntry(t, id)
        BY <3>2 DEF HasEntry
      <3> QED BY <2>4, <3>1, <3>4, <3>5, <3>6, <3>7 DEF HomeOf, Housed
    <2> QED BY <2>3, <2>4
  <1> QED BY <1>1, <1>2 DEF Homes

\* So does one that is stored in a block.
LEMMA StoredHomes ==
    ASSUME NEW s \in States, NEW t \in States, DiskOK, NEW o \in Objects,
           Others(s, t, 0), t.lost = s.lost,
           NEW b \in Blocks, Stores(s, t, b, o), NEW B, Homes(s, B),
           o \in Sound(t) => o \notin B /\ o \notin killed
    PROVE  Homes(t, B \cup {o})
  <1>0. /\ DOMAIN s.objects \subseteq Ids /\ DOMAIN t.objects \subseteq Ids
        /\ 0 \notin Ids
    BY DEF States, Maps, Ids
  <1>1. \A i \in DOMAIN t.objects :
            t.objects[i].removed => t.objects[i].obj \in killed
    BY <1>0 DEF Homes, Others
  <1>L. Listed(s, b) \in Seq(Objects)
    BY ListedIs
  <1>R. /\ Range(Listed(t, b)) = Range(Listed(s, b)) \cup {o}
        /\ \A p : p # o /\ Single(Listed(s, b), p) => Single(Listed(t, b), p)
        /\ o \notin Range(Listed(s, b)) => Single(Listed(t, b), o)
        /\ \A c \in Blocks \ {b} : Listed(t, c) = Listed(s, c)
    BY <1>L, OneMore DEF Stores
  <1>2. ASSUME NEW p \in Sound(t)
        PROVE  /\ HomeOf(t, p)
               /\ Housed(t, p) => p \in B \cup {o}
               /\ p \in (B \cup {o}) \ killed => Housed(t, p)
    <2>1. p \in Sound(s) /\ p \in Objects
      BY DEF Sound
    <2>2. /\ HomeOf(s, p)
          /\ Housed(s, p) => p \in B
          /\ p \in B \ killed => Housed(s, p)
      BY <2>1 DEF Homes
    <2>5. Running(t, p) = Running(s, p)
      BY <1>0 DEF Running, Others
    <2>6. \A i \in Running(s, p) :
              /\ HasEntry(s, i) => HasEntry(t, i)
              /\ t.objects[i].removed = s.objects[i].removed
      BY <1>0 DEF Running, Others, HasEntry
    <2>3. CASE p # o
      <3>1. Storing(t, p) = Storing(s, p)
        BY <1>R, <2>3 DEF Storing
      <3>2. \A c \in Blocks :
                Single(Listed(s, c), p) => Single(Listed(t, c), p)
        BY <1>R, <2>3
      <3> QED BY <2>2, <2>3, <2>5, <2>6, <3>1, <3>2, SameHome
    <2>4. CASE p = o
      <3>1. o \notin B /\ o \notin killed
        BY <2>4
      <3>2. Running(t, o) = {} /\ Storing(s, o) = {}
        BY <2>2, <2>4, <2>5, <3>1 DEF Housed
      <3>3. Storing(t, o) = {b}
        BY <1>R, <3>2 DEF Storing
      <3>4. \A c \in Blocks : Single(Listed(t, c), o)
        BY <1>R, <2>2, <2>4, <3>2 DEF HomeOf, Storing
      <3> QED BY <2>4, <3>1, <3>2, <3>3, <3>4 DEF HomeOf, Housed
    <2> QED BY <2>3, <2>4
  <1> QED BY <1>1, <1>2 DEF Homes

\* Only the objects that are not exempt matter.
LEMMA SameHomes ==
    ASSUME NEW s, NEW B, NEW C, Homes(s, B),
           \A o \in Sound(s) : o \in B <=> o \in C
    PROVE  Homes(s, C)
  BY DEF Homes

\* All that a block stores is taken out of it.
LEMMA EmptiedHomes ==
    ASSUME NEW s \in States, NEW t \in States, NEW b \in Blocks,
           Others(s, t, 0), s.lost \subseteq t.lost,
           \A c \in Blocks \ {b} : Listed(t, c) = Listed(s, c),
           Listed(t, b) = <<>>, NEW B, Homes(s, B)
    PROVE  /\ Homes(t, B \ Range(Listed(s, b)))
           /\ \A o \in Sound(t) \cap Range(Listed(s, b)) :
                  /\ o \in B /\ o \notin killed
                  /\ Single(Listed(s, b), o)
  <1> DEFINE R == Range(Listed(s, b))
  <1>0. /\ DOMAIN s.objects \subseteq Ids /\ DOMAIN t.objects \subseteq Ids
        /\ 0 \notin Ids /\ Range(<<>>) = {}
    BY DEF States, Maps, Ids, Range
  <1>1. \A i \in DOMAIN t.objects :
            t.objects[i].removed => t.objects[i].obj \in killed
    BY <1>0 DEF Homes, Others
  <1>2. ASSUME NEW o \in Sound(t)
        PROVE  /\ HomeOf(t, o)
               /\ Housed(t, o) => o \in B \ R
               /\ o \in (B \ R) \ killed => Housed(t, o)
               /\ o \in R => /\ o \in B /\ o \notin killed
                             /\ Single(Listed(s, b), o)
    <2>1. o \in Sound(s)
      BY DEF Sound
    <2>2. /\ HomeOf(s, o)
          /\ Housed(s, o) => o \in B
          /\ o \in B \ killed => Housed(s, o)
      BY <2>1 DEF Homes
    <2>3. Running(t, o) = Running(s, o)
      BY <1>0 DEF Running, Others
    <2>4. \A i \in Running(s, o) :
              /\ HasEntry(s, i) => HasEntry(t, i)
              /\ t.objects[i].removed = s.objects[i].removed
      BY <1>0 DEF Running, Others, HasEntry
    <2>5. \A c \in Blocks : Single(Listed(s, c), o) => Single(Listed(t, c), o)
      <3>1. Single(<<>>, o)
        BY DEF Single
      <3> QED BY <3>1
    <2>6. Storing(t, o) = Storing(s, o) \ {b}
      BY <1>0 DEF Storing
    <2>7. CASE o \notin R
      <3>1. Storing(t, o) = Storing(s, o)
        BY <2>6, <2>7 DEF Storing
      <3> QED BY <2>2, <2>3, <2>4, <2>5, <2>7, <3>1, SameHome
    <2>8. CASE o \in R
      <3>1. b \in Storing(s, o)
        BY <2>8 DEF Storing
      <3>2. /\ Storing(t, o) = {} /\ Running(t, o) = {}
            /\ o \in B /\ o \notin killed
            /\ \A c \in Blocks : Single(Listed(s, c), o)
        BY <2>2, <2>3, <2>6, <3>1 DEF HomeOf, Housed
      <3>3. HomeOf(t, o) /\ ~Housed(t, o)
        BY <2>5, <3>2 DEF HomeOf, Housed
      <3> QED BY <2>8, <3>2, <3>3
    <2> QED BY <2>7, <2>8
  <1>3. Homes(t, B \ R)
    BY <1>1, <1>2 DEF Homes
  <1> QED BY <1>2, <1>3

-----------------------------------------------------------------------------
\* No object and no entry changes.
LEMMA SameActiveOthers ==
    ASSUME NEW s, NEW t, SameActive(s, t)
    PROVE  \A id : /\ Others(s, t, id)
                   /\ SameLists(s, t) => Quiet(s, t, id)
                   /\ id \in DOMAIN s.objects => Stays(s, t, id)
  BY DEF SameActive, Others, Entered, Quiet, Stays, HasEntry

LEMMA SameActiveHomes ==
    ASSUME NEW s, NEW t, SameActive(s, t), SameLists(s, t),
           s.lost \subseteq t.lost
    PROVE  Keeps(s, t)
  <1>1. /\ DOMAIN t.objects = DOMAIN s.objects
        /\ \A id \in DOMAIN s.objects :
               /\ t.objects[id].obj = s.objects[id].obj
               /\ t.objects[id].removed = s.objects[id].removed
               /\ t.objects[id].ghost = s.objects[id].ghost
               /\ t.objects[id].static_block = s.objects[id].static_block
               /\ Entered(t, id) = Entered(s, id)
    BY DEF SameActive, Entered
  <1> QED BY <1>1, AlikeKeeps

\* Neither of the two changes an entry, an object or a list.
LEMMA RaiseKeeps ==
    ASSUME NEW X, NEW s, Good(s, X), NEW b \in Blocks, NEW level \in Levels
    PROVE  LET t == Raise(s, b, level)
           IN  /\ Good(t, X) /\ SameActive(s, t) /\ SameLists(s, t)
               /\ SameRest(s, t)
               /\ \A c \in Blocks : /\ t.block[c].loaded = s.block[c].loaded
                                    /\ t.block[c].stored = s.block[c].stored
  <1> DEFINE t == Raise(s, b, level)
  <1>1. /\ t \in States
        /\ t.objects = s.objects /\ SameRest(s, t)
        /\ \A c \in Blocks : c # b => t.block[c] = s.block[c]
        /\ t.block[b].loaded = s.block[b].loaded
        /\ t.block[b].stored = s.block[b].stored
        /\ t.block[b].active = s.block[b].active
    BY RaiseDoes DEF Good, SameRest
  <1> HIDE DEF t
  <1>2. SameActive(s, t) /\ Unused(t)
    BY <1>1 DEF SameActive, Unused, Good
  <1>3. MatchBut(t, X)
    BY <1>2, SameActiveKeeps DEF Good
  <1>4. Good(t, X)
    BY <1>1, <1>2, <1>3 DEF Good
  <1>5. \A c \in Blocks : /\ t.block[c].loaded = s.block[c].loaded
                          /\ t.block[c].stored = s.block[c].stored
    BY <1>1
  <1>6. SameLists(s, t)
    BY <1>5 DEF SameLists, Listed
  <1> QED BY <1>1, <1>2, <1>4, <1>5, <1>6 DEF t

LEMMA EmergeKeeps ==
    ASSUME NEW X, NEW s, Good(s, X), NEW b \in Blocks, NEW create \in BOOLEAN,
           DiskOK
    PROVE  LET t == EmergeBlock(s, b, create)
           IN  /\ Good(t, X) /\ SameActive(s, t) /\ SameLists(s, t)
               /\ SameRest(s, t)
               /\ create \/ s.block[b].loaded => t.block[b].loaded
  <1> DEFINE t == EmergeBlock(s, b, create)
  <1>1. /\ t \in States
        /\ t.objects = s.objects /\ SameRest(s, t)
        /\ \A c \in Blocks : c # b => t.block[c] = s.block[c]
        /\ s.block[b].loaded \/ ~t.block[b].loaded => t = s
        /\ create => t.block[b].loaded
    BY EmergeDoes DEF Good, SameRest
  <1>2. t.block[b].active = s.block[b].active
    <2>1. CASE s.block[b].loaded \/ ~t.block[b].loaded
      BY <1>1, <2>1
    <2>2. CASE ~s.block[b].loaded /\ t.block[b].loaded
      <3>1. DOMAIN s.block[b].active = {} /\ s.block[b].active \in Maps(Objects)
        BY <2>2 DEF Good, Unused, States, MapBlocks
      <3>2. s.block[b].active = Nothing
        BY <3>1 DEF Nothing, Maps
      <3>3. t.block[b].active = Nothing
        BY <2>2 DEF EmergeBlock, MapBlock, Good, States
      <3> QED BY <3>2, <3>3
    <2> QED BY <2>1, <2>2
  <1>7. Listed(t, b) = Listed(s, b)
    <2>1. CASE t = s
      BY <2>1
    <2>2. CASE t # s
      <3>1. ~s.block[b].loaded
        BY <1>1, <2>2
      <3>2. \/ /\ b \in DOMAIN disk
               /\ t.block[b] = MapBlock(TRUE, disk[b], MOD_STATE_CLEAN)
            \/ /\ b \notin DOMAIN disk
               /\ t.block[b] = MapBlock(TRUE, <<>>, MOD_STATE_WRITE_NEEDED)
        BY <2>2 DEF EmergeBlock, Good, States
      <3> HIDE DEF t
      <3> QED BY <3>1, <3>2 DEF Listed, MapBlock
    <2> QED BY <2>1, <2>2
  <1> HIDE DEF t
  <1>3. SameActive(s, t)
    BY <1>1, <1>2 DEF SameActive
  <1>4. Unused(t)
    BY <1>1, <1>2 DEF Unused, Good
  <1>5. Good(t, X)
    BY <1>1, <1>3, <1>4, SameActiveKeeps DEF Good
  <1>6. create \/ s.block[b].loaded => t.block[b].loaded
    BY <1>1
  <1>8. SameLists(s, t)
    BY <1>1, <1>7 DEF SameLists, Listed
  <1> QED BY <1>1, <1>3, <1>5, <1>6, <1>8 DEF t

\* What a block has, in both lists.
Held(m) == Range(m.stored) \cup Range(m.active)

\* What need not be saved is as on disk, but for what is exempt, and perhaps
\* for block n.
Synced(s, n) ==
    \A b \in Blocks :
        b # n /\ s.block[b].loaded
              /\ s.block[b].modified < MOD_STATE_WRITE_NEEDED =>
            /\ b \in DOMAIN disk
            /\ Held(s.block[b]) \ (exempt \cup s.lost)
                   = Range(disk[b]) \ (exempt \cup s.lost)

-----------------------------------------------------------------------------
(***************************************************************************)
(* What need not be saved is as the disk has it. A function that takes data*)
(* out of a block, or puts some into it, makes an exception of the block   *)
(* until it has raised its flag.                                           *)
(***************************************************************************)
LEMMA ChangeSyncs ==
    ASSUME NEW s, NEW t, NEW n, s.lost \subseteq t.lost,
           Synced(s, n) \/ Synced(s, None),
           \A c \in Blocks : c # n => t.block[c] = s.block[c]
    PROVE  Synced(t, n)
  <1>1. SUFFICES ASSUME NEW b \in Blocks, b # n, s.block[b].loaded,
                        s.block[b].modified < MOD_STATE_WRITE_NEEDED
                 PROVE  /\ b \in DOMAIN disk
                        /\ Held(s.block[b]) \ (exempt \cup t.lost)
                               = Range(disk[b]) \ (exempt \cup t.lost)
    BY DEF Synced
  <1>2. b # None
    BY DEF None, Blocks
  <1>3. /\ b \in DOMAIN disk
        /\ Held(s.block[b]) \ (exempt \cup s.lost)
               = Range(disk[b]) \ (exempt \cup s.lost)
    BY <1>1, <1>2 DEF Synced
  <1> QED BY <1>3

\* Raising the flag to WRITE_NEEDED ends the exception.
LEMMA RaiseSyncs ==
    ASSUME NEW X, NEW s, Good(s, X), NEW b \in Blocks, NEW level \in Levels,
           NEW n, Synced(s, n)
    PROVE  LET t == Raise(s, b, level)
           IN  /\ Synced(t, n)
               /\ n = b /\ level = MOD_STATE_WRITE_NEEDED => Synced(t, None)
  <1> DEFINE t == Raise(s, b, level)
  <1>1. /\ t \in States /\ t.lost = s.lost
        /\ \A c \in Blocks : c # b => t.block[c] = s.block[c]
        /\ t.block[b].loaded = s.block[b].loaded
        /\ t.block[b].stored = s.block[b].stored
        /\ t.block[b].active = s.block[b].active
        /\ t.block[b].modified >= level
        /\ t.block[b].modified >= s.block[b].modified
    BY RaiseDoes DEF Good
  <1> HIDE DEF t
  <1>2. Held(t.block[b]) = Held(s.block[b])
    BY <1>1 DEF Held
  <1>3. \A c \in Blocks : /\ s.block[c].modified \in Nat
                          /\ t.block[c].modified \in Nat
    <2>1. Levels \subseteq Nat
      BY DEF Levels, MOD_STATE_CLEAN, MOD_STATE_WRITE_AT_UNLOAD,
             MOD_STATE_WRITE_NEEDED
    <2>2. \A c \in Blocks : /\ s.block[c] \in MapBlocks
                            /\ t.block[c] \in MapBlocks
      BY <1>1 DEF Good, States
    <2> QED BY <2>1, <2>2 DEF MapBlocks
  <1>4. t.block[b].modified < MOD_STATE_WRITE_NEEDED =>
            s.block[b].modified < MOD_STATE_WRITE_NEEDED
    BY <1>1, <1>3 DEF MOD_STATE_WRITE_NEEDED
  <1>5. Synced(t, n)
    BY <1>1, <1>2, <1>4 DEF Synced
  <1>6. n = b /\ level = MOD_STATE_WRITE_NEEDED => Synced(t, None)
    <2>1. level = MOD_STATE_WRITE_NEEDED =>
              ~(t.block[b].modified < MOD_STATE_WRITE_NEEDED)
      BY <1>1, <1>3 DEF MOD_STATE_WRITE_NEEDED
    <2> QED BY <1>5, <2>1 DEF Synced
  <1> QED BY <1>5, <1>6 DEF t

\* A block that comes from disk is as on disk; a blank one is to be saved.
LEMMA EmergeSyncs ==
    ASSUME NEW X, NEW s, Good(s, X), NEW b \in Blocks, NEW create \in BOOLEAN,
           DiskOK, NEW n, Synced(s, n)
    PROVE  Synced(EmergeBlock(s, b, create), n)
  <1> DEFINE t == EmergeBlock(s, b, create)
  <1>1. /\ t \in States /\ t.lost = s.lost
        /\ \A c \in Blocks : c # b => t.block[c] = s.block[c]
        /\ s.block[b].loaded \/ ~t.block[b].loaded => t = s
    BY EmergeDoes DEF Good
  <1>2. CASE t = s
    BY <1>2
  <1>3. CASE t # s
    <2>1. \/ /\ b \in DOMAIN disk
             /\ t.block[b] = MapBlock(TRUE, disk[b], MOD_STATE_CLEAN)
          \/ t.block[b] = MapBlock(TRUE, <<>>, MOD_STATE_WRITE_NEEDED)
      BY <1>3 DEF EmergeBlock, Good, States
    <2> HIDE DEF t
    <2>2. ASSUME b \in DOMAIN disk,
                 t.block[b] = MapBlock(TRUE, disk[b], MOD_STATE_CLEAN)
          PROVE  Synced(t, n)
      <3>1. Range(Nothing) = {}
        BY DEF Range, Nothing
      <3>2. Held(t.block[b]) = Range(disk[b])
        BY <2>2, <3>1 DEF Held, MapBlock
      <3> QED BY <1>1, <2>2, <3>2 DEF Synced
    <2>3. ASSUME t.block[b] = MapBlock(TRUE, <<>>, MOD_STATE_WRITE_NEEDED)
          PROVE  Synced(t, n)
      <3>1. ~(t.block[b].modified < MOD_STATE_WRITE_NEEDED)
        BY <2>3 DEF MapBlock, MOD_STATE_WRITE_NEEDED
      <3> QED BY <1>1, <3>1 DEF Synced
    <2>4. Synced(t, n)
      BY <2>1, <2>2, <2>3
    <2> QED BY <2>4 DEF t
  <1> QED BY <1>2, <1>3

-----------------------------------------------------------------------------
(***************************************************************************)
(* The steps that the functions are made of.                               *)
(***************************************************************************)
\* An entry is removed.
LEMMA RemoveKeeps ==
    ASSUME NEW X, NEW s, Good(s, X), NEW b \in Blocks, NEW id \in Ids
    PROVE  LET t == RemoveStatic(s, b, id)
           IN  /\ Good(t, X)
               /\ t.objects = s.objects
               /\ SameRest(s, t)
               /\ Entered(t, id) = Entered(s, id) \ {b}
               /\ Elsewhere(s, t, b)
               /\ s.block[b].loaded => t.block[b].loaded
               /\ t.block[b].stored = s.block[b].stored
               /\ Quiet(s, t, id)
  <1> DEFINE t == RemoveStatic(s, b, id)
             m == s.block[b]
             n == [m EXCEPT !.active = Unset(m.active, id)]
  <1>1. m \in MapBlocks
    BY DEF States, Good
  <1>2. m.active \in Maps(Objects)
    BY <1>1 DEF MapBlocks
  <1>3. /\ Unset(m.active, id) \in Maps(Objects)
        /\ DOMAIN Unset(m.active, id) = DOMAIN m.active \ {id}
        /\ \A z \in DOMAIN m.active :
               z # id => Unset(m.active, id)[z] = m.active[z]
    BY <1>2, UnsetMap
  <1>4. /\ n \in MapBlocks /\ n.active = Unset(m.active, id)
        /\ n.loaded = m.loaded /\ n.stored = m.stored
    BY <1>1, <1>3 DEF MapBlocks
  <1>5. t = [s EXCEPT !.block[b] = n]
    BY DEF RemoveStatic
  <1>6. /\ t \in States
        /\ t.objects = s.objects /\ SameRest(s, t)
        /\ \A c \in Blocks : c # b => t.block[c] = s.block[c]
        /\ t.block[b] = n
    <2> HIDE DEF n, t
    <2> QED BY <1>4, <1>5, PutBlock DEF Good, SameRest
  <1> HIDE DEF n, t
  <1>7. \A c \in Blocks :
           /\ t.block[c].loaded = s.block[c].loaded
           /\ t.block[c].stored = s.block[c].stored
           /\ DOMAIN t.block[c].active \subseteq DOMAIN s.block[c].active
           /\ \A z \in DOMAIN t.block[c].active :
                  t.block[c].active[z] = s.block[c].active[z]
    BY <1>3, <1>4, <1>6
  <1>8. Unused(t)
    BY <1>7 DEF Unused, Good
  <1>9. MatchBut(t, X)
    BY <1>6, <1>7 DEF MatchBut, Good
  <1>10. Entered(t, id) = Entered(s, id) \ {b}
    <2>1. \A c \in Blocks : id \in DOMAIN t.block[c].active
                              <=> id \in DOMAIN s.block[c].active /\ c # b
      BY <1>3, <1>4, <1>6
    <2> QED BY <2>1 DEF Entered
  <1>11. Quiet(s, t, id)
    <2>1. SameLists(s, t)
      BY <1>7 DEF SameLists, Listed
    <2>2. \A j \in Ids \ {id} : Entered(t, j) = Entered(s, j)
      BY <1>3, <1>4, <1>6 DEF Entered
    <2>3. Others(s, t, id)
      BY <1>6, <2>2 DEF Others
    <2> QED BY <2>1, <2>3 DEF Quiet
  <1> QED BY <1>6, <1>7, <1>8, <1>9, <1>10, <1>11 DEF t, Good, Elsewhere

\* An entry is made, for the id that the function has in its hands.
LEMMA InsertKeeps ==
    ASSUME NEW id \in Ids, NEW s, Good(s, id), NEW b \in Blocks,
           NEW o \in Objects, s.block[b].loaded
    PROVE  LET t == InsertStatic(s, b, id, o)
           IN  /\ Good(t, id)
               /\ t.objects = s.objects
               /\ SameRest(s, t)
               /\ Entered(t, id) = Entered(s, id) \cup {b}
               /\ t.block[b].active[id] = o
               /\ Elsewhere(s, t, b)
               /\ s.block[b].loaded => t.block[b].loaded
               /\ t.block[b].stored = s.block[b].stored
               /\ Quiet(s, t, id)
  <1> DEFINE t == InsertStatic(s, b, id, o)
             m == s.block[b]
             n == [m EXCEPT !.active = Set(m.active, id, o)]
  <1>1. m \in MapBlocks
    BY DEF States, Good
  <1>2. m.active \in Maps(Objects)
    BY <1>1 DEF MapBlocks
  <1>3. /\ Set(m.active, id, o) \in Maps(Objects)
        /\ DOMAIN Set(m.active, id, o) = DOMAIN m.active \cup {id}
        /\ Set(m.active, id, o)[id] = o
        /\ \A z \in DOMAIN m.active :
               z # id => Set(m.active, id, o)[z] = m.active[z]
    <2>1. Set(m.active, id, o) \in Maps(Objects)
      BY <1>2, SetMap
    <2> QED BY <2>1 DEF Set
  <1>4. /\ n \in MapBlocks /\ n.active = Set(m.active, id, o)
        /\ n.loaded = m.loaded /\ n.stored = m.stored
    BY <1>1, <1>3 DEF MapBlocks
  <1>5. t = [s EXCEPT !.block[b] = n]
    BY DEF InsertStatic, Ids
  <1>6. /\ t \in States
        /\ t.objects = s.objects /\ SameRest(s, t)
        /\ \A c \in Blocks : c # b => t.block[c] = s.block[c]
        /\ t.block[b] = n
    <2> HIDE DEF n, t
    <2> QED BY <1>4, <1>5, PutBlock DEF Good, SameRest
  <1> HIDE DEF n, t
  <1>7. \A c \in Blocks :
           /\ t.block[c].loaded = s.block[c].loaded
           /\ t.block[c].stored = s.block[c].stored
           /\ \A z \in DOMAIN t.block[c].active \ {id} :
                  /\ z \in DOMAIN s.block[c].active
                  /\ t.block[c].active[z] = s.block[c].active[z]
    BY <1>3, <1>4, <1>6
  <1>8. Unused(t)
    BY <1>4, <1>6 DEF Unused, Good
  <1>9. MatchBut(t, id)
    BY <1>6, <1>7 DEF MatchBut, Good
  <1>10. Entered(t, id) = Entered(s, id) \cup {b}
    <2>1. \A c \in Blocks : id \in DOMAIN t.block[c].active
                              <=> id \in DOMAIN s.block[c].active \/ c = b
      BY <1>3, <1>4, <1>6
    <2> QED BY <2>1 DEF Entered
  <1>11. Quiet(s, t, id)
    <2>1. SameLists(s, t)
      BY <1>7 DEF SameLists, Listed
    <2>2. \A j \in Ids \ {id} : Entered(t, j) = Entered(s, j)
      BY <1>3, <1>4, <1>6 DEF Entered
    <2>3. Others(s, t, id)
      BY <1>6, <2>2 DEF Others
    <2> QED BY <2>1, <2>3 DEF Quiet
  <1> QED BY <1>3, <1>4, <1>6, <1>7, <1>8, <1>9, <1>10, <1>11
         DEF t, Good, Elsewhere

\* An object is stored: no entry changes.
LEMMA StoreKeeps ==
    ASSUME NEW X, NEW s, Good(s, X), NEW b \in Blocks, NEW o \in Objects,
           s.block[b].loaded
    PROVE  LET t == InsertStatic(s, b, 0, o)
           IN  /\ Good(t, X) /\ SameActive(s, t)
               /\ SameRest(s, t)
               /\ t.block[b].stored = Append(s.block[b].stored, o)
               /\ t.block[b].loaded = s.block[b].loaded
               /\ Elsewhere(s, t, b)
               /\ Stores(s, t, b, o)
  <1> DEFINE t == InsertStatic(s, b, 0, o)
             m == s.block[b]
             n == [m EXCEPT !.stored = Append(m.stored, o)]
  <1>1. m \in MapBlocks
    BY DEF States, Good
  <1>2. Append(m.stored, o) \in Seq(Objects)
    BY <1>1 DEF MapBlocks
  <1>4. /\ n \in MapBlocks /\ n.active = m.active
        /\ n.loaded = m.loaded /\ n.stored = Append(m.stored, o)
    BY <1>1, <1>2 DEF MapBlocks
  <1>5. t = [s EXCEPT !.block[b] = n]
    BY DEF InsertStatic
  <1>6. /\ t \in States
        /\ t.objects = s.objects /\ SameRest(s, t)
        /\ \A c \in Blocks : c # b => t.block[c] = s.block[c]
        /\ t.block[b] = n
    <2> HIDE DEF n, t
    <2> QED BY <1>4, <1>5, PutBlock DEF Good, SameRest
  <1> HIDE DEF n, t
  <1>7. SameActive(s, t) /\ Unused(t)
    BY <1>4, <1>6 DEF SameActive, Unused, Good
  <1>8. Good(t, X)
    BY <1>6, <1>7, SameActiveKeeps DEF Good
  <1>9. Stores(s, t, b, o)
    BY <1>4, <1>6 DEF Stores, Listed
  <1> QED BY <1>4, <1>6, <1>7, <1>8, <1>9 DEF t, Elsewhere

\* No block changes, and only object id.
LEMMA SameBlocksQuiet ==
    ASSUME NEW s, NEW t, NEW id, t.block = s.block,
           DOMAIN t.objects \cup {id} = DOMAIN s.objects \cup {id},
           \A i \in DOMAIN s.objects : i # id => t.objects[i] = s.objects[i]
    PROVE  Quiet(s, t, id)
  BY DEF Quiet, SameLists, Listed, Others, Entered

\* An object is changed.
Put(s, id, o) == [s EXCEPT !.objects[id] = o]

\* The object with the id in hand may change, whatever the entries say.
LEMMA PutKeeps ==
    ASSUME NEW id \in Ids, NEW s, Good(s, id), id \in DOMAIN s.objects,
           NEW o \in ActiveObject
    PROVE  LET t == Put(s, id, o)
           IN  /\ Good(t, id)
               /\ t.objects[id] = o
               /\ DOMAIN t.objects = DOMAIN s.objects
               /\ \A i \in DOMAIN s.objects :
                      i # id => t.objects[i] = s.objects[i]
               /\ t.block = s.block
               /\ SameRest(s, t)
               /\ Entered(t, id) = Entered(s, id)
               /\ Quiet(s, t, id)
  <1> DEFINE t == Put(s, id, o)
             p == [s.objects EXCEPT ![id] = o]
  <1>1. PICK I \in SUBSET Ids : s.objects \in [I -> ActiveObject]
    BY DEF Good, States, Maps
  <1>2. p \in [I -> ActiveObject]
    BY <1>1
  <1>3. p \in Maps(ActiveObject) /\ p[id] = o /\ DOMAIN p = DOMAIN s.objects
        /\ \A i \in DOMAIN s.objects : i # id => p[i] = s.objects[i]
    BY <1>1, <1>2 DEF Maps
  <1> HIDE DEF p
  <1>4. t = [s EXCEPT !.objects = p]
    BY DEF Put, p
  <1>5. /\ t \in States /\ t.objects = p /\ t.block = s.block
        /\ SameRest(s, t)
    BY <1>3, <1>4 DEF States, Good, SameRest
  <1> HIDE DEF t
  <1>6. Unused(t) /\ Entered(t, id) = Entered(s, id)
    BY <1>5 DEF Unused, Good, Entered
  <1>7. MatchBut(t, id)
    BY <1>3, <1>5 DEF MatchBut, Good
  <1>8. Quiet(s, t, id)
    BY <1>3, <1>5, SameBlocksQuiet
  <1> QED BY <1>3, <1>5, <1>6, <1>7, <1>8 DEF Good, t, p

\* An object without entries can be erased, and nothing is in hand then.
LEMMA EraseKeeps ==
    ASSUME NEW id \in Ids, NEW s, Good(s, id), Entered(s, id) = {}
    PROVE  LET t == Erase(s, id)
           IN  /\ Good(t, 0)
               /\ DOMAIN t.objects = DOMAIN s.objects \ {id}
               /\ \A i \in DOMAIN s.objects :
                      i # id => t.objects[i] = s.objects[i]
               /\ t.block = s.block
               /\ SameRest(s, t)
               /\ Quiet(s, t, id)
  <1> DEFINE t == Erase(s, id)
             p == Unset(s.objects, id)
  <1>1. /\ p \in Maps(ActiveObject) /\ DOMAIN p = DOMAIN s.objects \ {id}
        /\ \A i \in DOMAIN s.objects : i # id => p[i] = s.objects[i]
    <2>1. s.objects \in Maps(ActiveObject)
      BY DEF Good, States
    <2> QED BY <2>1, UnsetMap
  <1>2. t = [s EXCEPT !.objects = p]
    BY DEF Erase
  <1> HIDE DEF p
  <1>3. /\ t \in States /\ t.objects = p /\ t.block = s.block
        /\ SameRest(s, t)
    BY <1>1, <1>2 DEF States, Good, SameRest
  <1> HIDE DEF t
  <1>4. Unused(t)
    BY <1>3 DEF Unused, Good
  <1>5. MatchBut(t, 0)
    <2>1. \A b \in Blocks : id \notin DOMAIN s.block[b].active
      BY DEF Entered
    <2> QED BY <1>1, <1>3, <2>1 DEF MatchBut, Good
  <1>6. Quiet(s, t, id)
    BY <1>1, <1>3, SameBlocksQuiet
  <1> QED BY <1>1, <1>3, <1>4, <1>5, <1>6 DEF Good, t

\* Where an object's data is.
LEMMA GoodFacts ==
    ASSUME NEW s, NEW id \in Ids
    PROVE  /\ Good(s, 0) => Good(s, id)
           /\ Good(s, 0) => \A b \in Entered(s, id) :
                  /\ id \in DOMAIN s.objects
                  /\ s.objects[id].static_block = b
                  /\ s.objects[id].obj = s.block[b].active[id]
                  /\ ~s.objects[id].ghost
           /\ Good(s, 0) /\ id \in DOMAIN s.objects =>
                  (s.objects[id].ghost => s.objects[id].pending)
           /\ \A x : Good(s, x) =>
                  \A b \in Entered(s, id) : s.block[b].loaded
           /\ Good(s, id)
                  /\ (\A b \in Entered(s, id) :
                         /\ id \in DOMAIN s.objects
                         /\ s.objects[id].static_block = b
                         /\ s.objects[id].obj = s.block[b].active[id]
                         /\ ~s.objects[id].ghost)
                  /\ (id \in DOMAIN s.objects =>
                         (s.objects[id].ghost => s.objects[id].pending))
              => Good(s, 0)
  <1>1. s \in States => \A b \in Blocks : 0 \notin DOMAIN s.block[b].active
    BY DEF States, MapBlocks, Maps, Ids
  <1>2. id # 0
    BY DEF Ids
  <1>3. Good(s, 0) => Good(s, id)
    <2>1. s \in States => 0 \notin DOMAIN s.objects
      BY DEF States, Maps, Ids
    <2> QED BY <1>1, <2>1 DEF Good, MatchBut
  <1>4. Good(s, 0) => \A b \in Entered(s, id) :
                  /\ id \in DOMAIN s.objects
                  /\ s.objects[id].static_block = b
                  /\ s.objects[id].obj = s.block[b].active[id]
                  /\ ~s.objects[id].ghost
    BY <1>2 DEF Good, MatchBut, Entered
  <1>5. ASSUME NEW x, Good(s, x), NEW b \in Entered(s, id)
        PROVE  s.block[b].loaded
    BY <1>5 DEF Good, Unused, Entered
  <1>6. Good(s, id)
            /\ (\A b \in Entered(s, id) :
                   /\ id \in DOMAIN s.objects
                   /\ s.objects[id].static_block = b
                   /\ s.objects[id].obj = s.block[b].active[id]
                   /\ ~s.objects[id].ghost)
            /\ (id \in DOMAIN s.objects =>
                   (s.objects[id].ghost => s.objects[id].pending))
        => Good(s, 0)
    BY DEF Good, MatchBut, Entered
  <1>7. Good(s, 0) /\ id \in DOMAIN s.objects =>
            (s.objects[id].ghost => s.objects[id].pending)
    BY <1>2 DEF Good, MatchBut
  <1> QED BY <1>3, <1>4, <1>5, <1>6, <1>7

\* n has o besides what m has.
Gains(m, n, o) == n.modified = m.modified /\ Held(n) = Held(m) \cup {o}

\* What a block loses with an entry.
LEMMA RemoveHeld ==
    ASSUME NEW X, NEW s, Good(s, X), NEW b \in Blocks, NEW id \in Ids
    PROVE  LET t == RemoveStatic(s, b, id)
           IN  IF id \in DOMAIN s.block[b].active
               THEN Gains(t.block[b], s.block[b], s.block[b].active[id])
               ELSE /\ Held(t.block[b]) = Held(s.block[b])
                    /\ t.block[b].modified = s.block[b].modified
  <1> DEFINE t == RemoveStatic(s, b, id)
             f == s.block[b].active
             g == Unset(f, id)
  <1>1. /\ t.block[b].modified = s.block[b].modified
        /\ t.block[b].stored = s.block[b].stored
        /\ t.block[b].active = g
    BY DEF RemoveStatic, Good, States, MapBlocks
  <1>2. DOMAIN g = DOMAIN f \ {id} /\ \A z \in DOMAIN g : g[z] = f[z]
    BY DEF Unset, Restrict
  <1> HIDE DEF t, g, f
  <1>3. IF id \in DOMAIN f THEN Range(f) = Range(g) \cup {f[id]}
                           ELSE Range(g) = Range(f)
    BY <1>2 DEF Range
  <1>4. IF id \in DOMAIN f
        THEN Gains(t.block[b], s.block[b], f[id])
        ELSE /\ Held(t.block[b]) = Held(s.block[b])
             /\ t.block[b].modified = s.block[b].modified
    BY <1>1, <1>3 DEF Gains, Held, f
  <1> QED BY <1>4 DEF t, f

\* What a block gains.
LEMMA InsertHeld ==
    ASSUME NEW X, NEW s, Good(s, X), NEW b \in Blocks, NEW id \in Ids \cup {0},
           NEW o \in Objects, id \notin DOMAIN s.block[b].active
    PROVE  Gains(s.block[b], InsertStatic(s, b, id, o).block[b], o)
  <1> DEFINE m == s.block[b]
             n == InsertStatic(s, b, id, o).block[b]
  <1>1. m.stored \in Seq(Objects)
    BY DEF Good, States, MapBlocks
  <1>2. CASE id = 0
    <2>1. /\ n.modified = m.modified /\ n.active = m.active
          /\ n.stored = Append(m.stored, o)
      BY <1>2 DEF InsertStatic, Good, States, MapBlocks
    <2> HIDE DEF n, m
    <2>2. Range(n.stored) = Range(m.stored) \cup {o}
      BY <1>1, <2>1 DEF Range
    <2> QED BY <2>1, <2>2 DEF Gains, Held, n, m
  <1>3. CASE id # 0
    <2>1. /\ n.modified = m.modified /\ n.stored = m.stored
          /\ n.active = Set(m.active, id, o)
      BY <1>3 DEF InsertStatic, Good, States, MapBlocks
    <2>2. id \notin DOMAIN m.active
      OBVIOUS
    <2> HIDE DEF n, m
    <2>3. Range(n.active) = Range(m.active) \cup {o}
      BY <2>1, <2>2 DEF Range, Set
    <2> QED BY <2>1, <2>3 DEF Gains, Held, n, m
  <1> QED BY <1>2, <1>3

\* A block that has again what it had, but for what is exempt, is no exception
\* any more.
LEMMA HeldSyncs ==
    ASSUME NEW s, NEW t, NEW b \in Blocks, Synced(s, None), Synced(t, b),
           s.lost \subseteq t.lost, s.block[b].loaded,
           t.block[b].modified = s.block[b].modified,
           \A o : o \in t.lost \/ (o \in Held(t.block[b])
                                       <=> o \in Held(s.block[b]))
    PROVE  Synced(t, None)
  <1>2. b # None
    BY DEF None, Blocks
  <1>3. ASSUME s.block[b].modified < MOD_STATE_WRITE_NEEDED
        PROVE  /\ b \in DOMAIN disk
               /\ Held(t.block[b]) \ (exempt \cup t.lost)
                      = Range(disk[b]) \ (exempt \cup t.lost)
    <2>1. /\ b \in DOMAIN disk
          /\ Held(s.block[b]) \ (exempt \cup s.lost)
                 = Range(disk[b]) \ (exempt \cup s.lost)
      BY <1>2, <1>3 DEF Synced
    <2> QED BY <2>1
  <1> QED BY <1>3 DEF Synced

LEMMA SameHeldSyncs ==
    ASSUME NEW s, NEW t, NEW b \in Blocks, Synced(s, None),
           s.lost \subseteq t.lost, Elsewhere(s, t, b), s.block[b].loaded,
           t.block[b].modified = s.block[b].modified,
           \A o : o \in t.lost \/ (o \in Held(t.block[b])
                                       <=> o \in Held(s.block[b]))
    PROVE  Synced(t, None)
  <1>1. Synced(t, b)
    BY ChangeSyncs DEF Elsewhere
  <1> QED BY <1>1, HeldSyncs

\* What is put into a block while it is lost is no matter.
LEMMA LostSyncs ==
    ASSUME NEW s, NEW t, NEW b \in Blocks, NEW n, Synced(s, n),
           s.lost \subseteq t.lost, Elsewhere(s, t, b), s.block[b].loaded,
           t.block[b].modified = s.block[b].modified,
           \A o : o \in t.lost \/ (o \in Held(t.block[b])
                                       <=> o \in Held(s.block[b]))
    PROVE  Synced(t, n)
  <1> SUFFICES ASSUME NEW c \in Blocks, c # n, t.block[c].loaded,
                      t.block[c].modified < MOD_STATE_WRITE_NEEDED
               PROVE  /\ c \in DOMAIN disk
                      /\ Held(t.block[c]) \ (exempt \cup t.lost)
                             = Range(disk[c]) \ (exempt \cup t.lost)
    BY DEF Synced
  <1>1. /\ s.block[c].loaded
        /\ s.block[c].modified < MOD_STATE_WRITE_NEEDED
        /\ \A o : o \in t.lost \/ (o \in Held(t.block[c])
                                       <=> o \in Held(s.block[c]))
    <2>1. CASE c = b
      BY <2>1
    <2>2. CASE c # b
      BY <2>2 DEF Elsewhere
    <2> QED BY <2>1, <2>2
  <1>2. /\ c \in DOMAIN disk
        /\ Held(s.block[c]) \ (exempt \cup s.lost)
               = Range(disk[c]) \ (exempt \cup s.lost)
    BY <1>1 DEF Synced
  <1> QED BY <1>1, <1>2

\* The three levels.
LEMMA LevelsAre ==
    /\ MOD_STATE_CLEAN \in Levels /\ MOD_STATE_WRITE_AT_UNLOAD \in Levels
    /\ MOD_STATE_WRITE_NEEDED \in Levels
  BY DEF Levels

-----------------------------------------------------------------------------
(***************************************************************************)
(* The functions for one object, which the loops are made of.              *)
(***************************************************************************)
\* What one step of a loop does to the objects: only object id changes.
Touches(s, t, id) ==
    /\ DOMAIN t.objects \subseteq DOMAIN s.objects
    /\ DOMAIN s.objects \ {id} \subseteq DOMAIN t.objects
    /\ \A i \in DOMAIN t.objects :
           /\ t.objects[i].obj = s.objects[i].obj
           /\ t.objects[i].known_by_count = s.objects[i].known_by_count
    /\ s.force => t.force
    /\ id \in DOMAIN s.objects \ DOMAIN t.objects =>
           s.objects[id].known_by_count = 0 \/ t.force

\* What the functions look at.
LEMMA IsActive ==
    ASSUME NEW s \in States, NEW id \in DOMAIN s.objects
    PROVE  /\ s.objects[id] \in ActiveObject /\ id \in Ids
           /\ None \notin Blocks /\ Outside \notin Blocks /\ None # Outside
  <1>1. LastBlock \in Nat
    BY ActiveObjectsConstants
  <1>2. None \notin Blocks /\ Outside \notin Blocks /\ None # Outside
    BY <1>1 DEF None, Outside, Blocks
  <1> QED BY <1>2 DEF States, Maps

\* The object is in an active block and its data in one that is not: the data
\* is put where the object is, then taken from where it was.
LEMMA ResaveKeeps ==
    ASSUME NEW s, Good(s, 0), Synced(s, None), NEW id \in DOMAIN s.objects,
           DiskOK, s.objects[id].pos # Outside, ~s.objects[id].pending,
           s.objects[id].static_block \in Blocks,
           s.objects[id].static_block # s.objects[id].pos
    PROVE  /\ Good(Resave(s, id), 0)
           /\ Synced(Resave(s, id), None)
           /\ Touches(s, Resave(s, id), id)
           /\ SameRest(s, Resave(s, id))
           /\ Settles(s, Resave(s, id), id)
  <1> DEFINE o == s.objects[id]
             e == EmergeBlock(s, o.pos, FALSE)
             i == InsertStatic(e, o.pos, id, o.obj)
             q == [o EXCEPT !.static_block = o.pos]
             p == Put(i, id, q)
             r == Raise(p, o.pos, MOD_STATE_WRITE_NEEDED)
             f == EmergeBlock(r, o.static_block, FALSE)
             d == RemoveStatic(f, o.static_block, id)
             t == Raise(d, o.static_block, MOD_STATE_WRITE_NEEDED)
  <1>1. /\ o \in ActiveObject /\ id \in Ids /\ o.pos \in Blocks
        /\ o.obj \in Objects /\ o.pos # Outside /\ ~o.ghost
    <2>1. id \in Ids /\ o \in ActiveObject
      BY IsActive DEF Good
    <2> QED BY <2>1, GoodFacts DEF ActiveObject, Places
  <1>2. /\ Good(e, 0) /\ SameActive(s, e) /\ SameLists(s, e)
        /\ SameRest(s, e)
    BY <1>1, EmergeKeeps
  <1>synced. Synced(e, None)
    BY <1>1, EmergeSyncs
  <1>3. CASE ~e.block[o.pos].loaded
    <2>1. Resave(s, id) = e
      BY <1>1, <1>3 DEF Resave
    <2> HIDE DEF e
    <2>2. Touches(s, e, id)
      BY <1>2 DEF Touches, SameActive, SameRest
    <2>3. Settles(s, e, id)
      <3>1. Quiet(s, e, id) /\ Stays(s, e, id)
        BY <1>2, SameActiveOthers
      <3> QED BY <1>2, <3>1, QuietSettles DEF SameRest
    <2> QED BY <1>2, <1>synced, <2>1, <2>2, <2>3
  <1>4. CASE e.block[o.pos].loaded
    <2>1. /\ Good(i, id)
          /\ i.objects = e.objects
          /\ SameRest(e, i)
          /\ Entered(i, id) = Entered(e, id) \cup {o.pos}
          /\ i.block[o.pos].active[id] = o.obj
          /\ Elsewhere(e, i, o.pos)
          /\ Quiet(e, i, id)
      <3>1. Good(e, id)
        BY <1>1, <1>2, GoodFacts
      <3> HIDE DEF e, o
      <3> QED BY <1>1, <1>4, <3>1, InsertKeeps
    <2>2. i.objects = s.objects
      BY <1>2, <2>1 DEF SameActive
    <2>3. /\ q \in ActiveObject /\ q.static_block = o.pos /\ q.obj = o.obj
          /\ q.known_by_count = o.known_by_count /\ q.removed = o.removed
          /\ q.ghost = o.ghost /\ ~q.ghost
      BY <1>1 DEF ActiveObject
    <2>4. /\ Good(p, id)
          /\ DOMAIN p.objects = DOMAIN i.objects
          /\ p.objects[id] = q
          /\ \A j \in DOMAIN i.objects : j # id => p.objects[j] = i.objects[j]
          /\ p.block = i.block
          /\ SameRest(i, p)
          /\ Entered(p, id) = Entered(i, id)
          /\ Quiet(i, p, id)
      <3> HIDE DEF i, q, o
      <3>1. /\ id \in Ids /\ Good(i, id) /\ id \in DOMAIN i.objects
            /\ q \in ActiveObject
        BY <1>1, <2>1, <2>2, <2>3
      <3> QED BY <3>1, PutKeeps
    <2>p. p = [i EXCEPT !.objects[id].static_block = o.pos]
      BY <2>2 DEF Put
    <2>5. /\ Good(r, id) /\ SameActive(p, r) /\ SameLists(p, r)
          /\ SameRest(p, r)
      <3>1. Good(p, id) /\ o.pos \in Blocks
        <4> HIDE DEF p
        <4> QED BY <1>1, <2>4
      <3> HIDE DEF p, o
      <3> QED BY <3>1, RaiseKeeps, LevelsAre
    <2>6. /\ Good(f, id) /\ SameActive(r, f) /\ SameLists(r, f)
          /\ SameRest(r, f)
      <3> HIDE DEF r
      <3> QED BY <1>1, <2>5, EmergeKeeps
    <2>7. /\ \A b \in Entered(f, id) : b = o.pos \/ b = o.static_block
          /\ o.pos \in Entered(f, id)
          /\ f.block[o.pos].active[id] = o.obj
          /\ f.objects = p.objects
      <3>1. \A b \in Entered(e, id) : b = o.static_block
        <4>1. id \in Ids /\ Good(e, 0) /\ e.objects = s.objects
          BY <1>1, <1>2 DEF SameActive
        <4> HIDE DEF e
        <4> QED BY <4>1, GoodFacts
      <3>2. Entered(f, id) = Entered(e, id) \cup {o.pos}
        <4> HIDE DEF e, i, p, r, f, o
        <4>1. Entered(r, id) = Entered(p, id) /\ Entered(f, id) = Entered(r, id)
          BY <2>5, <2>6, SameActiveKeeps
        <4> QED BY <2>1, <2>4, <4>1
      <3>3. f.block[o.pos].active = i.block[o.pos].active
        BY <1>1, <2>4, <2>5, <2>6 DEF SameActive
      <3> HIDE DEF e, i, p, r, f
      <3> QED BY <2>1, <2>5, <2>6, <3>1, <3>2, <3>3 DEF SameActive
    <2>8. Touches(s, f, id) /\ SameRest(s, f) /\ f.objects[id] = q
      <3> HIDE DEF e, i, p, r, f, q
      <3> QED BY <1>2, <2>1, <2>2, <2>3, <2>4, <2>5, <2>6, <2>7
             DEF Touches, SameRest, SameActive
    <2>9. id \in DOMAIN f.objects
      <3> HIDE DEF e, i, p, r, f, q
      <3> QED BY <2>2, <2>4, <2>7
    <2>Q. Quiet(s, f, id)
      <3> HIDE DEF e, i, p, r, f, q, o
      <3>1. Quiet(s, e, id) /\ Quiet(p, r, id) /\ Quiet(r, f, id)
        BY <1>2, <2>5, <2>6, SameActiveOthers
      <3>2. Quiet(s, i, id)
        BY <2>1, <3>1, QuietOn
      <3>3. Quiet(s, p, id)
        BY <2>4, <3>2, QuietOn
      <3>4. Quiet(s, r, id)
        BY <3>1, <3>3, QuietOn
      <3> QED BY <3>1, <3>4, QuietOn
    <2>S. Synced(f, None)
      <3>0. o.pos \in Blocks /\ o.static_block \in Blocks
        BY <1>1
      <3> HIDE DEF o, q
      <3>1. Synced(p, o.pos)
        <4> HIDE DEF e, i, p
        <4>0. /\ e.lost \subseteq i.lost
              /\ \A c \in Blocks : c # o.pos => i.block[c] = e.block[c]
          BY <2>1 DEF SameRest, Elsewhere
        <4>1. Synced(i, o.pos)
          BY <1>synced, <4>0, ChangeSyncs
        <4> QED BY <2>4, <4>1, ChangeSyncs DEF SameRest
      <3>2. Synced(r, None)
        <4> HIDE DEF p
        <4> QED BY <2>4, <3>0, <3>1, RaiseSyncs, LevelsAre
      <3> HIDE DEF r
      <3> QED BY <2>5, <3>0, <3>2, EmergeSyncs
    <2>10. CASE ~f.block[o.static_block].loaded
      <3>1. Resave(s, id) = f
        BY <1>1, <1>4, <2>p, <2>10, Zenon DEF Resave
      <3> HIDE DEF e, i, p, r, f, q
      <3>2. o.static_block \notin Entered(f, id)
        BY <2>6, <2>10 DEF Good, Unused, Entered
      <3>o. o.obj = f.objects[id].obj /\ ~f.objects[id].ghost
        BY <2>3, <2>8
      <3>b. \A b \in Entered(f, id) : b = f.objects[id].static_block
        BY <2>3, <2>7, <2>8, <3>2
      <3>3. Good(f, 0)
        <4> HIDE DEF o
        <4> QED BY <1>1, <2>6, <2>7, <2>9, <3>2, <3>b, <3>o, GoodFacts
      <3>4. Settles(s, f, id)
        <4>1. Stays(s, f, id)
          BY <1>1, <2>3, <2>7, <2>8, <2>9 DEF Stays, HasEntry
        <4> QED BY <2>8, <2>Q, <4>1, QuietSettles DEF SameRest
      <3> QED BY <2>8, <2>S, <3>1, <3>3, <3>4
    <2>11. CASE f.block[o.static_block].loaded
      <3>1. Resave(s, id) = t
        BY <1>1, <1>4, <2>p, <2>11, Zenon DEF Resave
      <3> HIDE DEF e, i, p, r, f, q
      <3>2. /\ Good(d, id) /\ d.objects = f.objects /\ SameRest(f, d)
            /\ Entered(d, id) = Entered(f, id) \ {o.static_block}
            /\ Elsewhere(f, d, o.static_block)
            /\ Quiet(f, d, id)
        <4>1. Good(f, id) /\ o.static_block \in Blocks /\ id \in Ids
          BY <1>1, <2>6
        <4> HIDE DEF o
        <4> QED BY <4>1, RemoveKeeps
      <3> HIDE DEF d
      <3>3. Good(d, 0)
        BY <1>1, <2>3, <2>7, <2>8, <2>9, <3>2, GoodFacts DEF Elsewhere
      <3>4. /\ Good(t, 0) /\ t.objects = f.objects /\ SameRest(s, t)
            /\ Entered(t, id) = Entered(d, id) /\ Quiet(s, t, id)
        <4>1. o.static_block \in Blocks
          OBVIOUS
        <4> HIDE DEF o
        <4>2. /\ Good(t, 0) /\ SameActive(d, t) /\ SameRest(d, t)
              /\ SameLists(d, t)
          BY <3>3, <4>1, RaiseKeeps, LevelsAre
        <4> HIDE DEF t
        <4>3. Entered(t, id) = Entered(d, id)
          BY <4>2, SameActiveKeeps
        <4>4. Quiet(d, t, id) /\ Quiet(s, d, id)
          BY <2>Q, <3>2, <4>2, SameActiveOthers, QuietOn
        <4>5. Quiet(s, t, id)
          BY <4>4, QuietOn
        <4> QED BY <2>8, <3>2, <4>2, <4>3, <4>5 DEF SameActive, SameRest
      <3>5. Touches(s, t, id)
        BY <2>8, <3>4 DEF Touches, SameRest
      <3>6. Synced(d, o.static_block)
        BY <2>S, <3>2, ChangeSyncs DEF SameRest, Elsewhere
      <3>7. Synced(t, None)
        <4>1. o.static_block \in Blocks
          OBVIOUS
        <4> HIDE DEF o
        <4> QED BY <3>3, <3>6, <4>1, RaiseSyncs, LevelsAre
      <3> HIDE DEF t
      <3>8. Settles(s, t, id)
        <4>1. o.pos \in Entered(t, id)
          BY <2>7, <3>2, <3>4
        <4>2. Stays(s, t, id)
          BY <1>1, <2>3, <2>8, <2>9, <3>4, <4>1 DEF Stays, HasEntry
        <4> QED BY <3>4, <4>2, QuietSettles DEF SameRest
      <3> QED BY <3>1, <3>4, <3>5, <3>7, <3>8
    <2> QED BY <2>10, <2>11
  <1> QED BY <1>3, <1>4

\* The same objects, but for where their data is, and what is to come of them.
SameObjects(s, t) ==
    /\ DOMAIN t.objects = DOMAIN s.objects
    /\ \A i \in DOMAIN s.objects :
           /\ t.objects[i].obj = s.objects[i].obj
           /\ t.objects[i].removed = s.objects[i].removed
           /\ t.objects[i].ghost = s.objects[i].ghost
           /\ t.objects[i].pending = s.objects[i].pending
           /\ t.objects[i].known_by_count = s.objects[i].known_by_count

\* The rest of the record does not matter to the entries.
LEMMA SameWorldKeeps ==
    ASSUME NEW X, NEW s, Good(s, X), NEW t \in States,
           t.objects = s.objects, t.block = s.block
    PROVE  /\ Good(t, X) /\ SameActive(s, t) /\ SameLists(s, t)
           /\ \A id : Entered(t, id) = Entered(s, id)
  BY DEF Good, Unused, MatchBut, SameActive, SameLists, Listed, Entered

\* Where the data of an object is changes.
LEMMA PutBlockKeeps ==
    ASSUME NEW id \in Ids, NEW s, Good(s, id), id \in DOMAIN s.objects,
           NEW b \in Blocks \cup {None}
    PROVE  LET t == Put(s, id, [s.objects[id] EXCEPT !.static_block = b])
           IN  /\ Good(t, id) /\ SameObjects(s, t) /\ SameRest(s, t)
               /\ t.block = s.block
               /\ t.objects[id].static_block = b
               /\ Entered(t, id) = Entered(s, id)
               /\ Quiet(s, t, id)
  <1> DEFINE q == [s.objects[id] EXCEPT !.static_block = b]
             t == Put(s, id, q)
  <1>1. s.objects[id] \in ActiveObject
    BY IsActive DEF Good
  <1>2. /\ q \in ActiveObject /\ q.static_block = b
        /\ q.obj = s.objects[id].obj
        /\ q.removed = s.objects[id].removed
        /\ q.ghost = s.objects[id].ghost
        /\ q.pending = s.objects[id].pending
        /\ q.known_by_count = s.objects[id].known_by_count
    BY <1>1 DEF ActiveObject
  <1> HIDE DEF q
  <1>3. /\ Good(t, id) /\ SameRest(s, t)
        /\ t.objects[id] = q
        /\ DOMAIN t.objects = DOMAIN s.objects
        /\ \A i \in DOMAIN s.objects : i # id => t.objects[i] = s.objects[i]
        /\ t.block = s.block
        /\ Entered(t, id) = Entered(s, id)
        /\ Quiet(s, t, id)
    BY <1>2, PutKeeps
  <1> HIDE DEF t
  <1>4. SameObjects(s, t)
    BY <1>2, <1>3 DEF SameObjects
  <1> QED BY <1>2, <1>3, <1>4 DEF t, q

\* The data of the object is not in a list, or is appended to the list of the
\* block the object is in.
Puts(s, t, id, keep) ==
    /\ Others(s, t, id)
    /\ IF keep THEN SameLists(s, t)
               ELSE Stores(s, t, s.objects[id].pos, s.objects[id].obj)

LEMMA PutsOn ==
    ASSUME NEW s, NEW t, NEW u, NEW id, NEW keep, Quiet(t, u, id),
           Puts(s, t, id, keep), s.objects[id].pos \in Blocks
    PROVE  Puts(s, u, id, keep)
  BY DEF Puts, Quiet, SameLists, Stores, Others

\* The data is taken from the block it is in and goes to the one the object is
\* in, to one list or the other, or is lost. In each case no entry is left for
\* an id that is erased.
LEMMA MoveToStaticKeeps ==
    ASSUME NEW s, Good(s, 0), Synced(s, None), NEW id \in DOMAIN s.objects,
           DiskOK, NEW data_changed \in BOOLEAN,
           s.force \/ ~s.objects[id].pending
    PROVE  /\ Good(MoveToStatic(s, id, data_changed), 0)
           /\ Touches(s, MoveToStatic(s, id, data_changed), id)
           /\ Synced(MoveToStatic(s, id, data_changed), None)
           /\ Settles(s, MoveToStatic(s, id, data_changed), id)
           /\ s.force =>
                  id \notin DOMAIN MoveToStatic(s, id, data_changed).objects
  <1> DEFINE o == s.objects[id]
             pending_delete == o.known_by_count > 0 /\ ~s.force
             old == o.static_block
             e == IF old = None THEN s ELSE EmergeBlock(s, old, FALSE)
             write == \/ old # o.pos \/ data_changed
                      \/ id \notin DOMAIN e.block[old].active
             Written(t, b) == IF write THEN Raise(t, b, MOD_STATE_WRITE_NEEDED)
                                       ELSE t
             d == RemoveStatic(e, old, id)
             p == [d EXCEPT !.objects[id].static_block = None]
             taken == IF old = None THEN e ELSE Written(p, old)
             f == EmergeBlock(taken, o.pos, TRUE)
             full == Len(f.block[o.pos].stored) >= max_objects_per_block
             dropped == [f EXCEPT !.force = TRUE, !.lost = @ \cup {o.obj}]
             g == RemoveStatic(f, o.pos, id)
             h == InsertStatic(g, o.pos, IF pending_delete THEN id ELSE 0,
                               o.obj)
             l == [h EXCEPT !.objects[id].static_block = o.pos,
                            !.lost = IF o.removed \/ o.ghost
                                     THEN @ \cup {o.obj} ELSE @]
             out == [taken EXCEPT !.lost = @ \cup {o.obj}]
             stored == IF o.pos = Outside THEN out
                       ELSE IF full THEN dropped ELSE Written(l, o.pos)
             t == IF o.pos = Outside /\ ~s.force THEN stored
                  ELSE IF pending_delete /\ ~stored.force
                  THEN [stored EXCEPT !.objects[id].pending = TRUE]
                  ELSE Erase(stored, id)
  <1>1. /\ o \in ActiveObject /\ id \in Ids /\ o.pos \in Places
        /\ o.obj \in Objects /\ o.known_by_count \in Nat
        /\ old \in Blocks \cup {None} /\ None \notin Blocks
        /\ Outside \notin Blocks /\ None # Outside
        /\ old = o.pos => o.pos \in Blocks
        /\ o.ghost => o.pending
    <2>1. /\ o \in ActiveObject /\ id \in Ids /\ None \notin Blocks
          /\ Outside \notin Blocks /\ None # Outside
      BY IsActive DEF Good
    <2>2. o.ghost => o.pending
      BY <2>1, GoodFacts
    <2> HIDE DEF o
    <2> QED BY <2>1, <2>2 DEF ActiveObject, Places
  <1>2. MoveToStatic(s, id, data_changed) = t
    BY Zenon DEF MoveToStatic
  <1>3. /\ Good(e, 0) /\ SameActive(s, e) /\ SameRest(s, e)
        /\ SameLists(s, e)
    <2>1. CASE old = None
      BY <2>1 DEF SameActive, SameRest, SameLists
    <2>2. CASE old \in Blocks
      <3>1. e = EmergeBlock(s, old, FALSE)
        BY <1>1, <2>2
      <3> HIDE DEF e, old
      <3> QED BY <2>2, <3>1, EmergeKeeps
    <2> QED BY <1>1, <2>1, <2>2
  <1>4. /\ Good(e, id) /\ SameObjects(s, e) /\ id \in DOMAIN e.objects
        /\ \A b \in Entered(e, id) : b = old
        /\ Quiet(s, e, id)
    <2>1. id \in Ids /\ e.objects = s.objects
      BY <1>1, <1>3 DEF SameActive
    <2> HIDE DEF e
    <2>2. /\ Good(e, id)
          /\ \A b \in Entered(e, id) : b = e.objects[id].static_block
      BY <1>3, <2>1, GoodFacts
    <2>3. Quiet(s, e, id)
      BY <1>3, SameActiveOthers
    <2> QED BY <2>1, <2>2, <2>3 DEF SameObjects
  <1>synced. Synced(e, None)
    <2>1. CASE old = None
      BY <2>1
    <2>2. CASE old \in Blocks
      <3>1. e = EmergeBlock(s, old, FALSE)
        BY <1>1, <2>2
      <3> HIDE DEF e, old
      <3> QED BY <2>2, <3>1, EmergeSyncs
    <2> QED BY <1>1, <2>1, <2>2
  <1>write. ~write => /\ old = o.pos /\ id \in DOMAIN e.block[o.pos].active
                  /\ e.block[o.pos].active[id] = o.obj
                  /\ e.block[o.pos].loaded /\ o.pos \in Blocks
    <2>1. SUFFICES ASSUME ~write
                   PROVE  /\ e.block[o.pos].active[id] = o.obj
                          /\ e.block[o.pos].loaded
      BY <1>1
    <2>2. id \in DOMAIN e.block[o.pos].active /\ id \in Ids /\ o.pos \in Blocks
      BY <1>1, <2>1
    <2>3. e.objects[id].obj = o.obj
      BY <1>3 DEF SameActive
    <2> HIDE DEF e, o
    <2>4. o.pos \in Entered(e, id)
      BY <2>2 DEF Entered
    <2> QED BY <1>3, <2>2, <2>3, <2>4, GoodFacts
  <1> DEFINE Out(r) == /\ Good(r, id) /\ Entered(r, id) = {}
                       /\ SameObjects(s, r) /\ SameRest(s, r)
                       /\ Quiet(s, r, id)
  <1>5. /\ Out(taken)
        /\ write => Synced(taken, None)
        /\ ~write => /\ Gains(taken.block[o.pos], e.block[o.pos], o.obj)
                     /\ Elsewhere(e, taken, o.pos)
                     /\ taken.block[o.pos].loaded
    <2>1. CASE old = None
      <3>1. taken = e
        BY <2>1
      <3>2. write
        BY <1>1, <2>1
      <3> HIDE DEF e, taken, write
      <3>3. Entered(e, id) = {}
        BY <1>1, <1>4, <2>1 DEF Entered
      <3> QED BY <1>3, <1>4, <1>synced, <3>1, <3>2, <3>3
    <2>2. CASE old \in Blocks
      <3>W. /\ write => taken = Raise(p, old, MOD_STATE_WRITE_NEEDED)
            /\ ~write => taken = p
        BY <1>1, <2>2
      <3> HIDE DEF e, old, write, taken
      <3>1. /\ Good(d, id) /\ SameRest(e, d) /\ d.objects = e.objects
            /\ Entered(d, id) = Entered(e, id) \ {old}
            /\ Elsewhere(e, d, old) /\ Quiet(e, d, id)
        BY <1>1, <1>4, <2>2, RemoveKeeps
      <3>g. ~write => /\ Gains(d.block[o.pos], e.block[o.pos], o.obj)
                      /\ d.block[o.pos].loaded
        <4>1. Good(e, id) /\ id \in Ids /\ (~write => o.pos \in Blocks)
          BY <1>1, <1>4, <1>write
        <4> HIDE DEF o, d
        <4>2. ASSUME ~write PROVE d = RemoveStatic(e, o.pos, id)
          BY <1>write, <4>2 DEF d
        <4>3. ~write => d.block[o.pos].loaded
          BY <1>write, <4>1, <4>2, RemoveKeeps
        <4>4. ~write => Gains(d.block[o.pos], e.block[o.pos], o.obj)
          BY <1>write, <4>1, <4>2, RemoveHeld
        <4> QED BY <4>3, <4>4
      <3>s. Synced(d, old)
        <4> HIDE DEF d
        <4> QED BY <1>synced, <3>1, ChangeSyncs DEF SameRest, Elsewhere
      <3> HIDE DEF d
      <3>2. p = Put(d, id, [d.objects[id] EXCEPT !.static_block = None])
        BY DEF Put
      <3>3. id \in DOMAIN d.objects
        BY <1>4, <3>1
      <3> HIDE DEF p
      <3>4. /\ Good(p, id) /\ SameObjects(d, p) /\ SameRest(d, p)
            /\ Entered(p, id) = Entered(d, id) /\ p.block = d.block
            /\ Quiet(d, p, id)
        BY <1>1, <3>1, <3>2, <3>3, PutBlockKeeps
      <3>5. Out(p)
        <4>1. SameObjects(s, p)
          BY <1>4, <3>1, <3>4 DEF SameObjects
        <4>2. SameRest(s, p)
          BY <1>3, <3>1, <3>4 DEF SameRest
        <4>3. Entered(p, id) = {}
          BY <1>4, <3>1, <3>4
        <4>4. Quiet(s, p, id)
          <5>1. Quiet(s, d, id)
            BY <1>4, <3>1, QuietOn
          <5> QED BY <3>4, <5>1, QuietOn
        <4> QED BY <3>4, <4>1, <4>2, <4>3, <4>4
      <3>6. Out(Raise(p, old, MOD_STATE_WRITE_NEEDED))
        <4> DEFINE r == Raise(p, old, MOD_STATE_WRITE_NEEDED)
        <4>1. /\ Good(r, id) /\ SameActive(p, r) /\ SameRest(p, r)
              /\ SameLists(p, r)
          BY <2>2, <3>4, RaiseKeeps, LevelsAre
        <4> HIDE DEF r
        <4>5. Quiet(s, r, id)
          <5>1. Quiet(s, p, id) /\ Quiet(p, r, id)
            BY <3>5, <4>1, SameActiveOthers
          <5> QED BY <5>1, QuietOn
        <4>2. Entered(r, id) = {} /\ r.objects = p.objects
          BY <3>5, <4>1, SameActiveKeeps DEF SameActive
        <4>3. SameObjects(s, r) /\ SameRest(s, r)
          BY <3>5, <4>1, <4>2 DEF SameObjects, SameRest
        <4>4. Out(r)
          BY <4>1, <4>2, <4>3, <4>5
        <4> QED BY <4>4 DEF r
      <3>7. Synced(Raise(p, old, MOD_STATE_WRITE_NEEDED), None)
        <4>1. Synced(p, old)
          BY <3>s, <3>4, ChangeSyncs DEF SameRest
        <4> QED BY <2>2, <3>4, <4>1, RaiseSyncs, LevelsAre
      <3>8. ~write => /\ Gains(p.block[o.pos], e.block[o.pos], o.obj)
                      /\ Elsewhere(e, p, o.pos)
                      /\ p.block[o.pos].loaded
        <4> HIDE DEF o
        <4> QED BY <1>write, <3>1, <3>g, <3>4 DEF Elsewhere
      <3> HIDE DEF Out
      <3> QED BY <3>W, <3>5, <3>6, <3>7, <3>8
    <2> QED BY <1>1, <2>1, <2>2
  <1>o. CASE o.pos = Outside
    <2>1. write /\ stored = out /\ old # o.pos
      BY <1>1, <1>o
    <2>t. t = IF ~s.force THEN out ELSE Erase(out, id)
      BY <1>o
    <2>2. Out(taken) /\ Synced(taken, None)
      <3> HIDE DEF taken, write, Out
      <3> QED BY <1>5, <2>1
    <2> HIDE DEF taken, write, t
    <2>3. /\ out \in States /\ out.objects = taken.objects
          /\ out.block = taken.block /\ out.force = s.force
          /\ out.lost = s.lost \cup {o.obj}
          /\ out.lost = taken.lost \cup {o.obj}
      BY <1>1, <2>2 DEF Good, States, SameRest
    <2> HIDE DEF out
    <2>4. /\ Good(out, id) /\ Entered(out, id) = {} /\ SameObjects(s, out)
          /\ id \in DOMAIN out.objects
      BY <2>2, <2>3, SameWorldKeeps DEF SameObjects
    <2>5. Quiet(s, out, id)
      <3>1. Quiet(taken, out, id)
        BY <2>2, <2>3, SameWorldKeeps, SameActiveOthers
      <3> QED BY <2>2, <3>1, QuietOn
    <2>6. Synced(out, None)
      BY <2>2, <2>3, ChangeSyncs
    <2>7. CASE ~s.force
      <3>1. t = out
        BY <2>7, <2>t
      <3>2. Good(out, 0)
        <4>1. out.objects[id].ghost => out.objects[id].pending
          BY <1>1, <2>4 DEF SameObjects
        <4> QED BY <1>1, <2>4, <4>1, GoodFacts
      <3>3. Touches(s, out, id)
        BY <2>3, <2>4 DEF Touches, SameObjects
      <3>4. Settles(s, out, id)
        <4>1. Stays(s, out, id)
          BY <2>3, <2>4 DEF Stays, SameObjects
        <4> QED BY <2>3, <2>5, <4>1, QuietSettles
      <3> QED BY <1>2, <2>6, <2>7, <3>1, <3>2, <3>3, <3>4
    <2>8. CASE s.force
      <3>1. t = Erase(out, id)
        BY <2>8, <2>t
      <3> HIDE DEF o
      <3>2. /\ Good(t, 0) /\ SameRest(out, t)
            /\ DOMAIN t.objects = DOMAIN out.objects \ {id}
            /\ \A i \in DOMAIN out.objects :
                   i # id => t.objects[i] = out.objects[i]
            /\ t.block = out.block
            /\ Quiet(out, t, id)
        BY <1>1, <2>4, <3>1, EraseKeeps
      <3>3. Touches(s, t, id)
        BY <2>3, <2>4, <2>8, <3>2 DEF Touches, SameObjects, SameRest
      <3>4. Synced(t, None)
        BY <2>6, <3>2, ChangeSyncs DEF SameRest
      <3>5. Settles(s, t, id)
        <4>1. Quiet(s, t, id)
          BY <2>5, <3>2, QuietOn
        <4>2. s.lost \subseteq t.lost /\ s.objects[id].obj \in t.lost
          BY <2>3, <3>2 DEF SameRest, o
        <4> QED BY <3>2, <4>1, <4>2 DEF Settles, Quiet
      <3> QED BY <1>2, <3>2, <3>3, <3>4, <3>5
    <2> QED BY <2>7, <2>8
  <1> SUFFICES ASSUME o.pos \in Blocks
               PROVE  /\ Good(t, 0) /\ Touches(s, t, id)
                      /\ Synced(t, None) /\ Settles(s, t, id)
                      /\ s.force => id \notin DOMAIN t.objects
    <2>1. o.pos \in Blocks \/ o.pos = Outside
      BY <1>1 DEF Places
    <2> HIDE DEF t, o
    <2> QED BY <1>2, <1>o, <2>1
  <1>6. /\ Out(f) /\ f.block[o.pos].loaded
        /\ write => Synced(f, None)
        /\ ~write => /\ Gains(f.block[o.pos], e.block[o.pos], o.obj)
                     /\ Elsewhere(e, f, o.pos)
    <2> HIDE DEF taken, write
    <2>1. Good(taken, id) /\ o.pos \in Blocks
      BY <1>1, <1>5
    <2>f. ~write => f = taken
      BY <1>5 DEF EmergeBlock
    <2> HIDE DEF o
    <2>s. write => Synced(f, None)
      BY <1>5, <2>1, EmergeSyncs
    <2>2. /\ Good(f, id) /\ SameActive(taken, f) /\ SameRest(taken, f)
          /\ SameLists(taken, f)
      BY <2>1, EmergeKeeps
    <2>3. f.block[o.pos].loaded
      BY <2>1, EmergeKeeps
    <2> HIDE DEF f
    <2>4. Entered(f, id) = {} /\ f.objects = taken.objects
      BY <1>5, <2>2, SameActiveKeeps DEF SameActive
    <2>5. SameObjects(s, f) /\ SameRest(s, f)
      BY <1>5, <2>2, <2>4 DEF SameObjects, SameRest
    <2>6. Quiet(s, f, id)
      <3>1. Quiet(s, taken, id) /\ Quiet(taken, f, id)
        BY <1>5, <2>2, SameActiveOthers
      <3> QED BY <3>1, QuietOn
    <2> QED BY <1>5, <2>2, <2>3, <2>4, <2>5, <2>6, <2>f, <2>s
  \* Where the data is before the object is kept or erased.
  <1> DEFINE In(r) == /\ Good(r, id) /\ SameObjects(s, r)
                      /\ r.force = s.force
                      /\ Puts(s, r, id, pending_delete)
                      /\ o.removed \/ o.ghost => o.obj \in r.lost
                      /\ s.lost \subseteq r.lost
                      /\ r.objects[id].static_block = o.pos
                      /\ IF pending_delete
                         THEN /\ Entered(r, id) = {o.pos}
                              /\ r.block[o.pos].active[id] = o.obj
                         ELSE Entered(r, id) = {}
  <1>7. ASSUME full
        PROVE  /\ Good(stored, id) /\ Entered(stored, id) = {}
               /\ SameObjects(s, stored) /\ stored.force = TRUE
               /\ Synced(stored, None) /\ Quiet(s, stored, id)
               /\ s.lost \subseteq stored.lost /\ o.obj \in stored.lost
    <2> HIDE DEF f, write
    <2>1. stored = dropped /\ dropped \in States
      BY <1>1, <1>6, <1>7 DEF Good, States
    <2>2. /\ dropped.objects = f.objects /\ dropped.block = f.block
          /\ dropped.force = TRUE /\ dropped.lost = f.lost \cup {o.obj}
      BY <1>6 DEF Good, States
    <2> HIDE DEF dropped, stored
    <2>3. Good(stored, id) /\ Entered(stored, id) = {}
      BY <1>6, <2>1, <2>2, SameWorldKeeps
    <2>4. SameObjects(s, stored) /\ stored.force = TRUE
      BY <1>6, <2>1, <2>2 DEF SameObjects
    <2>7. /\ Quiet(s, stored, id)
          /\ s.lost \subseteq stored.lost /\ o.obj \in stored.lost
      <3>1. Quiet(f, stored, id)
        BY <1>6, <2>1, <2>2, SameWorldKeeps, SameActiveOthers
      <3> HIDE DEF o
      <3> QED BY <1>6, <2>1, <2>2, <3>1, QuietOn DEF SameRest
    <2>5. CASE write
      <3>1. Synced(dropped, None)
        BY <1>6, <2>2, <2>5, ChangeSyncs
      <3> QED BY <2>1, <2>3, <2>4, <2>7, <3>1
    <2>6. CASE ~write
      <3>1. o.pos \in Blocks
        BY <1>1
      <3> HIDE DEF e, o
      <3>2. /\ dropped.block[o.pos].modified = e.block[o.pos].modified
            /\ Held(e.block[o.pos]) = Held(dropped.block[o.pos]) \cup {o.obj}
            /\ Elsewhere(e, dropped, o.pos)
        BY <1>6, <2>2, <2>6 DEF Gains, Elsewhere
      <3>3. e.lost \subseteq dropped.lost /\ o.obj \in dropped.lost
        BY <1>3, <1>6, <2>2 DEF SameRest
      <3>4. Synced(dropped, None)
        BY <1>synced, <1>write, <2>6, <3>1, <3>2, <3>3, SameHeldSyncs
      <3> QED BY <2>1, <2>3, <2>4, <2>7, <3>4
    <2> QED BY <2>5, <2>6
  <1>8. ASSUME ~full PROVE In(stored) /\ Synced(stored, None)
    <2>W. stored = IF write THEN Raise(l, o.pos, MOD_STATE_WRITE_NEEDED) ELSE l
      BY <1>1, <1>8
    <2> HIDE DEF f, write, stored
    <2>1. /\ Good(g, id) /\ g.objects = f.objects /\ SameRest(f, g)
          /\ Entered(g, id) = {} /\ g.block[o.pos].loaded
          /\ Elsewhere(f, g, o.pos)
          /\ Held(g.block[o.pos]) = Held(f.block[o.pos])
          /\ g.block[o.pos].modified = f.block[o.pos].modified
          /\ Quiet(s, g, id)
      <3>1. Good(f, id) /\ o.pos \in Blocks /\ id \in Ids
        BY <1>1, <1>6
      <3> HIDE DEF o
      <3>2. /\ Good(g, id) /\ g.objects = f.objects /\ SameRest(f, g)
            /\ Entered(g, id) = Entered(f, id) \ {o.pos}
            /\ Elsewhere(f, g, o.pos) /\ Quiet(f, g, id)
        BY <3>1, RemoveKeeps
      <3>3. g.block[o.pos].loaded
        BY <1>6, <3>1, RemoveKeeps
      <3>4. id \notin DOMAIN f.block[o.pos].active
        BY <1>6, <3>1 DEF Entered
      <3>5. /\ Held(g.block[o.pos]) = Held(f.block[o.pos])
            /\ g.block[o.pos].modified = f.block[o.pos].modified
        BY <3>1, <3>4, RemoveHeld
      <3>6. Quiet(s, g, id)
        BY <1>6, <3>2, QuietOn
      <3> QED BY <1>6, <3>2, <3>3, <3>5, <3>6
    <2> HIDE DEF g
    <2>2. /\ Good(h, id) /\ h.objects = g.objects /\ SameRest(g, h)
          /\ IF pending_delete
             THEN /\ Entered(h, id) = {o.pos}
                  /\ h.block[o.pos].active[id] = o.obj
             ELSE Entered(h, id) = {}
          /\ Elsewhere(g, h, o.pos) /\ Puts(s, h, id, pending_delete)
      <3>0. o.pos \in Blocks /\ Others(s, g, id) /\ SameLists(s, g)
        BY <1>1, <2>1 DEF Quiet
      <3>1. CASE pending_delete
        <4>1. h = InsertStatic(g, o.pos, id, o.obj)
          BY <3>1
        <4>2. o.pos \in Blocks /\ id \in Ids /\ o.obj \in Objects
          BY <1>1
        <4> HIDE DEF o, h, pending_delete
        <4>3. /\ Good(h, id) /\ h.objects = g.objects /\ SameRest(g, h)
              /\ Entered(h, id) = Entered(g, id) \cup {o.pos}
              /\ h.block[o.pos].active[id] = o.obj
              /\ Elsewhere(g, h, o.pos) /\ Quiet(g, h, id)
          BY <2>1, <4>1, <4>2, InsertKeeps
        <4>4. Puts(s, h, id, pending_delete)
          BY <3>0, <3>1, <4>3, QuietOn DEF Puts, Quiet
        <4> QED BY <2>1, <3>1, <4>3, <4>4
      <3>2. CASE ~pending_delete
        <4>1. h = InsertStatic(g, o.pos, 0, o.obj)
          BY <3>2
        <4>2. o.pos \in Blocks /\ o.obj \in Objects
          BY <1>1
        <4> HIDE DEF o, h, pending_delete
        <4>3. /\ Good(h, id) /\ SameActive(g, h) /\ SameRest(g, h)
              /\ Elsewhere(g, h, o.pos) /\ Stores(g, h, o.pos, o.obj)
          BY <2>1, <4>1, <4>2, StoreKeeps
        <4>4. Entered(h, id) = Entered(g, id) /\ h.objects = g.objects
          BY <4>3, SameActiveKeeps DEF SameActive
        <4>5. Others(s, h, id)
          BY <3>0, <4>3, SameActiveOthers, QuietOn
        <4>6. Stores(s, h, o.pos, o.obj)
          BY <3>0, <4>3 DEF SameLists, Stores
        <4>7. Puts(s, h, id, pending_delete)
          BY <3>2, <4>5, <4>6 DEF Puts, o
        <4> QED BY <2>1, <3>2, <4>3, <4>4, <4>7
      <3> QED BY <3>1, <3>2
    <2>gains. Gains(g.block[o.pos], h.block[o.pos], o.obj)
      <3>1. id \notin DOMAIN g.block[o.pos].active
        BY <1>1, <2>1 DEF Entered
      <3> DEFINE j == IF pending_delete THEN id ELSE 0
      <3>2. /\ o.pos \in Blocks /\ o.obj \in Objects /\ j \in Ids \cup {0}
            /\ j \notin DOMAIN g.block[o.pos].active
        <4>1. 0 \notin DOMAIN g.block[o.pos].active
          BY <1>1, <2>1 DEF Good, States, MapBlocks, Maps, Ids
        <4> QED BY <1>1, <3>1, <4>1
      <3> HIDE DEF j, o, pending_delete
      <3> QED BY <2>1, <3>2, InsertHeld DEF j
    <2> HIDE DEF h
    <2> DEFINE k == Put(h, id, [h.objects[id] EXCEPT !.static_block = o.pos])
    <2>3. /\ Good(k, id) /\ SameObjects(h, k) /\ SameRest(h, k)
          /\ k.block = h.block /\ k.objects[id].static_block = o.pos
          /\ Entered(k, id) = Entered(h, id) /\ Quiet(h, k, id)
      <3>1. /\ o.pos \in Blocks \cup {None} /\ id \in Ids
            /\ Good(h, id) /\ id \in DOMAIN h.objects
        BY <1>1, <1>6, <2>1, <2>2 DEF SameObjects
      <3> HIDE DEF o
      <3> QED BY <3>1, PutBlockKeeps
    <2>4. In(l) /\ l.block = h.block /\ f.lost \subseteq l.lost
      <3>1. l = [k EXCEPT !.lost = IF o.removed \/ o.ghost
                                   THEN @ \cup {o.obj} ELSE @]
        BY DEF Put
      <3> HIDE DEF k, l, pending_delete, o
      <3>2. /\ l \in States /\ l.objects = k.objects /\ l.block = k.block
            /\ l.force = k.force /\ k.lost \subseteq l.lost
            /\ o.removed \/ o.ghost => o.obj \in l.lost
        BY <1>1, <2>3, <3>1 DEF Good, States
      <3>3. Good(l, id) /\ Entered(l, id) = Entered(k, id)
        BY <2>3, <3>2, SameWorldKeeps
      <3>4. SameObjects(s, l)
        BY <1>6, <2>1, <2>2, <2>3, <3>2 DEF SameObjects
      <3>5. l.force = s.force
        BY <1>6, <2>1, <2>2, <2>3, <3>2 DEF SameRest
      <3>6. f.lost \subseteq l.lost
        BY <2>1, <2>2, <2>3, <3>2 DEF SameRest
      <3>7. Puts(s, l, id, pending_delete)
        <4>1. Quiet(k, l, id)
          BY <2>3, <3>2, SameWorldKeeps, SameActiveOthers
        <4>2. Quiet(h, l, id)
          BY <2>3, <4>1, QuietOn
        <4>3. s.objects[id].pos \in Blocks
          BY <1>1 DEF o
        <4> QED BY <2>2, <4>2, <4>3, PutsOn
      <3>8. s.lost \subseteq l.lost
        BY <1>6, <3>6 DEF SameRest
      <3> QED BY <2>2, <2>3, <3>2, <3>3, <3>4, <3>5, <3>6, <3>7, <3>8
    <2>5. In(Raise(l, o.pos, MOD_STATE_WRITE_NEEDED))
      <3> DEFINE r == Raise(l, o.pos, MOD_STATE_WRITE_NEEDED)
      <3> HIDE DEF l
      <3>1. Good(l, id) /\ o.pos \in Blocks
        BY <1>1, <2>4
      <3> HIDE DEF o, pending_delete
      <3>2. /\ Good(r, id) /\ SameActive(l, r) /\ SameRest(l, r)
            /\ SameLists(l, r)
        BY <3>1, RaiseKeeps, LevelsAre
      <3> HIDE DEF r
      <3>3. Entered(r, id) = Entered(l, id) /\ r.objects = l.objects
        BY <3>2, SameActiveKeeps DEF SameActive
      <3>4. SameObjects(s, r) /\ r.force = s.force
        BY <2>4, <3>2, <3>3 DEF SameObjects, SameRest
      <3>5. r.block[o.pos].active = l.block[o.pos].active
        BY <3>1, <3>2 DEF SameActive
      <3>7. Puts(s, r, id, pending_delete)
        <4>1. Quiet(l, r, id)
          BY <3>2, SameActiveOthers
        <4>2. s.objects[id].pos \in Blocks
          BY <1>1 DEF o
        <4> QED BY <2>4, <4>1, <4>2, PutsOn
      <3>8. /\ s.lost \subseteq r.lost
            /\ o.removed \/ o.ghost => o.obj \in r.lost
        BY <2>4, <3>2 DEF SameRest
      <3>6. In(r)
        BY <2>4, <3>2, <3>3, <3>4, <3>5, <3>7, <3>8
      <3> QED BY <3>6 DEF r
    <2>6. In(stored)
      <3> HIDE DEF In
      <3> QED BY <2>4, <2>5, <2>W
    <2>7. o.pos \in Blocks
      BY <1>1
    <2>8. CASE write
      <3>1. Good(l, id)
        BY <2>4
      <3> HIDE DEF l, In, o
      <3>2. Synced(l, o.pos)
        BY <1>6, <2>1, <2>2, <2>4, <2>8, ChangeSyncs DEF Elsewhere
      <3>3. Synced(Raise(l, o.pos, MOD_STATE_WRITE_NEEDED), None)
        BY <2>7, <3>1, <3>2, RaiseSyncs, LevelsAre
      <3> QED BY <2>6, <2>8, <2>W, <3>3
    <2>9. CASE ~write
      <3> HIDE DEF l, In, o, e
      <3>1. /\ l.block[o.pos].modified = e.block[o.pos].modified
            /\ Held(l.block[o.pos]) = Held(e.block[o.pos])
            /\ Elsewhere(e, l, o.pos)
        BY <1>6, <2>1, <2>2, <2>4, <2>9, <2>gains DEF Elsewhere, Gains
      <3>2. e.lost \subseteq l.lost
        BY <1>3, <1>6, <2>4 DEF SameRest
      <3>3. Synced(l, None)
        BY <1>synced, <1>write, <2>7, <2>9, <3>1, <3>2, SameHeldSyncs
      <3> QED BY <2>6, <2>9, <2>W, <3>3
    <2> QED BY <2>8, <2>9
  <1>9. /\ Good(stored, id) /\ SameObjects(s, stored)
        /\ id \in DOMAIN stored.objects
        /\ s.force => stored.force
    <2> HIDE DEF stored, full
    <2>1. /\ Good(stored, id) /\ SameObjects(s, stored)
          /\ s.force => stored.force
      BY <1>7, <1>8
    <2> QED BY <2>1 DEF SameObjects
  <1>saved. Synced(stored, None)
    <2> HIDE DEF stored, full
    <2> QED BY <1>7, <1>8
  <1>10. CASE pending_delete /\ ~stored.force
    <2> DEFINE q == [stored.objects[id] EXCEPT !.pending = TRUE]
    <2>1. t = Put(stored, id, q)
      <3> HIDE DEF stored, pending_delete
      <3> QED BY <1>1, <1>10 DEF Put
    <2>2. In(stored)
      <3> HIDE DEF stored, full, In
      <3> QED BY <1>7, <1>8, <1>10
    <2> HIDE DEF stored, t
    <2>3. stored.objects[id] \in ActiveObject
      BY <1>9, IsActive DEF Good
    <2>4. /\ q \in ActiveObject
          /\ q.static_block = stored.objects[id].static_block
          /\ q.obj = stored.objects[id].obj
          /\ q.removed = stored.objects[id].removed
          /\ q.ghost = stored.objects[id].ghost
          /\ q.known_by_count = stored.objects[id].known_by_count
      BY <2>3 DEF ActiveObject
    <2> HIDE DEF q
    <2>5. /\ Good(t, id) /\ SameRest(stored, t)
          /\ t.objects[id] = q
          /\ DOMAIN t.objects = DOMAIN stored.objects
          /\ \A i \in DOMAIN stored.objects :
                 i # id => t.objects[i] = stored.objects[i]
          /\ t.block = stored.block
          /\ Entered(t, id) = Entered(stored, id)
          /\ Quiet(stored, t, id)
      BY <1>1, <1>9, <2>1, <2>4, PutKeeps
    <2>6. \A b \in Entered(t, id) : /\ id \in DOMAIN t.objects
                                    /\ t.objects[id].static_block = b
                                    /\ t.objects[id].obj = t.block[b].active[id]
                                    /\ ~t.objects[id].ghost
      <3>1. stored.objects[id].obj = o.obj /\ ~stored.objects[id].ghost
        <4>1. ~o.ghost
          BY <1>1, <1>10
        <4> QED BY <1>9, <4>1 DEF SameObjects
      <3> HIDE DEF pending_delete, o
      <3> QED BY <1>9, <1>10, <2>2, <2>4, <2>5, <3>1
    <2>7. Good(t, 0)
      <3>1. t.objects[id].pending
        BY <2>3, <2>5 DEF q, ActiveObject
      <3> QED BY <1>1, <2>5, <2>6, <3>1, GoodFacts
    <2>8. Touches(s, t, id)
      BY <1>9, <2>4, <2>5 DEF Touches, SameObjects, SameRest
    <2>9. Synced(t, None)
      BY <1>saved, <2>5, ChangeSyncs DEF SameRest
    <2>10. Settles(s, t, id)
      <3> HIDE DEF pending_delete, o
      <3>1. Quiet(s, t, id)
        <4>1. Quiet(s, stored, id)
          BY <1>10, <2>2 DEF Puts, Quiet
        <4> QED BY <2>5, <4>1, QuietOn
      <3>2. /\ id \in DOMAIN t.objects
            /\ t.objects[id].obj = s.objects[id].obj
            /\ t.objects[id].removed = s.objects[id].removed
            /\ t.objects[id].ghost = s.objects[id].ghost
            /\ t.objects[id].static_block = o.pos
        BY <1>9, <2>2, <2>4, <2>5 DEF SameObjects
      <3>3. o.pos \in Entered(t, id) /\ s.lost \subseteq t.lost
        BY <1>10, <2>2, <2>5 DEF SameRest
      <3>4. Stays(s, t, id)
        BY <3>2, <3>3 DEF Stays, HasEntry
      <3> QED BY <3>1, <3>3, <3>4, QuietSettles
    <2>11. ~s.force
      BY <1>10
    <2> QED BY <2>7, <2>8, <2>9, <2>10, <2>11
  <1>11. CASE ~(pending_delete /\ ~stored.force)
    <2>1. t = Erase(stored, id)
      <3> HIDE DEF stored, pending_delete
      <3> QED BY <1>1, <1>11
    <2>2. Entered(stored, id) = {}
      <3> HIDE DEF stored, full, o
      <3> QED BY <1>7, <1>8, <1>11
    <2>3. o.known_by_count = 0 \/ stored.force
      <3>1. stored.force \/ ~(o.known_by_count > 0)
        <4>1. full => stored.force
          BY <1>7
        <4>2. ~full => stored.force = s.force
          BY <1>8
        <4> HIDE DEF stored, full, o
        <4> QED BY <1>11, <4>1, <4>2
      <3> HIDE DEF stored, o
      <3> QED BY <1>1, <3>1
    <2>out. \/ /\ Quiet(s, stored, id)
               /\ s.lost \subseteq stored.lost /\ o.obj \in stored.lost
            \/ In(stored) /\ ~pending_delete
      <3> HIDE DEF stored, full, In
      <3>1. CASE full
        BY <1>7, <3>1
      <3>2. CASE ~full
        <4>1. In(stored)
          BY <1>8, <3>2
        <4>2. ~pending_delete
          <5>1. stored.force = s.force
            BY <4>1 DEF In
          <5> HIDE DEF o
          <5> QED BY <1>11, <5>1
        <4> QED BY <4>1, <4>2
      <3> QED BY <3>1, <3>2
    <2> HIDE DEF stored, t
    <2>4. /\ Good(t, 0) /\ SameRest(stored, t)
          /\ DOMAIN t.objects = DOMAIN stored.objects \ {id}
          /\ \A i \in DOMAIN stored.objects :
                 i # id => t.objects[i] = stored.objects[i]
          /\ t.block = stored.block
          /\ Quiet(stored, t, id)
      BY <1>1, <1>9, <2>1, <2>2, EraseKeeps
    <2>5. Touches(s, t, id)
      BY <1>9, <2>3, <2>4 DEF Touches, SameObjects, SameRest
    <2>6. Synced(t, None)
      BY <1>saved, <2>4, ChangeSyncs DEF SameRest
    <2>7. id \notin DOMAIN t.objects
      BY <2>4
    <2>8. Settles(s, t, id)
      <3>1. CASE /\ Quiet(s, stored, id)
                 /\ s.lost \subseteq stored.lost /\ o.obj \in stored.lost
        <4>1. Quiet(s, t, id)
          BY <2>4, <3>1, QuietOn
        <4>2. s.lost \subseteq t.lost /\ s.objects[id].obj \in t.lost
          BY <2>4, <3>1 DEF SameRest
        <4> QED BY <2>7, <4>1, <4>2 DEF Settles, Quiet
      <3>2. CASE In(stored) /\ ~pending_delete
        <4>0. s.objects[id].pos \in Blocks
          BY <1>1
        <4>1. Puts(s, t, id, pending_delete)
          BY <2>4, <3>2, <4>0, PutsOn
        <4>2. /\ s.lost \subseteq t.lost
              /\ s.objects[id].removed \/ s.objects[id].ghost =>
                     s.objects[id].obj \in t.lost
          BY <2>4, <3>2 DEF SameRest
        <4>3. ~pending_delete
          BY <3>2
        <4> HIDE DEF pending_delete, In, o
        <4> QED BY <2>7, <4>0, <4>1, <4>2, <4>3 DEF Settles, Puts
      <3> QED BY <2>out, <3>1, <3>2
    <2> QED BY <2>4, <2>5, <2>6, <2>7, <2>8
  <1> QED BY <1>10, <1>11

\* Erasing an object whose data is nowhere in memory.
LEMMA EraseTouches ==
    ASSUME NEW s, NEW id \in DOMAIN s.objects, NEW r, id \in Ids,
           Good(r, id), Entered(r, id) = {}, SameObjects(s, r), SameRest(s, r),
           s.objects[id].known_by_count = 0, Synced(r, None)
    PROVE  Good(Erase(r, id), 0) /\ Touches(s, Erase(r, id), id)
           /\ SameRest(s, Erase(r, id)) /\ Synced(Erase(r, id), None)
           /\ Quiet(r, Erase(r, id), id)
           /\ id \notin DOMAIN Erase(r, id).objects
  <1> DEFINE t == Erase(r, id)
  <1>1. /\ Good(t, 0) /\ SameRest(r, t)
        /\ DOMAIN t.objects = DOMAIN r.objects \ {id}
        /\ \A i \in DOMAIN r.objects :
               i # id => t.objects[i] = r.objects[i]
        /\ t.block = r.block /\ Quiet(r, t, id)
    BY EraseKeeps
  <1> HIDE DEF t
  <1>2. Touches(s, t, id) /\ SameRest(s, t)
    BY <1>1 DEF Touches, SameObjects, SameRest
  <1>3. Synced(t, None)
    BY <1>1, ChangeSyncs DEF SameRest
  <1> QED BY <1>1, <1>2, <1>3 DEF t

\* A removed object loses its data at once, one that is pending has it stored;
\* it is erased when no client knows it.
LEMMA RemoveObjectKeeps ==
    ASSUME NEW s, Good(s, 0), Synced(s, None), NEW id \in DOMAIN s.objects,
           DiskOK
    PROVE  /\ Good(RemoveObject(s, id), 0)
           /\ Touches(s, RemoveObject(s, id), id)
           /\ SameRest(s, RemoveObject(s, id))
           /\ Synced(RemoveObject(s, id), None)
           /\ Settles(s, RemoveObject(s, id), id)
  <1> DEFINE o == s.objects[id]
             b == o.static_block
             e == IF o.static_block = None THEN s
                  ELSE EmergeBlock(s, o.static_block, FALSE)
             found == b # None /\ e.block[b].loaded
             there == found /\ id \in DOMAIN e.block[b].active
             d == RemoveStatic(e, b, id)
             p == [d EXCEPT !.objects[id].static_block = None]
             dropped == IF ~found THEN e
                        ELSE Raise(p, b, MOD_STATE_WRITE_NEEDED)
             i == InsertStatic(d, b, 0, e.block[b].active[id])
             stored == IF ~there THEN e
                       ELSE Raise(i, b, MOD_STATE_WRITE_NEEDED)
             t == RemoveObject(s, id)
  <1>1. /\ o \in ActiveObject /\ id \in Ids /\ o.known_by_count \in Nat
        /\ b \in Blocks \cup {None} /\ None \notin Blocks
        /\ o.ghost => o.pending
        /\ Entered(s, id) # {} => ~o.ghost
    <2>1. o \in ActiveObject /\ id \in Ids /\ None \notin Blocks
      BY IsActive DEF Good
    <2>2. /\ o.ghost => o.pending
          /\ Entered(s, id) # {} => ~o.ghost
      BY <2>1, GoodFacts
    <2> HIDE DEF o
    <2> QED BY <2>1, <2>2 DEF ActiveObject
  <1>2. t = CASE ~o.removed /\ ~o.pending -> s
              [] o.removed -> IF o.known_by_count > 0 THEN dropped
                                                      ELSE Erase(dropped, id)
              [] OTHER -> IF o.known_by_count > 0 THEN s
                                                  ELSE Erase(stored, id)
    BY Zenon DEF RemoveObject
  <1>3. /\ Good(e, 0) /\ SameActive(s, e) /\ SameRest(s, e)
        /\ SameLists(s, e)
    <2>1. CASE b = None
      BY <2>1 DEF SameActive, SameRest, SameLists
    <2>2. CASE b \in Blocks
      <3>1. e = EmergeBlock(s, b, FALSE)
        BY <1>1, <2>2
      <3> HIDE DEF e, b
      <3> QED BY <2>2, <3>1, EmergeKeeps
    <2> QED BY <1>1, <2>1, <2>2
  <1>4. /\ Good(e, id) /\ SameObjects(s, e) /\ id \in DOMAIN e.objects
        /\ \A c \in Entered(e, id) : /\ c = b /\ e.block[c].loaded
                                    /\ e.block[c].active[id] = o.obj
        /\ Entered(e, id) = Entered(s, id)
        /\ Quiet(s, e, id) /\ Stays(s, e, id)
    <2>1. id \in Ids /\ e.objects = s.objects
      BY <1>1, <1>3 DEF SameActive
    <2> HIDE DEF e
    <2>2. /\ Good(e, id)
          /\ \A c \in Entered(e, id) :
                 /\ c = e.objects[id].static_block
                 /\ e.block[c].loaded
                 /\ e.objects[id].obj = e.block[c].active[id]
      BY <1>3, <2>1, GoodFacts
    <2>3. /\ Entered(e, id) = Entered(s, id)
          /\ Quiet(s, e, id) /\ Stays(s, e, id)
      BY <1>3, SameActiveOthers, SameActiveKeeps
    <2> QED BY <2>1, <2>2, <2>3 DEF SameObjects
  <1>synced. Synced(e, None)
    <2>1. CASE b = None
      BY <2>1
    <2>2. CASE b \in Blocks
      <3>1. e = EmergeBlock(s, b, FALSE)
        BY <1>1, <2>2
      <3> HIDE DEF e, b
      <3> QED BY <2>2, <3>1, EmergeSyncs
    <2> QED BY <1>1, <2>1, <2>2
  <1> DEFINE Out(r) == /\ Good(r, id) /\ Entered(r, id) = {}
                       /\ SameObjects(s, r) /\ SameRest(s, r)
  <1>5. ASSUME found PROVE /\ b \in Blocks /\ Good(d, id)
                           /\ Entered(d, id) = {} /\ d.block[b].loaded
                           /\ d.objects = e.objects /\ SameRest(e, d)
                           /\ Synced(d, b) /\ Quiet(s, d, id)
    <2>1. b \in Blocks /\ e.block[b].loaded
      BY <1>1, <1>5
    <2> HIDE DEF e, b, found
    <2>2. /\ Good(d, id) /\ d.objects = e.objects /\ SameRest(e, d)
          /\ Entered(d, id) = Entered(e, id) \ {b} /\ Elsewhere(e, d, b)
          /\ Quiet(e, d, id)
      BY <1>1, <1>4, <2>1, RemoveKeeps
    <2>3. d.block[b].loaded
      <3>1. Good(e, id) /\ id \in Ids
        BY <1>1, <1>4
      <3> QED BY <2>1, <3>1, RemoveKeeps
    <2> HIDE DEF d
    <2>4. Synced(d, b)
      BY <1>synced, <2>1, <2>2, ChangeSyncs DEF SameRest, Elsewhere
    <2>5. Quiet(s, d, id)
      BY <1>4, <2>2, QuietOn
    <2> QED BY <1>4, <2>1, <2>2, <2>3, <2>4, <2>5
  <1>6. ASSUME NEW r, b \in Blocks, Out(r), Synced(r, b)
        PROVE  /\ Out(Raise(r, b, MOD_STATE_WRITE_NEEDED))
               /\ Synced(Raise(r, b, MOD_STATE_WRITE_NEEDED), None)
               /\ Quiet(r, Raise(r, b, MOD_STATE_WRITE_NEEDED), id)
               /\ Raise(r, b, MOD_STATE_WRITE_NEEDED).objects = r.objects
    <2> DEFINE w == Raise(r, b, MOD_STATE_WRITE_NEEDED)
    <2> HIDE DEF b
    <2>1. /\ Good(w, id) /\ SameActive(r, w) /\ SameRest(r, w)
          /\ SameLists(r, w)
      BY <1>6, RaiseKeeps, LevelsAre
    <2>S. Synced(w, None)
      BY <1>6, RaiseSyncs, LevelsAre
    <2> HIDE DEF w
    <2>2. Entered(w, id) = {} /\ w.objects = r.objects
      BY <1>6, <2>1, SameActiveKeeps DEF SameActive
    <2>3. SameObjects(s, w) /\ SameRest(s, w)
      BY <1>6, <2>1, <2>2 DEF SameObjects, SameRest
    <2>4. Out(w)
      BY <2>1, <2>2, <2>3
    <2>5. Quiet(r, w, id)
      BY <2>1, SameActiveOthers
    <2> QED BY <2>2, <2>4, <2>5, <2>S DEF w
  <1>7. /\ Out(dropped) /\ Synced(dropped, None)
        /\ Quiet(s, dropped, id)
        /\ o.removed => Stays(s, dropped, id)
    <2>1. CASE ~found
      <3>1. Entered(e, id) = {}
        <4> HIDE DEF e, b
        <4> QED BY <1>1, <1>4, <2>1 DEF Entered
      <3>2. dropped = e
        BY <2>1
      <3> HIDE DEF e, dropped
      <3> QED BY <1>3, <1>4, <1>synced, <3>1, <3>2
    <2>2. CASE found
      <3>1. dropped = Raise(p, b, MOD_STATE_WRITE_NEEDED)
        BY <2>2
      <3> HIDE DEF dropped, d
      <3>2. p = Put(d, id, [d.objects[id] EXCEPT !.static_block = None])
        BY DEF Put
      <3> HIDE DEF p, e, b, found
      <3>3. id \in DOMAIN d.objects
        BY <1>4, <1>5, <2>2
      <3>4. /\ Good(p, id) /\ SameObjects(d, p) /\ SameRest(d, p)
            /\ Entered(p, id) = Entered(d, id) /\ p.block = d.block
            /\ Quiet(d, p, id) /\ p.objects[id].static_block = None
        BY <1>1, <1>5, <2>2, <3>2, <3>3, PutBlockKeeps
      <3>5. SameObjects(s, p) /\ SameRest(s, p)
        BY <1>3, <1>4, <1>5, <2>2, <3>4 DEF SameObjects, SameRest
      <3>6. Out(p)
        BY <1>5, <2>2, <3>4, <3>5
      <3>7. Synced(p, b)
        BY <1>5, <2>2, <3>4, ChangeSyncs DEF SameRest
      <3>8. Quiet(s, p, id)
        BY <1>5, <2>2, <3>4, QuietOn
      <3>9. o.removed => Stays(s, p, id)
        <4>1. id \in DOMAIN p.objects
          BY <3>3, <3>4 DEF SameObjects
        <4>2. /\ p.objects[id].obj = s.objects[id].obj
              /\ p.objects[id].removed = s.objects[id].removed
              /\ p.objects[id].ghost = s.objects[id].ghost
          BY <3>5 DEF SameObjects
        <4> QED BY <3>4, <4>1, <4>2 DEF Stays, HasEntry
      <3> HIDE DEF Out, o
      <3>10. /\ Out(dropped) /\ Synced(dropped, None)
             /\ Quiet(p, dropped, id) /\ dropped.objects = p.objects
        BY <1>5, <1>6, <2>2, <3>1, <3>6, <3>7
      <3>11. Quiet(s, dropped, id)
        BY <3>8, <3>10, QuietOn
      <3>12. o.removed => Stays(s, dropped, id)
        BY <3>4, <3>9, <3>10 DEF Stays, HasEntry, o
      <3> QED BY <3>10, <3>11, <3>12
    <2> QED BY <2>1, <2>2
  <1>8. /\ Out(stored) /\ Synced(stored, None)
        /\ Others(s, stored, id)
        /\ \/ SameLists(s, stored) /\ Entered(s, id) = {}
           \/ b \in Blocks /\ Stores(s, stored, b, o.obj) /\ ~o.ghost
    <2>1. CASE ~there
      <3>1. Entered(e, id) = {}
        <4> HIDE DEF e, b
        <4> QED BY <1>1, <1>4, <2>1 DEF Entered
      <3>2. stored = e
        BY <2>1
      <3> HIDE DEF e, stored
      <3> QED BY <1>3, <1>4, <1>synced, <3>1, <3>2 DEF Quiet
    <2>2. CASE there
      <3>1. stored = Raise(i, b, MOD_STATE_WRITE_NEEDED)
        BY <2>2
      <3>2. e.block[b].active[id] \in Objects
        <4>1. id \in DOMAIN e.block[b].active /\ b \in Blocks
          BY <1>1, <2>2
        <4> HIDE DEF e, b
        <4> QED BY <1>3, <4>1 DEF Good, States, MapBlocks, Maps
      <3>3. found
        BY <2>2
      <3>0. e.block[b].active[id] = o.obj /\ b \in Blocks /\ ~o.ghost
        <4>1. id \in DOMAIN e.block[b].active /\ b \in Blocks
          BY <1>1, <2>2
        <4> HIDE DEF e, b, o
        <4>2. b \in Entered(e, id)
          BY <4>1 DEF Entered
        <4> QED BY <1>1, <1>4, <4>1, <4>2
      <3> HIDE DEF stored, d, e, b, found, there
      <3>4. /\ Good(i, id) /\ SameActive(d, i) /\ SameRest(d, i)
            /\ Elsewhere(d, i, b) /\ Stores(d, i, b, e.block[b].active[id])
        BY <1>5, <3>2, <3>3, StoreKeeps
      <3> HIDE DEF i
      <3>5. Entered(i, id) = {} /\ i.objects = d.objects
        BY <1>5, <3>3, <3>4, SameActiveKeeps DEF SameActive
      <3>6. SameObjects(s, i) /\ SameRest(s, i)
        BY <1>3, <1>4, <1>5, <3>3, <3>4, <3>5 DEF SameObjects, SameRest
      <3>7. Out(i)
        BY <3>4, <3>5, <3>6
      <3>8. Synced(i, b)
        BY <1>5, <3>3, <3>4, ChangeSyncs DEF SameRest, Elsewhere
      <3>9. Others(s, i, id) /\ Stores(s, i, b, o.obj)
        <4>1. Others(s, d, id) /\ SameLists(s, d) /\ Others(d, i, id)
          BY <1>5, <3>3, <3>4, SameActiveOthers DEF Quiet
        <4>2. Others(s, i, id)
          BY <4>1, QuietOn
        <4>3. Stores(s, i, b, o.obj)
          BY <3>0, <3>4, <4>1 DEF SameLists, Stores
        <4> QED BY <4>2, <4>3
      <3> HIDE DEF Out, o
      <3>10. /\ Out(stored) /\ Synced(stored, None)
             /\ Quiet(i, stored, id)
        BY <1>5, <1>6, <3>1, <3>3, <3>7, <3>8
      <3>11. Others(s, stored, id)
        BY <3>9, <3>10, QuietOn DEF Quiet
      <3>12. Stores(s, stored, b, o.obj)
        BY <3>0, <3>9, <3>10 DEF Stores, Quiet, SameLists
      <3> QED BY <3>0, <3>10, <3>11, <3>12
    <2> QED BY <2>1, <2>2
  <1> HIDE DEF dropped, stored, t
  <1>9. CASE t = s
    <2>1. Touches(s, s, id) /\ SameRest(s, s)
      BY DEF Touches, SameRest
    <2>2. Settles(s, s, id)
      BY DEF Settles, Stays, SameLists, Others
    <2> QED BY <1>9, <2>1, <2>2 DEF t
  <1>10. CASE o.removed /\ t = dropped
    <2>1. Good(dropped, 0)
      <3>1. id \in DOMAIN dropped.objects =>
                (dropped.objects[id].ghost => dropped.objects[id].pending)
        BY <1>1, <1>7 DEF SameObjects
      <3> QED BY <1>1, <1>7, <3>1, GoodFacts
    <2>2. Touches(s, dropped, id)
      BY <1>7 DEF Touches, SameObjects, SameRest
    <2>3. Settles(s, dropped, id)
      BY <1>7, <1>10, QuietSettles DEF SameRest
    <2> QED BY <1>7, <1>10, <2>1, <2>2, <2>3 DEF t
  <1>11. CASE /\ ~(o.known_by_count > 0)
              /\ \/ o.removed /\ t = Erase(dropped, id)
                 \/ ~o.removed /\ t = Erase(stored, id)
    <2>1. o.known_by_count = 0
      BY <1>1, <1>11
    <2> HIDE DEF o
    <2>2. o = s.objects[id]
      BY DEF o
    <2>3. CASE o.removed /\ t = Erase(dropped, id)
      <3>1. /\ Good(t, 0) /\ Touches(s, t, id) /\ SameRest(s, t)
            /\ Synced(t, None)
            /\ Quiet(dropped, t, id) /\ id \notin DOMAIN t.objects
        BY <1>1, <1>7, <2>1, <2>2, <2>3, EraseTouches
      <3>2. Quiet(s, t, id)
        BY <1>7, <3>1, QuietOn
      <3>3. Settles(s, t, id)
        BY <2>2, <2>3, <3>1, <3>2 DEF Settles, Quiet, SameRest
      <3> QED BY <3>1, <3>3 DEF t
    <2>4. CASE ~o.removed /\ t = Erase(stored, id)
      <3>1. /\ Good(t, 0) /\ Touches(s, t, id) /\ SameRest(s, t)
            /\ Synced(t, None)
            /\ Quiet(stored, t, id) /\ id \notin DOMAIN t.objects
        BY <1>1, <1>8, <2>1, <2>2, <2>4, EraseTouches
      <3>2. Others(s, t, id)
        BY <1>8, <3>1, QuietOn DEF Quiet
      <3>3. CASE SameLists(s, stored) /\ Entered(s, id) = {}
        <4>1. ~HasEntry(s, id)
          BY <2>2, <2>4, <3>3 DEF HasEntry
        <4>2. SameLists(s, t)
          BY <3>1, <3>3, QuietOn DEF Quiet
        <4>3. Settles(s, t, id)
          BY <3>1, <3>2, <4>1, <4>2 DEF Settles, SameRest
        <4> QED BY <3>1, <4>3 DEF t
      <3>4. CASE b \in Blocks /\ Stores(s, stored, b, o.obj) /\ ~o.ghost
        <4>1. b \in Blocks /\ Stores(s, t, b, o.obj) /\ ~o.ghost
          BY <3>1, <3>4 DEF Stores, Quiet, SameLists
        <4> HIDE DEF b
        <4>2. Settles(s, t, id)
          BY <2>2, <2>4, <3>1, <3>2, <4>1 DEF Settles, SameRest
        <4> QED BY <3>1, <4>2 DEF t
      <3> HIDE DEF b, Out
      <3> QED BY <1>8, <3>3, <3>4
    <2> QED BY <1>11, <2>3, <2>4
  <1>12. \/ t = s
         \/ o.removed /\ t = dropped
         \/ /\ ~(o.known_by_count > 0)
            /\ \/ o.removed /\ t = Erase(dropped, id)
               \/ ~o.removed /\ t = Erase(stored, id)
    BY <1>2
  <1> QED BY <1>9, <1>10, <1>11, <1>12

\* deactivateFarObjects for one object.
LEMMA DeactivateObjectKeeps ==
    ASSUME NEW s, Good(s, 0), Synced(s, None), NEW id \in DOMAIN s.objects,
           DiskOK,
           NEW active \in SUBSET Places, NEW data_changed \in BOOLEAN
    PROVE  /\ Good(DeactivateObject(s, active, id, data_changed), 0)
           /\ Touches(s, DeactivateObject(s, active, id, data_changed), id)
           /\ Synced(DeactivateObject(s, active, id, data_changed), None)
           /\ Settles(s, DeactivateObject(s, active, id, data_changed), id)
           /\ s.force => id \notin DOMAIN
                  DeactivateObject(s, active, id, data_changed).objects
  <1> DEFINE o == s.objects[id]
             t == DeactivateObject(s, active, id, data_changed)
  <1>1. o \in ActiveObject
    BY IsActive DEF Good
  <1>2. \/ t = s /\ ~s.force
        \/ t = MoveToStatic(s, id, data_changed) /\ (s.force \/ ~o.pending)
        \/ /\ t = Resave(s, id) /\ ~s.force /\ ~o.pending
           /\ o.pos \in active /\ o.static_block \notin active
           /\ o.static_block # None /\ o.pos # Outside
    BY DEF DeactivateObject, Resave
  <1>3. CASE t = s /\ ~s.force
    BY <1>3 DEF Touches, Settles, Stays, SameLists, Others
  <1>4. CASE t = MoveToStatic(s, id, data_changed) /\ (s.force \/ ~o.pending)
    BY <1>4, MoveToStaticKeeps
  <1>5. CASE /\ t = Resave(s, id) /\ ~s.force /\ ~o.pending
             /\ o.pos \in active /\ o.static_block \notin active
             /\ o.static_block # None /\ o.pos # Outside
    <2>1. o.static_block \in Blocks /\ o.static_block # o.pos
      BY <1>1, <1>5 DEF ActiveObject
    <2> QED BY <1>5, <2>1, ResaveKeeps
  <1> QED BY <1>2, <1>3, <1>4, <1>5

-----------------------------------------------------------------------------
(***************************************************************************)
(* Adding and activating objects.                                          *)
(***************************************************************************)
\* The free id is free.
LEMMA FreeIdIs ==
    ASSUME NEW s \in States
    PROVE  \/ FreeId(s) = 0
           \/ FreeId(s) \in Ids /\ FreeId(s) \notin DOMAIN s.objects
  <1> USE ActiveObjectsConstants
  <1> DEFINE nth(k) == (s.last + k) % (MaxId + 1)
             free == {k \in 1 .. MaxId + 1 :
                         nth(k) # 0 /\ nth(k) \notin DOMAIN s.objects}
  <1>1. MaxId \in Nat /\ MaxId + 1 \in Nat \ {0} /\ s.last \in Nat
    BY DEF States
  <1>2. \A k \in 1 .. MaxId + 1 : nth(k) \in 0 .. MaxId
    BY <1>1
  <1>3. CASE free = {}
    BY <1>3 DEF FreeId
  <1>4. CASE free # {}
    <2>1. FreeId(s) = nth(CHOOSE k \in free : \A l \in free : k <= l)
      BY <1>4 DEF FreeId
    <2>2. free \in SUBSET Nat
      OBVIOUS
    <2>3. \E k \in free : \A l \in free : k <= l
      <3> HIDE DEF free
      <3> QED BY <1>4, <2>2, Least
    <2>4. PICK k \in free : FreeId(s) = nth(k)
      <3> HIDE DEF free, nth
      <3> QED BY <2>1, <2>3
    <2>5. nth(k) # 0 /\ nth(k) \notin DOMAIN s.objects /\ nth(k) \in 0 .. MaxId
      <3>1. k \in 1 .. MaxId + 1
        OBVIOUS
      <3> QED BY <1>2, <3>1
    <2> HIDE DEF nth
    <2> QED BY <1>1, <2>4, <2>5 DEF Ids
  <1> QED BY <1>3, <1>4

\* What adding objects does to those that there are.
Grows(s, t) ==
    /\ DOMAIN s.objects \subseteq DOMAIN t.objects
    /\ \A i \in DOMAIN t.objects :
           IF i \in DOMAIN s.objects
           THEN /\ t.objects[i].obj = s.objects[i].obj
                /\ t.objects[i].known_by_count = s.objects[i].known_by_count
           ELSE t.objects[i].known_by_count = 0

\* Where o went when it was added to block b.
Adds(s, t, b, o) ==
    /\ Elsewhere(s, t, b)
    /\ t.block[b].loaded
    /\ s.lost \subseteq t.lost
    /\ \/ Gains(s.block[b], t.block[b], o)
       \/ t.block = s.block /\ o \in t.lost

\* The new object gets an id without entries, and one entry. The caller that
\* adds it quietly answers for the flag of the block.
LEMMA AddKeeps ==
    ASSUME NEW s, Good(s, 0), NEW o \in Objects, NEW b \in Blocks,
           NEW set_changed \in BOOLEAN, DiskOK
    PROVE  LET t == AddActiveObjectRaw(s, o, b, set_changed)
           IN  /\ Good(t, 0) /\ Grows(s, t) /\ t.force = s.force
               /\ Synced(s, None) /\ set_changed => Synced(t, None)
               /\ s.block[b].loaded /\ ~set_changed => Adds(s, t, b, o)
               /\ Seated(s, t, o) /\ Elsewhere(s, t, b)
               /\ s.lost \subseteq t.lost
               /\ ~set_changed => \A n : Synced(s, n) =>
                      Synced([t EXCEPT !.lost = @ \cup {o}], n)
  <1> DEFINE id == FreeId(s)
             e == EmergeBlock(s, b, TRUE)
             i == InsertStatic(e, b, id, o)
             q == [obj |-> o, pos |-> b, known_by_count |-> 0,
                   removed |-> FALSE, pending |-> FALSE, static_block |-> b,
                   ghost |-> FALSE]
             added == [i EXCEPT !.last = id, !.objects = Set(@, id, q)]
             w == Raise(added, b, MOD_STATE_WRITE_NEEDED)
             t == AddActiveObjectRaw(s, o, b, set_changed)
  <1>1. id = 0 \/ (id \in Ids /\ id \notin DOMAIN s.objects)
    BY FreeIdIs DEF Good
  <1>2. CASE id = 0
    <2>1. t = [s EXCEPT !.lost = @ \cup {o}]
      BY <1>2 DEF AddActiveObjectRaw
    <2> HIDE DEF t
    <2>2. /\ t \in States /\ t.objects = s.objects /\ t.block = s.block
          /\ t.force = s.force /\ t.lost = s.lost \cup {o}
      BY <2>1 DEF Good, States
    <2>3. Good(t, 0)
      BY <2>2, SameWorldKeeps
    <2>4. Grows(s, t)
      BY <2>2 DEF Grows
    <2>5. Synced(s, None) => Synced(t, None)
      BY <2>2, ChangeSyncs
    <2>6. /\ s.block[b].loaded => Adds(s, t, b, o)
          /\ Elsewhere(s, t, b) /\ s.lost \subseteq t.lost
      BY <2>2 DEF Adds, Elsewhere
    <2>8. \A n : Synced(s, n) => Synced([t EXCEPT !.lost = @ \cup {o}], n)
      <3> DEFINE v == [t EXCEPT !.lost = @ \cup {o}]
      <3>1. v.block = s.block /\ s.lost \subseteq v.lost
        BY <2>2 DEF States
      <3> HIDE DEF v
      <3>2. \A n : Synced(s, n) => Synced(v, n)
        BY <3>1, ChangeSyncs
      <3> QED BY <3>2 DEF v
    <2>7. Seated(s, t, o)
      <3>1. SameLists(s, t) /\ Others(s, t, 0)
        BY <2>2, SameWorldKeeps, SameActiveOthers
      <3> QED BY <2>2, <3>1 DEF Seated
    <2> QED BY <2>2, <2>3, <2>4, <2>5, <2>6, <2>7, <2>8 DEF t
  <1>3. CASE id # 0
    <2>1. t = IF set_changed THEN w ELSE added
      BY <1>3, Zenon DEF AddActiveObjectRaw
    <2> HIDE DEF id, t
    <2>2. id \in Ids /\ id \notin DOMAIN s.objects
      BY <1>1, <1>3
    <2>3. /\ Good(e, 0) /\ SameActive(s, e) /\ SameRest(s, e)
          /\ SameLists(s, e)
      BY EmergeKeeps
    <2>4. e.block[b].loaded
      BY EmergeKeeps
    <2>same. s.block[b].loaded => e = s
      BY DEF EmergeBlock
    <2>S. /\ Synced(s, None) => Synced(e, None)
          /\ \A n : Synced(s, n) => Synced(e, n)
      BY EmergeSyncs
    <2>else. Elsewhere(s, e, b)
      BY EmergeDoes DEF Elsewhere, Good
    <2> HIDE DEF e
    <2>5. Good(e, id) /\ Entered(e, id) = {} /\ e.objects = s.objects
      BY <2>2, <2>3, GoodFacts DEF SameActive
    <2>6. /\ Good(i, id) /\ i.objects = e.objects /\ SameRest(e, i)
          /\ Entered(i, id) = Entered(e, id) \cup {b}
          /\ i.block[b].active[id] = o
          /\ Elsewhere(e, i, b) /\ Quiet(e, i, id)
      BY <2>2, <2>4, <2>5, InsertKeeps
    <2>loaded. i.block[b].loaded
      BY <2>2, <2>4, <2>5, InsertKeeps
    <2>gains. Gains(e.block[b], i.block[b], o)
      <3>1. id \in Ids \cup {0} /\ id \notin DOMAIN e.block[b].active
        BY <2>2, <2>5 DEF Entered
      <3> QED BY <2>5, <3>1, InsertHeld
    <2> HIDE DEF i
    <2>7. /\ q \in ActiveObject /\ q.obj = o /\ q.static_block = b
          /\ q.known_by_count = 0 /\ ~q.removed /\ ~q.ghost
      BY DEF ActiveObject, Places
    <2> HIDE DEF q
    <2>8. Set(i.objects, id, q) \in Maps(ActiveObject)
      <3>1. i.objects \in Maps(ActiveObject)
        BY <2>6 DEF Good, States
      <3> QED BY <2>2, <2>7, <3>1, SetMap
    <2>9. /\ added \in States /\ added.block = i.block
          /\ added.objects = Set(i.objects, id, q)
          /\ added.force = i.force /\ added.lost = i.lost
      <3>1. id \in 0 .. MaxId
        BY <2>2 DEF Ids
      <3> QED BY <2>6, <2>8, <3>1 DEF Good, States
    <2> HIDE DEF added
    <2>10. /\ DOMAIN added.objects = DOMAIN s.objects \cup {id}
           /\ added.objects[id] = q
           /\ \A j \in DOMAIN s.objects : added.objects[j] = s.objects[j]
      BY <2>2, <2>5, <2>6, <2>9 DEF Set
    <2>11. Good(added, 0)
      <3>1. Good(added, id)
        BY <2>2, <2>5, <2>6, <2>9, <2>10 DEF Good, Unused, MatchBut
      <3>2. Entered(added, id) = {b}
        BY <2>5, <2>6, <2>9 DEF Entered
      <3> QED BY <2>2, <2>6, <2>7, <2>9, <2>10, <3>1, <3>2, GoodFacts
    <2>12. Grows(s, added) /\ added.force = s.force
      BY <2>2, <2>3, <2>6, <2>7, <2>9, <2>10 DEF Grows, SameRest
    <2>13. /\ Good(w, 0) /\ SameActive(added, w) /\ SameRest(added, w)
           /\ SameLists(added, w)
      BY <2>11, RaiseKeeps, LevelsAre
    <2> HIDE DEF w
    <2>14. Grows(s, w) /\ w.force = s.force
      BY <2>12, <2>13 DEF Grows, SameActive, SameRest
    <2>15. Synced(s, None) => Synced(w, None)
      <3>1. Synced(s, None) => Synced(added, b)
        BY <2>S, <2>6, <2>9, ChangeSyncs DEF Elsewhere, SameRest
      <3> QED BY <2>11, <3>1, RaiseSyncs, LevelsAre DEF w
    <2>16. s.block[b].loaded => Adds(s, added, b, o)
      BY <2>same, <2>6, <2>9, <2>loaded, <2>gains DEF Adds, Elsewhere, SameRest
    <2>17. /\ SameLists(s, added) /\ Others(s, added, id)
           /\ Entered(added, id) = {b} /\ added.lost = s.lost
      <3>1. Quiet(s, i, id)
        <4>1. Quiet(s, e, id)
          BY <2>3, SameActiveOthers
        <4> QED BY <2>6, <4>1, QuietOn
      <3>2. Quiet(i, added, id)
        BY <2>5, <2>6, <2>9, <2>10, SameBlocksQuiet
      <3>3. Quiet(s, added, id)
        BY <3>1, <3>2, QuietOn
      <3>4. Entered(added, id) = Entered(i, id)
        BY <2>9 DEF Entered
      <3> QED BY <2>3, <2>5, <2>6, <2>9, <3>3, <3>4 DEF Quiet, SameRest
    <2>18. Seated(s, added, o)
      BY <2>2, <2>7, <2>10, <2>17 DEF Seated
    <2>19. Seated(s, w, o)
      <3>1. /\ w.objects = added.objects /\ Entered(w, id) = {b}
            /\ w.lost = s.lost
        BY <2>13, <2>17, SameActiveKeeps DEF SameActive, SameRest
      <3>2. SameLists(s, w) /\ Others(s, w, id)
        <4>1. Others(added, w, id)
          BY <2>13, SameActiveOthers
        <4> QED BY <2>13, <2>17, <4>1, QuietOn
      <3> QED BY <2>2, <2>7, <2>10, <3>1, <3>2 DEF Seated
    <2>20. Elsewhere(s, added, b) /\ Elsewhere(s, w, b)
      <3>1. Elsewhere(s, added, b)
        BY <2>6, <2>9, <2>else DEF Elsewhere
      <3>2. Elsewhere(added, w, b)
        BY <2>11, RaiseDoes, LevelsAre DEF w, Elsewhere, Good
      <3> QED BY <3>1, <3>2 DEF Elsewhere
    <2>21. \A n : Synced(s, n) => Synced([added EXCEPT !.lost = @ \cup {o}], n)
      <3> DEFINE v == [added EXCEPT !.lost = @ \cup {o}]
      <3>1. v.block = i.block /\ v.lost = s.lost \cup {o}
        BY <2>9, <2>17 DEF States
      <3> HIDE DEF v
      <3>2. /\ e.lost \subseteq v.lost /\ Elsewhere(e, v, b)
            /\ v.block[b].modified = e.block[b].modified
            /\ \A y : y \in v.lost \/ (y \in Held(v.block[b])
                                            <=> y \in Held(e.block[b]))
        BY <2>3, <2>6, <2>gains, <3>1 DEF Elsewhere, SameRest, Gains
      <3>3. ASSUME NEW n, Synced(s, n) PROVE Synced(v, n)
        <4>1. Synced(e, n)
          BY <2>S, <3>3
        <4> QED BY <2>4, <3>2, <4>1, LostSyncs
      <3> QED BY <3>3 DEF v
    <2> QED BY <2>1, <2>11, <2>12, <2>13, <2>14, <2>15, <2>16, <2>17, <2>18,
               <2>19, <2>20, <2>21 DEF t, SameRest
  <1> QED BY <1>2, <1>3

-----------------------------------------------------------------------------
(***************************************************************************)
(* The loops. The body of each is the function for one object or block;    *)
(* what it keeps is kept by the loop (LoopKeeps of Loops).                 *)
(***************************************************************************)
\* What deactivation does to the objects.
Shrinks(s, t) ==
    /\ DOMAIN t.objects \subseteq DOMAIN s.objects
    /\ \A i \in DOMAIN t.objects :
           /\ t.objects[i].obj = s.objects[i].obj
           /\ t.objects[i].known_by_count = s.objects[i].known_by_count
    /\ s.force => t.force
    /\ \A i \in DOMAIN s.objects \ DOMAIN t.objects :
           s.objects[i].known_by_count = 0 \/ t.force

\* One step more.
LEMMA TouchesShrinks ==
    ASSUME NEW s, NEW t, NEW u, NEW id, Shrinks(s, t), Touches(t, u, id)
    PROVE  Shrinks(s, u)
  BY DEF Shrinks, Touches

\* The ids that a loop goes through are bounded numbers.
LEMMA IdsAreNumbers ==
    ASSUME NEW s \in States
    PROVE  MaxId \in Nat /\ DOMAIN s.objects \in SUBSET (0 .. MaxId)
  BY ActiveObjectsConstants DEF States, Maps, Ids

\* The objects that are left are those the loop did not come to yet, and some
\* of the others.
LEMMA DeactivateFarKeeps ==
    ASSUME NEW s, Good(s, 0), Synced(s, None), DiskOK,
           NEW active \in SUBSET Places, NEW changed
    PROVE  /\ Good(DeactivateFarObjects(s, active, changed), 0)
           /\ Shrinks(s, DeactivateFarObjects(s, active, changed))
           /\ Synced(DeactivateFarObjects(s, active, changed), None)
           /\ Keeps(s, DeactivateFarObjects(s, active, changed))
           /\ s.force =>
                  DOMAIN DeactivateFarObjects(s, active, changed).objects = {}
  <1> DEFINE Step(t, id) == DeactivateObject(t, active, id, id \in changed)
             S == DOMAIN s.objects
             body == [x \in States \X Ids |-> Step(x[1], x[2])]
             Freed(t, w) == s.force => w \cap DOMAIN t.objects = {}
             P == [w \in SUBSET S |->
                      {t \in States : /\ Good(t, 0) /\ Shrinks(s, t)
                                      /\ Synced(t, None)
                                      /\ S \ w \subseteq DOMAIN t.objects
                                      /\ Keeps(s, t)
                                      /\ Freed(t, w)}]
  <1>1. /\ MaxId \in Nat /\ S \in SUBSET (0 .. MaxId) /\ S \in SUBSET Ids
        /\ s \in States
    BY IdsAreNumbers DEF Good, States, Maps
  <1>2. s \in P[{}]
    <2>1. Shrinks(s, s) /\ Keeps(s, s) /\ Freed(s, {})
      BY DEF Shrinks, Keeps
    <2> QED BY <1>1, <2>1
  <1>3. ASSUME NEW w \in SUBSET S, NEW x \in w, NEW t \in P[w \ {x}]
        PROVE  Step(t, x) \in P[w] /\ body[<<t, x>>] = Step(t, x)
    <2>1. /\ t \in States /\ Good(t, 0) /\ Shrinks(s, t) /\ Synced(t, None)
          /\ S \ (w \ {x}) \subseteq DOMAIN t.objects /\ x \in Ids
          /\ Keeps(s, t) /\ Freed(t, w \ {x})
      BY <1>1
    <2>2. x \in DOMAIN t.objects /\ (x \in changed) \in BOOLEAN
      BY <2>1
    <2> DEFINE u == Step(t, x)
    <2>3. /\ Good(u, 0) /\ Touches(t, u, x) /\ Synced(u, None)
          /\ Settles(t, u, x)
          /\ t.force => x \notin DOMAIN u.objects
      BY <2>1, <2>2, DeactivateObjectKeeps
    <2>4. body[<<t, x>>] = u
      BY <2>1
    <2> HIDE DEF u, body
    <2>5. Shrinks(s, u)
      BY <2>1, <2>3, TouchesShrinks
    <2>6. S \ w \subseteq DOMAIN u.objects
      BY <2>1, <2>3 DEF Touches
    <2>8. Keeps(s, u)
      <3>1. Keeps(t, u)
        BY <2>1, <2>2, <2>3, SettlesKeeps DEF Good
      <3> QED BY <2>1, <3>1, KeepsOn
    <2>9. Freed(u, w)
      BY <2>1, <2>3 DEF Shrinks, Touches
    <2> HIDE DEF Freed
    <2>7. u \in P[w]
      BY <2>3, <2>5, <2>6, <2>8, <2>9 DEF Good
    <2> QED BY <2>4, <2>7 DEF u
  <1>4. PICK run : /\ IsRun(run, s, body, S)
                   /\ \A w \in SUBSET S : run[w] \in P[w]
    <2> HIDE DEF body, P, Step, S
    <2>1. \A w \in SUBSET S : \A x \in w :
              \A t \in P[w \ {x}] : body[<<t, x>>] \in P[w]
      BY <1>3
    <2> QED BY <1>1, <1>2, <2>1, LoopKeeps
  <1> DEFINE Is(f) == f = [w \in SUBSET S |->
                              IF w = {} THEN s
                              ELSE Step(f[w \ {Max(w)}], Max(w))]
             f == CHOOSE g : Is(g)
  <1>5. Is(run)
    <2>1. ASSUME NEW w \in SUBSET S, w # {}
          PROVE  body[<<run[w \ {Max(w)}], Max(w)>>]
                     = Step(run[w \ {Max(w)}], Max(w))
      <3>1. Max(w) \in w /\ w \ {Max(w)} \in SUBSET S
        BY <1>1, <2>1, Greatest
      <3>2. run[w \ {Max(w)}] \in P[w \ {Max(w)}]
        BY <1>4, <3>1
      <3> HIDE DEF body, P, Step, S
      <3> QED BY <1>3, <3>1, <3>2
    <2> HIDE DEF body, P, Step, S
    <2> QED BY <1>4, <2>1 DEF IsRun
  <1>6. Is(f)
    <2> HIDE DEF Is
    <2> QED BY <1>5
  <1>7. \A w \in SUBSET S : f[w] \in P[w]
    <2> HIDE DEF f, P, Step, S
    <2>1. f[{}] \in P[{}]
      BY <1>2, <1>6
    <2>2. ASSUME NEW w \in SUBSET S, w # {},
                 f[w \ {Max(w)}] \in P[w \ {Max(w)}]
          PROVE  f[w] \in P[w]
      <3>1. Max(w) \in w
        BY <1>1, <2>2, Greatest
      <3>2. f[w] = Step(f[w \ {Max(w)}], Max(w))
        BY <1>6, <2>2
      <3> QED BY <1>3, <2>2, <3>1, <3>2
    <2> HIDE DEF Is
    <2> QED BY <1>1, <2>1, <2>2, RunKeeps
  <1>8. DeactivateFarObjects(s, active, changed) = f[S]
    BY DEF DeactivateFarObjects, ForEach, MapThenFoldSet
  <1>9. f[S] \in P[S]
    BY <1>7
  <1>10. s.force => DOMAIN f[S].objects = {}
    <2> HIDE DEF f
    <2>1. Shrinks(s, f[S]) /\ Freed(f[S], S)
      BY <1>9
    <2> QED BY <2>1 DEF Shrinks
  <1>11. /\ Good(f[S], 0) /\ Shrinks(s, f[S]) /\ Synced(f[S], None)
         /\ Keeps(s, f[S])
    <2> HIDE DEF f, Freed
    <2> QED BY <1>9
  <1> HIDE DEF f, P, S
  <1> QED BY <1>8, <1>10, <1>11

\* What the steps of activation do.
Extends(s, t) == Grows(s, t) /\ t.force = s.force /\ s.lost \subseteq t.lost

\* One step more.
LEMMA ExtendsOn ==
    ASSUME NEW s, NEW t, NEW u, Extends(s, t), Extends(t, u)
    PROVE  Extends(s, u)
  BY DEF Extends, Grows

\* Where on_activate puts objects.
Spotted(spot) == \A o \in DOMAIN spot : spot[o] \in Blocks \cup {None}

\* An object comes to a home: it gets an id and an entry, or it is stored.
Lands(s, t, b, o) ==
    \/ Seated(s, t, o)
    \/ SameActive(s, t) /\ t.lost = s.lost /\ Stores(s, t, b, o)

\* An object of block b is made active, put into another block, or put back. In
\* each case block b has it again, if it is not exempt.
LEMMA ActivateObjectKeeps ==
    ASSUME NEW s, Good(s, 0), NEW b \in Blocks, s.block[b].loaded,
           NEW o \in Objects, NEW spot, Spotted(spot), DiskOK, Synced(s, b)
    PROVE  LET t == ActivateObject(s, b, o, spot)
           IN  /\ Good(t, 0) /\ Extends(s, t) /\ Synced(t, b)
               /\ t.block[b].loaded
               /\ t.block[b].modified = s.block[b].modified
               /\ \A y : \/ y \in t.lost
                         \/ y \in Held(t.block[b]) <=>
                                y \in Held(s.block[b]) \/ y = o
               /\ Lands(s, t, b, o)
  <1> DEFINE p == IF o \in DOMAIN spot THEN spot[o] ELSE b
             u == AddActiveObjectRaw(s, o, p, FALSE)
             v == [u EXCEPT !.lost = @ \cup {o}]
             i == InsertStatic(s, b, 0, o)
             t == ActivateObject(s, b, o, spot)
  <1>1. /\ p \in Blocks \cup {None} /\ None \notin Blocks
        /\ t = IF p = None THEN i ELSE IF p = b THEN u ELSE v
    BY DEF Spotted, None, Blocks, ActivateObject
  <1> HIDE DEF p, t
  <1>2. CASE p = None
    <2>1. /\ Good(i, 0) /\ SameActive(s, i) /\ SameRest(s, i)
          /\ i.block[b].loaded = s.block[b].loaded
          /\ Elsewhere(s, i, b) /\ Stores(s, i, b, o)
      BY StoreKeeps
    <2>2. Gains(s.block[b], i.block[b], o)
      <3>1. 0 \notin DOMAIN s.block[b].active
        BY DEF Good, States, MapBlocks, Maps, Ids
      <3> QED BY <3>1, InsertHeld
    <2>3. t = i
      BY <1>1, <1>2
    <2> HIDE DEF i
    <2>4. Synced(i, b)
      BY <2>1, ChangeSyncs DEF SameRest, Elsewhere
    <2>5. Extends(s, i)
      BY <2>1 DEF Extends, Grows, SameActive, SameRest
    <2>6. Lands(s, i, b, o)
      BY <2>1 DEF Lands, SameRest
    <2> QED BY <2>1, <2>2, <2>3, <2>4, <2>5, <2>6 DEF Gains, t
  <1>3. ASSUME p \in Blocks
        PROVE  /\ Good(u, 0) /\ Grows(s, u) /\ u.force = s.force
               /\ s.block[p].loaded => Adds(s, u, p, o)
               /\ Seated(s, u, o) /\ Elsewhere(s, u, p)
               /\ s.lost \subseteq u.lost
               /\ \A n : Synced(s, n) => Synced(v, n)
    BY <1>3, AddKeeps
  <1> HIDE DEF u
  <1>4. CASE p = b
    <2>1. t = u /\ Adds(s, u, b, o)
      BY <1>1, <1>3, <1>4
    <2>2. Synced(u, b)
      BY <1>3, <1>4, ChangeSyncs DEF Elsewhere
    <2>3. Extends(s, u) /\ Lands(s, u, b, o)
      BY <1>3, <1>4 DEF Extends, Lands
    <2> QED BY <1>3, <1>4, <2>1, <2>2, <2>3 DEF Adds, Gains, t
  <1>5. CASE p \in Blocks /\ p # b
    <2>1. t = v
      BY <1>1, <1>5
    <2>2. /\ v \in States /\ v.objects = u.objects /\ v.block = u.block
          /\ v.force = u.force /\ v.lost = u.lost \cup {o}
      BY <1>3, <1>5 DEF Good, States
    <2>3. Synced(v, b)
      BY <1>3, <1>5
    <2> HIDE DEF v
    <2>4. Good(v, 0) /\ SameActive(u, v) /\ SameLists(u, v)
      BY <1>3, <1>5, <2>2, SameWorldKeeps
    <2>5. Extends(s, v)
      BY <1>3, <1>5, <2>2 DEF Extends, Grows
    <2>6. v.block[b] = s.block[b]
      BY <1>3, <1>5, <2>2 DEF Elsewhere
    <2>7. Seated(s, v, o)
      <3>1. SameLists(s, v) /\ s.lost \subseteq v.lost
        BY <1>3, <1>5, <2>2, <2>4 DEF Seated, SameLists
      <3>2. CASE o \in u.lost /\ Others(s, u, 0)
        <4>1. Others(s, v, 0)
          BY <2>4, <3>2, SameActiveOthers, QuietOn
        <4> QED BY <2>2, <3>1, <4>1 DEF Seated
      <3>3. ASSUME NEW id \in Ids \ DOMAIN s.objects,
                   Others(s, u, id), id \in DOMAIN u.objects,
                   u.objects[id].obj = o,
                   ~u.objects[id].removed, ~u.objects[id].ghost,
                   u.objects[id].static_block \in Entered(u, id)
            PROVE  Seated(s, v, o)
        <4>1. Others(s, v, id)
          BY <2>4, <3>3, SameActiveOthers, QuietOn
        <4>2. Entered(v, id) = Entered(u, id)
          BY <2>2 DEF Entered
        <4> QED BY <2>2, <3>1, <3>3, <4>1, <4>2 DEF Seated
      <3> QED BY <1>3, <1>5, <3>2, <3>3 DEF Seated
    <2>8. Lands(s, v, b, o)
      BY <2>7 DEF Lands
    <2> QED BY <2>1, <2>2, <2>3, <2>4, <2>5, <2>6, <2>8 DEF t
  <1> QED BY <1>1, <1>2, <1>4, <1>5

\* One of the stored objects after the other.
AddStored(s, b, stored, spot) ==
    FoldLeft(LAMBDA t, o : ActivateObject(t, b, o, spot), s, stored)

\* The objects of a list that was taken out of a block, the others being where
\* they were, when B are the objects that are to have a home.
InHand(s, stored, B) ==
    /\ Homes(s, B \ Range(stored))
    /\ \A o \in Sound(s) \cap Range(stored) :
           o \in B /\ o \notin killed /\ Single(stored, o)

\* After all of them the block has their data again, if it is not exempt, and
\* they have their homes.
LEMMA AddStoredKeeps ==
    ASSUME NEW s, Good(s, 0), NEW b \in Blocks, s.block[b].loaded,
           NEW stored \in Seq(Objects), DiskOK, Synced(s, b),
           NEW spot, Spotted(spot)
    PROVE  LET t == AddStored(s, b, stored, spot)
           IN  /\ Good(t, 0) /\ Extends(s, t) /\ Synced(t, b)
               /\ t.block[b].loaded
               /\ t.block[b].modified = s.block[b].modified
               /\ \A o : \/ o \in t.lost
                         \/ o \in Held(t.block[b]) <=>
                                o \in Held(s.block[b]) \cup Range(stored)
               /\ \A B : InHand(s, stored, B) => Homes(t, B)
  <1> DEFINE Step(t, j) == ActivateObject(t, b, stored[j], spot)
             S == DOMAIN stored
             body == [x \in States \X S |-> Step(x[1], x[2])]
             Has(t, w) ==
                 \A o : \/ o \in t.lost
                        \/ o \in Held(t.block[b]) <=>
                               \/ o \in Held(s.block[b])
                               \/ \E j \in w : o = stored[j]
             Done(w) == {stored[j] : j \in w}
             Seats(t, w) ==
                 \A B : InHand(s, stored, B) =>
                            Homes(t, (B \ Range(stored)) \cup Done(w))
             P == [w \in SUBSET S |->
                      {t \in States : /\ Good(t, 0) /\ Extends(s, t)
                                      /\ Synced(t, b)
                                      /\ t.block[b].loaded
                                      /\ t.block[b].modified
                                             = s.block[b].modified
                                      /\ Has(t, w) /\ Seats(t, w)}]
  <1>1. /\ Len(stored) \in Nat /\ S \in SUBSET (0 .. Len(stored))
        /\ s \in States /\ \A j \in S : stored[j] \in Objects
    BY DEF Good
  <1>2. s \in P[{}]
    <2>1. Extends(s, s)
      <3>1. \A i \in DOMAIN s.objects : s.objects[i] = s.objects[i]
        OBVIOUS
      <3> QED BY DEF Extends, Grows
    <2>2. Seats(s, {})
      <3>1. \A B : (B \ Range(stored)) \cup Done({}) = B \ Range(stored)
        OBVIOUS
      <3> HIDE DEF Done
      <3> QED BY <3>1 DEF InHand
    <2> HIDE DEF Seats
    <2> QED BY <1>1, <2>1, <2>2
  <1>3. ASSUME NEW w \in SUBSET S, NEW x \in w, NEW t \in P[w \ {x}]
        PROVE  Step(t, x) \in P[w] /\ body[<<t, x>>] = Step(t, x)
    <2>1. /\ t \in States /\ Good(t, 0) /\ Extends(s, t) /\ Synced(t, b)
          /\ t.block[b].loaded /\ t.block[b].modified = s.block[b].modified
          /\ Has(t, w \ {x}) /\ stored[x] \in Objects
          /\ Seats(t, w \ {x})
      <3> HIDE DEF Has, Seats
      <3> QED BY <1>1
    <2> DEFINE u == Step(t, x)
    <2>2. /\ Good(u, 0) /\ Extends(t, u) /\ Synced(u, b)
          /\ u.block[b].loaded /\ u.block[b].modified = t.block[b].modified
          /\ \A y : \/ y \in u.lost
                    \/ y \in Held(u.block[b]) <=>
                           y \in Held(t.block[b]) \/ y = stored[x]
          /\ Lands(t, u, b, stored[x])
      <3> HIDE DEF P, Has, Seats
      <3> QED BY <2>1, ActivateObjectKeeps
    <2>3. body[<<t, x>>] = u
      BY <2>1
    <2> HIDE DEF u, body
    <2>4. Extends(s, u)
      BY <2>1, <2>2, ExtendsOn
    <2>5. u.block[b].modified = s.block[b].modified
      BY <2>1, <2>2
    <2>6. Has(u, w)
      <3>1. t.lost \subseteq u.lost
        BY <2>2 DEF Extends
      <3>2. \A o : (\E j \in w : o = stored[j]) <=>
                       (o = stored[x] \/ \E j \in w \ {x} : o = stored[j])
        OBVIOUS
      <3> QED BY <2>1, <2>2, <3>1, <3>2
    <2>8. Seats(u, w)
      <3> SUFFICES ASSUME NEW B, InHand(s, stored, B)
                   PROVE  Homes(u, (B \ Range(stored)) \cup Done(w))
        OBVIOUS
      <3> DEFINE C == (B \ Range(stored)) \cup Done(w \ {x})
      <3>1. Homes(t, C)
        BY <2>1
      <3>2. stored[x] \in Range(stored) /\ DOMAIN stored = S
        BY DEF Range
      <3>3. ASSUME stored[x] \in Sound(u)
            PROVE  stored[x] \notin C /\ stored[x] \notin killed
        <4>1. stored[x] \in Sound(s)
          BY <2>4, <3>3 DEF Sound, Extends
        <4>2. stored[x] \notin killed /\ Single(stored, stored[x])
          BY <3>2, <4>1 DEF InHand
        <4>3. \A j \in w \ {x} : stored[j] # stored[x]
          BY <4>2 DEF Single
        <4> QED BY <3>2, <4>2, <4>3
      <3>4. (B \ Range(stored)) \cup Done(w) = C \cup {stored[x]}
        OBVIOUS
      <3>5. t \in States /\ u \in States
        BY <2>1, <2>2 DEF Good
      <3> HIDE DEF C, Done
      <3>6. CASE Seated(t, u, stored[x])
        <4>1. Homes(u, C \cup {stored[x]})
          BY <2>1, <3>1, <3>3, <3>5, <3>6, SeatedHomes
        <4> QED BY <3>4, <4>1
      <3>7. CASE /\ SameActive(t, u) /\ u.lost = t.lost
                 /\ Stores(t, u, b, stored[x])
        <4>1. Homes(u, C \cup {stored[x]})
          <5>1. Others(t, u, 0)
            BY <3>7, SameActiveOthers
          <5> QED BY <2>1, <3>1, <3>3, <3>5, <3>7, <5>1, StoredHomes
        <4> QED BY <3>4, <4>1
      <3> QED BY <2>2, <3>6, <3>7 DEF Lands
    <2> HIDE DEF Has, Seats
    <2>7. u \in P[w]
      BY <2>2, <2>4, <2>5, <2>6, <2>8 DEF Good
    <2> QED BY <2>3, <2>7 DEF u
  <1>4. PICK run : /\ IsRun(run, s, body, S)
                   /\ \A w \in SUBSET S : run[w] \in P[w]
    <2> HIDE DEF body, P, Step, S
    <2>1. \A w \in SUBSET S : \A x \in w :
              \A t \in P[w \ {x}] : body[<<t, x>>] \in P[w]
      BY <1>3
    <2> QED BY <1>1, <1>2, <2>1, LoopKeeps
  <1> DEFINE Is(f) == f = [w \in SUBSET S |->
                              IF w = {} THEN s
                              ELSE Step(f[w \ {Max(w)}], Max(w))]
             f == CHOOSE g : Is(g)
  <1>5. Is(run)
    <2>1. ASSUME NEW w \in SUBSET S, w # {}
          PROVE  body[<<run[w \ {Max(w)}], Max(w)>>]
                     = Step(run[w \ {Max(w)}], Max(w))
      <3>1. Max(w) \in w /\ w \ {Max(w)} \in SUBSET S
        BY <1>1, <2>1, Greatest
      <3>2. run[w \ {Max(w)}] \in P[w \ {Max(w)}]
        BY <1>4, <3>1
      <3> HIDE DEF body, P, Step, S
      <3> QED BY <1>3, <3>1, <3>2
    <2> HIDE DEF body, P, Step, S
    <2> QED BY <1>4, <2>1 DEF IsRun
  <1>6. Is(f)
    <2> HIDE DEF Is
    <2> QED BY <1>5
  <1>7. \A w \in SUBSET S : f[w] \in P[w]
    <2> HIDE DEF f, P, Step, S
    <2>1. f[{}] \in P[{}]
      BY <1>2, <1>6
    <2>2. ASSUME NEW w \in SUBSET S, w # {},
                 f[w \ {Max(w)}] \in P[w \ {Max(w)}]
          PROVE  f[w] \in P[w]
      <3>1. Max(w) \in w
        BY <1>1, <2>2, Greatest
      <3>2. f[w] = Step(f[w \ {Max(w)}], Max(w))
        BY <1>6, <2>2
      <3> QED BY <1>3, <2>2, <3>1, <3>2
    <2> HIDE DEF Is
    <2> QED BY <1>1, <2>1, <2>2, RunKeeps
  <1> DEFINE t == AddStored(s, b, stored, spot)
  <1>8. t = f[S]
    BY DEF AddStored, FoldLeft, MapThenFoldSet
  <1>9. f[S] \in P[S]
    BY <1>7
  <1> HIDE DEF f, t
  <1>10. /\ Good(t, 0) /\ Extends(s, t) /\ Synced(t, b)
         /\ t.block[b].loaded /\ t.block[b].modified = s.block[b].modified
         /\ Has(t, S) /\ Seats(t, S)
    <2> HIDE DEF Has, Seats
    <2> QED BY <1>8, <1>9
  <1>11. \A o : o \in Range(stored) <=> \E j \in S : o = stored[j]
    BY DEF Range
  <1>12. ASSUME NEW B, InHand(s, stored, B) PROVE Homes(t, B)
    <2>1. Done(S) = Range(stored)
      BY DEF Range
    <2> HIDE DEF Done
    <2>2. Homes(t, (B \ Range(stored)) \cup Range(stored))
      BY <1>10, <1>12, <2>1
    <2>3. \A o \in Sound(t) :
              o \in (B \ Range(stored)) \cup Range(stored) <=> o \in B
      BY <1>10, <1>12 DEF InHand, Sound, Extends
    <2> QED BY <2>2, <2>3, SameHomes
  <1> HIDE DEF S, Seats
  <1> QED BY <1>10, <1>11, <1>12 DEF t

\* The block without its stored objects.
Emptied(s, b) == [s EXCEPT !.block[b].stored = <<>>]

\* Its active entries stay.
LEMMA EmptiedKeeps ==
    ASSUME NEW s, Good(s, 0), NEW b \in Blocks
    PROVE  LET t == Emptied(s, b)
           IN  /\ Good(t, 0) /\ SameActive(s, t) /\ SameRest(s, t)
               /\ Elsewhere(s, t, b)
               /\ t.block[b].loaded = s.block[b].loaded
               /\ t.block[b].modified = s.block[b].modified
               /\ Held(t.block[b]) = Range(s.block[b].active)
               /\ s.block[b].loaded => Listed(t, b) = <<>>
               /\ \A c \in Blocks \ {b} : Listed(t, c) = Listed(s, c)
  <1> DEFINE t == Emptied(s, b)
             m == s.block[b]
             n == [m EXCEPT !.stored = <<>>]
  <1>1. m \in MapBlocks
    BY DEF States, Good
  <1>2. /\ n \in MapBlocks /\ n.active = m.active /\ n.stored = <<>>
        /\ n.loaded = m.loaded /\ n.modified = m.modified
    <2>1. <<>> \in Seq(Objects)
      OBVIOUS
    <2> QED BY <1>1, <2>1 DEF MapBlocks
  <1>3. t = [s EXCEPT !.block[b] = n]
    BY DEF Emptied
  <1>4. /\ t \in States
        /\ t.objects = s.objects /\ SameRest(s, t)
        /\ \A c \in Blocks : c # b => t.block[c] = s.block[c]
        /\ t.block[b] = n
    <2> HIDE DEF n, t
    <2> QED BY <1>2, <1>3, PutBlock DEF Good, SameRest
  <1> HIDE DEF n, t
  <1>5. SameActive(s, t) /\ Unused(t)
    BY <1>2, <1>4 DEF SameActive, Unused, Good
  <1>6. Good(t, 0)
    BY <1>4, <1>5, SameActiveKeeps DEF Good
  <1>7. Held(t.block[b]) = Range(s.block[b].active)
    BY <1>2, <1>4 DEF Held, Range
  <1>8. /\ s.block[b].loaded => Listed(t, b) = <<>>
        /\ \A c \in Blocks \ {b} : Listed(t, c) = Listed(s, c)
    BY <1>2, <1>4 DEF Listed
  <1> QED BY <1>2, <1>4, <1>5, <1>6, <1>7, <1>8 DEF t, Elsewhere

\* The objects of the block are not to be deactivated any more.
Kept(s, b) ==
    [s EXCEPT !.objects =
        [id \in DOMAIN @ |-> IF id \in DOMAIN s.block[b].active
                             THEN [@[id] EXCEPT !.pending = FALSE] ELSE @[id]]]

\* It is no matter to the entries.
LEMMA KeptKeeps ==
    ASSUME NEW s, Good(s, 0), NEW b \in Blocks
    PROVE  LET t == Kept(s, b)
           IN  /\ Good(t, 0) /\ Extends(s, t) /\ t.block = s.block
               /\ t.lost = s.lost /\ Keeps(s, t)
  <1> DEFINE t == Kept(s, b)
             p == [id \in DOMAIN s.objects |->
                      IF id \in DOMAIN s.block[b].active
                      THEN [s.objects[id] EXCEPT !.pending = FALSE]
                      ELSE s.objects[id]]
  <1>1. s \in States /\ s.objects \in Maps(ActiveObject)
    BY DEF Good, States
  <1>2. PICK I \in SUBSET Ids : s.objects \in [I -> ActiveObject]
    BY <1>1 DEF Maps
  <1>3. ASSUME NEW id \in I
        PROVE  /\ p[id] \in ActiveObject
               /\ p[id].obj = s.objects[id].obj
               /\ p[id].static_block = s.objects[id].static_block
               /\ p[id].known_by_count = s.objects[id].known_by_count
               /\ p[id].removed = s.objects[id].removed
               /\ p[id].ghost = s.objects[id].ghost
               /\ p[id].pending = IF id \in DOMAIN s.block[b].active
                                  THEN FALSE ELSE s.objects[id].pending
    <2>1. s.objects[id] \in ActiveObject
      BY <1>2
    <2> QED BY <1>2, <2>1 DEF ActiveObject
  <1>4. DOMAIN p = I /\ p \in [I -> ActiveObject]
    BY <1>2, <1>3
  <1>5. t = [s EXCEPT !.objects = p]
    BY DEF Kept
  <1> HIDE DEF p, t
  <1>6. p \in Maps(ActiveObject)
    BY <1>4 DEF Maps
  <1>7. /\ t \in States /\ t.objects = p /\ t.block = s.block
        /\ t.lost = s.lost /\ t.force = s.force
    BY <1>1, <1>5, <1>6 DEF States
  <1>8. DOMAIN s.objects = I /\ DOMAIN t.objects = I
    BY <1>2, <1>4, <1>7
  <1>9. Good(t, 0)
    <2>1. ASSUME NEW c \in Blocks, NEW id \in DOMAIN t.block[c].active, id # 0
          PROVE  /\ id \in DOMAIN t.objects
                 /\ t.objects[id].static_block = c
                 /\ t.objects[id].obj = t.block[c].active[id]
                 /\ ~t.objects[id].ghost
      <3>1. /\ id \in DOMAIN s.objects
            /\ s.objects[id].static_block = c
            /\ s.objects[id].obj = s.block[c].active[id]
            /\ ~s.objects[id].ghost
        BY <1>7, <2>1 DEF Good, MatchBut
      <3> QED BY <1>3, <1>7, <1>8, <3>1
    <2>2. ASSUME NEW id \in DOMAIN t.objects, id # 0, t.objects[id].ghost
          PROVE  t.objects[id].pending
      <3>1. s.objects[id].ghost /\ id \in DOMAIN s.objects
        BY <1>3, <1>7, <1>8, <2>2
      <3>2. id \notin DOMAIN s.block[b].active /\ s.objects[id].pending
        BY <2>2, <3>1 DEF Good, MatchBut
      <3> QED BY <1>3, <1>7, <1>8, <3>1, <3>2
    <2> QED BY <1>7, <2>1, <2>2 DEF Good, Unused, MatchBut
  <1>10. Extends(s, t)
    BY <1>3, <1>7, <1>8 DEF Extends, Grows
  <1>11. SameLists(s, t) /\ \A id : Entered(t, id) = Entered(s, id)
    BY <1>7 DEF SameLists, Listed, Entered
  <1>12. Keeps(s, t)
    BY <1>3, <1>7, <1>8, <1>11, AlikeKeeps
  <1> QED BY <1>7, <1>9, <1>10, <1>12 DEF t

\* activateObjects does not raise the flag of the block: that its data is as on
\* disk is because each object that on_activate leaves in the block moved from
\* one list to the other.
LEMMA ActivateObjectsKeeps ==
    ASSUME NEW s, Good(s, 0), NEW b \in Blocks, Synced(s, None), DiskOK,
           NEW spot, Spotted(spot)
    PROVE  /\ Good(ActivateObjects(s, b, spot), 0)
           /\ Extends(s, ActivateObjects(s, b, spot))
           /\ Synced(ActivateObjects(s, b, spot), None)
           /\ Keeps(s, ActivateObjects(s, b, spot))
  <1> DEFINE stored == s.block[b].stored
             e == Emptied(s, b)
             added == AddStored(e, b, stored, spot)
             d == [e EXCEPT !.lost = @ \cup Range(stored)]
             w == Raise(d, b, MOD_STATE_WRITE_NEEDED)
             k == Kept(added, b)
             t == ActivateObjects(s, b, spot)
  <1>1. \/ stored = <<>> /\ t = s
        \/ stored # <<>> /\ t = w
        \/ stored # <<>> /\ t = k
    BY Zenon DEF ActivateObjects, Emptied, AddStored, Kept
  <1>2. CASE t = s
    <2>1. Extends(s, s) /\ Keeps(s, s)
      BY DEF Extends, Grows, Keeps
    <2> QED BY <1>2, <2>1
  <1>3. ASSUME stored # <<>> PROVE s.block[b].loaded
    BY <1>3 DEF Good, Unused
  <1>4. stored \in Seq(Objects) /\ Range(stored) \in SUBSET Objects
    <2>1. stored \in Seq(Objects)
      BY DEF Good, States, MapBlocks
    <2> HIDE DEF stored
    <2> QED BY <2>1 DEF Range
  <1>5. /\ Good(e, 0) /\ SameActive(s, e) /\ SameRest(s, e)
        /\ Elsewhere(s, e, b)
        /\ e.block[b].loaded = s.block[b].loaded
        /\ e.block[b].modified = s.block[b].modified
        /\ Held(e.block[b]) = Range(s.block[b].active)
        /\ s.block[b].loaded => Listed(e, b) = <<>>
        /\ \A c \in Blocks \ {b} : Listed(e, c) = Listed(s, c)
    BY EmptiedKeeps
  <1> HIDE DEF e
  <1>8. s.block[b].loaded => Listed(s, b) = stored
    BY DEF Listed
  <1>6. CASE stored # <<>> /\ t = w
    <2>1. /\ d \in States /\ d.objects = e.objects /\ d.block = e.block
          /\ d.force = e.force /\ d.lost = e.lost \cup Range(stored)
      BY <1>4, <1>5 DEF Good, States
    <2> HIDE DEF d
    <2>2. Good(d, 0) /\ SameActive(e, d) /\ SameLists(e, d)
      BY <1>5, <2>1, SameWorldKeeps
    <2>3. /\ Good(w, 0) /\ SameActive(d, w) /\ SameRest(d, w)
          /\ SameLists(d, w)
      BY <2>2, RaiseKeeps, LevelsAre
    <2>4. Synced(w, None)
      <3>1. Synced(d, b)
        BY <1>5, <2>1, ChangeSyncs DEF Elsewhere, SameRest
      <3> QED BY <2>2, <3>1, RaiseSyncs, LevelsAre
    <2> HIDE DEF w
    <2>7. ASSUME NEW B, Homes(s, B) PROVE Homes(w, B)
      <3>1. /\ s \in States /\ d \in States
            /\ s.lost \subseteq d.lost
        BY <1>5, <2>1 DEF Good, SameRest
      <3>2. Others(s, d, 0)
        <4>1. SameActive(s, d)
          BY <1>5, <2>2 DEF SameActive
        <4> QED BY <4>1, SameActiveOthers
      <3>3. /\ Listed(d, b) = <<>>
            /\ \A c \in Blocks \ {b} : Listed(d, c) = Listed(s, c)
        BY <1>3, <1>5, <1>6, <2>2 DEF SameLists
      <3>4. Homes(d, B \ Range(stored))
        <4> HIDE DEF stored
        <4>1. Homes(d, B \ Range(Listed(s, b)))
          BY <2>7, <3>1, <3>2, <3>3, EmptiedHomes
        <4> QED BY <1>3, <1>6, <1>8, <4>1
      <3>5. \A o \in Sound(d) : o \in B \ Range(stored) <=> o \in B
        BY <2>1 DEF Sound
      <3>6. Homes(d, B)
        <4> HIDE DEF stored
        <4> QED BY <3>4, <3>5, SameHomes
      <3>7. Keeps(d, w)
        BY <2>3, SameActiveHomes DEF SameRest
      <3> QED BY <3>6, <3>7 DEF Keeps
    <2>5. w.objects = s.objects /\ w.force = s.force /\ s.lost \subseteq w.lost
      BY <1>5, <2>1, <2>3 DEF SameActive, SameRest
    <2>6. Extends(s, w)
      BY <2>5 DEF Extends, Grows
    <2> QED BY <1>6, <2>3, <2>4, <2>6, <2>7 DEF Keeps
  <1>7. CASE stored # <<>> /\ t = k
    <2>1. s.block[b].loaded /\ e.block[b].loaded
      BY <1>3, <1>5, <1>7
    <2>s. Synced(e, b)
      BY <1>5, ChangeSyncs DEF Elsewhere, SameRest
    <2>2. /\ Good(added, 0) /\ Extends(e, added) /\ Synced(added, b)
          /\ added.block[b].modified = e.block[b].modified
          /\ \A o : \/ o \in added.lost
                    \/ o \in Held(added.block[b]) <=>
                           o \in Held(e.block[b]) \cup Range(stored)
          /\ \A B : InHand(e, stored, B) => Homes(added, B)
      <3> HIDE DEF stored
      <3> QED BY <1>4, <1>5, <2>1, <2>s, AddStoredKeeps
    <2> HIDE DEF added
    <2>3. /\ Good(k, 0) /\ Extends(added, k) /\ k.block = added.block
          /\ k.lost = added.lost /\ Keeps(added, k)
      BY <2>2, KeptKeeps
    <2> HIDE DEF k
    <2>4. Extends(s, k)
      <3>1. Extends(s, e)
        BY <1>5 DEF SameActive, SameRest, Extends, Grows
      <3> QED BY <2>2, <2>3, <3>1, ExtendsOn
    <2>5. Synced(k, None)
      <3>1. Synced(k, b) /\ k.block[b].modified = s.block[b].modified
        <4>1. Synced(k, b)
          BY <2>2, <2>3, ChangeSyncs
        <4> QED BY <1>5, <2>2, <2>3, <4>1
      <3>2. Held(s.block[b]) = Held(e.block[b]) \cup Range(stored)
        BY <1>5 DEF Held
      <3>3. \A o : o \in k.lost \/ (o \in Held(k.block[b])
                                        <=> o \in Held(s.block[b]))
        BY <2>2, <2>3, <3>2
      <3>4. s.lost \subseteq k.lost
        BY <2>4 DEF Extends
      <3> QED BY <2>1, <3>1, <3>3, <3>4, HeldSyncs
    <2>6. ASSUME NEW B, Homes(s, B) PROVE Homes(k, B)
      <3>1. s \in States /\ e \in States /\ s.lost = e.lost
        BY <1>5 DEF Good, SameRest
      <3>2. Others(s, e, 0)
        BY <1>5, SameActiveOthers
      <3> HIDE DEF stored
      <3>3. InHand(e, stored, B)
        <4>1. /\ Homes(e, B \ Range(Listed(s, b)))
              /\ \A o \in Sound(e) \cap Range(Listed(s, b)) :
                     /\ o \in B /\ o \notin killed
                     /\ Single(Listed(s, b), o)
          BY <1>5, <2>1, <2>6, <3>1, <3>2, EmptiedHomes
        <4> QED BY <1>8, <2>1, <4>1 DEF InHand
      <3> QED BY <2>2, <2>3, <3>3 DEF Keeps
    <2> QED BY <1>7, <2>3, <2>4, <2>5, <2>6 DEF Keeps
  <1> QED BY <1>1, <1>2, <1>6, <1>7

\* The blocks that are not active any more.
Stamp(s, b) ==
    IF s.block[b].loaded THEN Raise(s, b, MOD_STATE_WRITE_AT_UNLOAD) ELSE s
StampAll(s, S) == ForEach(Stamp, s, S)

\* Their flags are raised, nothing else.
LEMMA StampAllKeeps ==
    ASSUME NEW s, Good(s, 0), Synced(s, None), NEW S \in SUBSET Blocks
    PROVE  /\ Good(StampAll(s, S), 0) /\ SameActive(s, StampAll(s, S))
           /\ SameRest(s, StampAll(s, S)) /\ Synced(StampAll(s, S), None)
           /\ Keeps(s, StampAll(s, S))
  <1> DEFINE Step(t, x) == Stamp(t, x)
             body == [x \in States \X Blocks |-> Step(x[1], x[2])]
             P == [w \in SUBSET S |->
                      {t \in States : /\ Good(t, 0) /\ SameActive(s, t)
                                      /\ SameRest(s, t) /\ Synced(t, None)
                                      /\ SameLists(s, t)}]
  <1>1. LastBlock \in Nat /\ S \in SUBSET (0 .. LastBlock) /\ s \in States
    BY ActiveObjectsConstants DEF Good, Blocks
  <1>2. s \in P[{}]
    BY <1>1 DEF SameActive, SameRest, SameLists
  <1>3. ASSUME NEW w \in SUBSET S, NEW x \in w, NEW t \in P[w \ {x}]
        PROVE  Step(t, x) \in P[w] /\ body[<<t, x>>] = Step(t, x)
    <2>1. /\ t \in States /\ Good(t, 0) /\ SameActive(s, t)
          /\ SameRest(s, t) /\ Synced(t, None) /\ x \in Blocks
          /\ SameLists(s, t)
      BY <1>1
    <2> DEFINE u == Raise(t, x, MOD_STATE_WRITE_AT_UNLOAD)
    <2>2. /\ Good(u, 0) /\ SameActive(t, u) /\ SameRest(t, u)
          /\ SameLists(t, u)
      BY <2>1, RaiseKeeps, LevelsAre
    <2>3. Synced(u, None)
      BY <2>1, RaiseSyncs, LevelsAre
    <2>4. body[<<t, x>>] = Step(t, x)
      BY <2>1
    <2> HIDE DEF u, body
    <2>5. u \in P[w]
      BY <2>1, <2>2, <2>3 DEF Good, SameActive, SameRest, SameLists
    <2>6. t \in P[w]
      BY <2>1
    <2>7. Step(t, x) = u \/ Step(t, x) = t
      BY DEF Stamp, u
    <2> HIDE DEF P, Step
    <2> QED BY <2>4, <2>5, <2>6, <2>7
  <1>4. PICK run : /\ IsRun(run, s, body, S)
                   /\ \A w \in SUBSET S : run[w] \in P[w]
    <2> HIDE DEF body, P, Step
    <2>1. \A w \in SUBSET S : \A x \in w :
              \A t \in P[w \ {x}] : body[<<t, x>>] \in P[w]
      BY <1>3
    <2> QED BY <1>1, <1>2, <2>1, LoopKeeps
  <1> DEFINE Is(f) == f = [w \in SUBSET S |->
                              IF w = {} THEN s
                              ELSE Step(f[w \ {Max(w)}], Max(w))]
             f == CHOOSE g : Is(g)
  <1>5. Is(run)
    <2>1. ASSUME NEW w \in SUBSET S, w # {}
          PROVE  body[<<run[w \ {Max(w)}], Max(w)>>]
                     = Step(run[w \ {Max(w)}], Max(w))
      <3>1. Max(w) \in w /\ w \ {Max(w)} \in SUBSET S
        BY <1>1, <2>1, Greatest
      <3>2. run[w \ {Max(w)}] \in P[w \ {Max(w)}]
        BY <1>4, <3>1
      <3> HIDE DEF body, P, Step
      <3> QED BY <1>3, <3>1, <3>2
    <2> HIDE DEF body, P, Step
    <2> QED BY <1>4, <2>1 DEF IsRun
  <1>6. Is(f)
    <2> HIDE DEF Is
    <2> QED BY <1>5
  <1>7. \A w \in SUBSET S : f[w] \in P[w]
    <2> HIDE DEF f, P, Step
    <2>1. f[{}] \in P[{}]
      BY <1>2, <1>6
    <2>2. ASSUME NEW w \in SUBSET S, w # {},
                 f[w \ {Max(w)}] \in P[w \ {Max(w)}]
          PROVE  f[w] \in P[w]
      <3>1. Max(w) \in w
        BY <1>1, <2>2, Greatest
      <3>2. f[w] = Step(f[w \ {Max(w)}], Max(w))
        BY <1>6, <2>2
      <3> QED BY <1>3, <2>2, <3>1, <3>2
    <2> HIDE DEF Is
    <2> QED BY <1>1, <2>1, <2>2, RunKeeps
  <1>8. StampAll(s, S) = f[S]
    BY DEF StampAll, ForEach, MapThenFoldSet
  <1>9. f[S] \in P[S]
    BY <1>7
  <1>10. Keeps(s, f[S])
    <2> HIDE DEF f
    <2> QED BY <1>9, SameActiveHomes DEF SameRest
  <1> QED BY <1>8, <1>9, <1>10

\* The blocks that are active now and were not.
ActivateBlock(s, b, spot) ==
    IF s.block[b].loaded THEN ActivateObjects(s, b, spot) ELSE s
ActivateAll(s, S, spot) ==
    ForEach(LAMBDA t, b : ActivateBlock(t, b, spot), s, S)

\* One block after the other.
LEMMA ActivateAllKeeps ==
    ASSUME NEW s, Good(s, 0), Synced(s, None), NEW S \in SUBSET Blocks, DiskOK,
           NEW spot, Spotted(spot)
    PROVE  LET t == ActivateAll(s, S, spot)
           IN  Good(t, 0) /\ Extends(s, t) /\ Synced(t, None) /\ Keeps(s, t)
  <1> DEFINE Step(t, x) == ActivateBlock(t, x, spot)
             body == [x \in States \X Blocks |-> Step(x[1], x[2])]
             P == [w \in SUBSET S |->
                      {t \in States : /\ Good(t, 0) /\ Extends(s, t)
                                      /\ Synced(t, None) /\ Keeps(s, t)}]
  <1>1. LastBlock \in Nat /\ S \in SUBSET (0 .. LastBlock) /\ s \in States
    BY ActiveObjectsConstants DEF Good, Blocks
  <1>2. s \in P[{}]
    <2>1. Extends(s, s) /\ Keeps(s, s)
      BY DEF Extends, Grows, Keeps
    <2> QED BY <1>1, <2>1
  <1>3. ASSUME NEW w \in SUBSET S, NEW x \in w, NEW t \in P[w \ {x}]
        PROVE  Step(t, x) \in P[w] /\ body[<<t, x>>] = Step(t, x)
    <2>1. /\ t \in States /\ Good(t, 0) /\ Extends(s, t)
          /\ Synced(t, None) /\ Keeps(s, t) /\ x \in Blocks
      BY <1>1
    <2> DEFINE u == Step(t, x)
    <2>2. Good(u, 0) /\ Extends(t, u) /\ Synced(u, None) /\ Keeps(t, u)
      <3>1. Extends(t, t) /\ Keeps(t, t)
        BY DEF Extends, Grows, Keeps
      <3> QED BY <2>1, <3>1, ActivateObjectsKeeps DEF ActivateBlock
    <2>3. body[<<t, x>>] = u
      BY <2>1
    <2> HIDE DEF u, body
    <2>4. Extends(s, u) /\ Keeps(s, u)
      BY <2>1, <2>2, ExtendsOn, KeepsOn
    <2>5. u \in P[w]
      BY <2>2, <2>4 DEF Good
    <2> QED BY <2>3, <2>5 DEF u
  <1>4. PICK run : /\ IsRun(run, s, body, S)
                   /\ \A w \in SUBSET S : run[w] \in P[w]
    <2> HIDE DEF body, P, Step
    <2>1. \A w \in SUBSET S : \A x \in w :
              \A t \in P[w \ {x}] : body[<<t, x>>] \in P[w]
      BY <1>3
    <2> QED BY <1>1, <1>2, <2>1, LoopKeeps
  <1> DEFINE Is(f) == f = [w \in SUBSET S |->
                              IF w = {} THEN s
                              ELSE Step(f[w \ {Max(w)}], Max(w))]
             f == CHOOSE g : Is(g)
  <1>5. Is(run)
    <2>1. ASSUME NEW w \in SUBSET S, w # {}
          PROVE  body[<<run[w \ {Max(w)}], Max(w)>>]
                     = Step(run[w \ {Max(w)}], Max(w))
      <3>1. Max(w) \in w /\ w \ {Max(w)} \in SUBSET S
        BY <1>1, <2>1, Greatest
      <3>2. run[w \ {Max(w)}] \in P[w \ {Max(w)}]
        BY <1>4, <3>1
      <3> HIDE DEF body, P, Step
      <3> QED BY <1>3, <3>1, <3>2
    <2> HIDE DEF body, P, Step
    <2> QED BY <1>4, <2>1 DEF IsRun
  <1>6. Is(f)
    <2> HIDE DEF Is
    <2> QED BY <1>5
  <1>7. \A w \in SUBSET S : f[w] \in P[w]
    <2> HIDE DEF f, P, Step
    <2>1. f[{}] \in P[{}]
      BY <1>2, <1>6
    <2>2. ASSUME NEW w \in SUBSET S, w # {},
                 f[w \ {Max(w)}] \in P[w \ {Max(w)}]
          PROVE  f[w] \in P[w]
      <3>1. Max(w) \in w
        BY <1>1, <2>2, Greatest
      <3>2. f[w] = Step(f[w \ {Max(w)}], Max(w))
        BY <1>6, <2>2
      <3> QED BY <1>3, <2>2, <3>1, <3>2
    <2> HIDE DEF Is
    <2> QED BY <1>1, <2>1, <2>2, RunKeeps
  <1>8. ActivateAll(s, S, spot) = f[S]
    BY DEF ActivateAll, ForEach, MapThenFoldSet
  <1>9. f[S] \in P[S]
    BY <1>7
  <1> QED BY <1>8, <1>9

\* removeRemovedObjects.
RemoveAll(s) == ForEach(RemoveObject, s, DOMAIN s.objects)

\* Only objects that no client knows are erased.
LEMMA RemoveAllKeeps ==
    ASSUME NEW s, Good(s, 0), Synced(s, None), DiskOK
    PROVE  /\ Good(RemoveAll(s), 0) /\ Shrinks(s, RemoveAll(s))
           /\ SameRest(s, RemoveAll(s)) /\ Synced(RemoveAll(s), None)
           /\ Keeps(s, RemoveAll(s))
  <1> DEFINE Step(t, x) == RemoveObject(t, x)
             S == DOMAIN s.objects
             body == [x \in States \X Ids |-> Step(x[1], x[2])]
             P == [w \in SUBSET S |->
                      {t \in States : /\ Good(t, 0) /\ Shrinks(s, t)
                                      /\ SameRest(s, t) /\ Synced(t, None)
                                      /\ Keeps(s, t)
                                      /\ S \ w \subseteq DOMAIN t.objects}]
  <1>1. /\ MaxId \in Nat /\ S \in SUBSET (0 .. MaxId) /\ S \in SUBSET Ids
        /\ s \in States
    BY IdsAreNumbers DEF Good, States, Maps
  <1>2. s \in P[{}]
    <2>1. Shrinks(s, s) /\ SameRest(s, s) /\ Keeps(s, s)
      BY DEF Shrinks, SameRest, Keeps
    <2> QED BY <1>1, <2>1
  <1>3. ASSUME NEW w \in SUBSET S, NEW x \in w, NEW t \in P[w \ {x}]
        PROVE  Step(t, x) \in P[w] /\ body[<<t, x>>] = Step(t, x)
    <2>1. /\ t \in States /\ Good(t, 0) /\ Shrinks(s, t) /\ SameRest(s, t)
          /\ Synced(t, None) /\ Keeps(s, t)
          /\ S \ (w \ {x}) \subseteq DOMAIN t.objects /\ x \in Ids
      BY <1>1
    <2>2. x \in DOMAIN t.objects
      BY <2>1
    <2> DEFINE u == Step(t, x)
    <2>3. /\ Good(u, 0) /\ Touches(t, u, x) /\ SameRest(t, u)
          /\ Synced(u, None) /\ Settles(t, u, x)
      BY <2>1, <2>2, RemoveObjectKeeps
    <2>4. body[<<t, x>>] = u
      BY <2>1
    <2> HIDE DEF u, body
    <2>5. Shrinks(s, u) /\ SameRest(s, u)
      BY <2>1, <2>3, TouchesShrinks DEF SameRest
    <2>6. S \ w \subseteq DOMAIN u.objects
      BY <2>1, <2>3 DEF Touches
    <2>8. Keeps(s, u)
      <3>1. Keeps(t, u)
        BY <2>1, <2>2, <2>3, SettlesKeeps DEF Good
      <3> QED BY <2>1, <3>1, KeepsOn
    <2>7. u \in P[w]
      BY <2>3, <2>5, <2>6, <2>8 DEF Good
    <2> QED BY <2>4, <2>7 DEF u
  <1>4. PICK run : /\ IsRun(run, s, body, S)
                   /\ \A w \in SUBSET S : run[w] \in P[w]
    <2> HIDE DEF body, P, Step, S
    <2>1. \A w \in SUBSET S : \A x \in w :
              \A t \in P[w \ {x}] : body[<<t, x>>] \in P[w]
      BY <1>3
    <2> QED BY <1>1, <1>2, <2>1, LoopKeeps
  <1> DEFINE Is(f) == f = [w \in SUBSET S |->
                              IF w = {} THEN s
                              ELSE Step(f[w \ {Max(w)}], Max(w))]
             f == CHOOSE g : Is(g)
  <1>5. Is(run)
    <2>1. ASSUME NEW w \in SUBSET S, w # {}
          PROVE  body[<<run[w \ {Max(w)}], Max(w)>>]
                     = Step(run[w \ {Max(w)}], Max(w))
      <3>1. Max(w) \in w /\ w \ {Max(w)} \in SUBSET S
        BY <1>1, <2>1, Greatest
      <3>2. run[w \ {Max(w)}] \in P[w \ {Max(w)}]
        BY <1>4, <3>1
      <3> HIDE DEF body, P, Step, S
      <3> QED BY <1>3, <3>1, <3>2
    <2> HIDE DEF body, P, Step, S
    <2> QED BY <1>4, <2>1 DEF IsRun
  <1>6. Is(f)
    <2> HIDE DEF Is
    <2> QED BY <1>5
  <1>7. \A w \in SUBSET S : f[w] \in P[w]
    <2> HIDE DEF f, P, Step, S
    <2>1. f[{}] \in P[{}]
      BY <1>2, <1>6
    <2>2. ASSUME NEW w \in SUBSET S, w # {},
                 f[w \ {Max(w)}] \in P[w \ {Max(w)}]
          PROVE  f[w] \in P[w]
      <3>1. Max(w) \in w
        BY <1>1, <2>2, Greatest
      <3>2. f[w] = Step(f[w \ {Max(w)}], Max(w))
        BY <1>6, <2>2
      <3> QED BY <1>3, <2>2, <3>1, <3>2
    <2> HIDE DEF Is
    <2> QED BY <1>1, <2>1, <2>2, RunKeeps
  <1>8. RemoveAll(s) = f[S]
    BY DEF RemoveAll, ForEach, MapThenFoldSet
  <1>9. f[S] \in P[S]
    BY <1>7
  <1> QED BY <1>8, <1>9

\* The elements of a sequence and one more.
LEMMA Appended ==
    ASSUME NEW T, NEW q \in Seq(T), NEW e \in T
    PROVE  Append(q, e) \in Seq(T) /\ Range(Append(q, e)) = Range(q) \cup {e}
  <1> DEFINE r == Append(q, e)
  <1>1. /\ r \in Seq(T) /\ Len(q) \in Nat /\ DOMAIN q = 1 .. Len(q)
        /\ DOMAIN r = 1 .. Len(q) + 1 /\ r[Len(q) + 1] = e
        /\ \A i \in 1 .. Len(q) : r[i] = q[i]
    OBVIOUS
  <1> HIDE DEF r
  <1>2. ASSUME NEW y PROVE y \in Range(r) <=> y \in Range(q) \cup {e}
    <2>1. y \in Range(r) <=> \E i \in 1 .. Len(q) + 1 : y = r[i]
      BY <1>1 DEF Range
    <2>2. y \in Range(q) <=> \E i \in 1 .. Len(q) : y = q[i]
      BY <1>1 DEF Range
    <2> QED BY <1>1, <2>1, <2>2
  <1> QED BY <1>1, <1>2 DEF r

\* The block has the object once.
Alone(m, o) ==
    /\ Single(m.stored, o)
    /\ \A i, j \in DOMAIN m.active : m.active[i] = o /\ m.active[j] = o => i = j
    /\ o \in Range(m.stored) => o \notin Range(m.active)

\* What is written to disk is what the block has, and what it has once is
\* written once.
LEMMA SerializeIs ==
    ASSUME NEW m \in MapBlocks
    PROVE  /\ Serialize(m) \in Seq(Objects) /\ Range(Serialize(m)) = Held(m)
           /\ \A o : Alone(m, o) => Single(Serialize(m), o)
           /\ DOMAIN m.active = {} => Serialize(m) = m.stored
  <1> DEFINE Step(t, x) == Append(t, m.active[x])
             S == DOMAIN m.active
             body == [x \in Seq(Objects) \X Ids |-> Step(x[1], x[2])]
             Singles(t) == \A o : Alone(m, o) => Single(t, o)
             P == [w \in SUBSET S |->
                      {t \in Seq(Objects) :
                          /\ \A o : o \in Range(t) <=>
                                       \/ o \in Range(m.stored)
                                       \/ \E j \in w : o = m.active[j]
                          /\ Singles(t)}]
  <1>1. /\ MaxId \in Nat /\ S \in SUBSET (0 .. MaxId) /\ S \in SUBSET Ids
        /\ m.stored \in Seq(Objects) /\ \A x \in S : m.active[x] \in Objects
    BY ActiveObjectsConstants DEF MapBlocks, Maps, Ids
  <1>2. m.stored \in P[{}]
    BY <1>1 DEF Alone
  <1>3. ASSUME NEW w \in SUBSET S, NEW x \in w, NEW t \in P[w \ {x}]
        PROVE  Step(t, x) \in P[w] /\ body[<<t, x>>] = Step(t, x)
    <2>1. /\ t \in Seq(Objects) /\ x \in Ids /\ m.active[x] \in Objects
          /\ \A o : o \in Range(t) <=>
                     \/ o \in Range(m.stored)
                     \/ \E j \in w \ {x} : o = m.active[j]
          /\ Singles(t)
      <3> HIDE DEF Singles
      <3> QED BY <1>1
    <2> DEFINE u == Step(t, x)
    <2>2. u \in Seq(Objects) /\ Range(u) = Range(t) \cup {m.active[x]}
      BY <2>1, Appended
    <2>3. body[<<t, x>>] = u
      BY <2>1
    <2> HIDE DEF u, body
    <2>4. \A o : o \in Range(u) <=> \/ o \in Range(m.stored)
                                    \/ \E j \in w : o = m.active[j]
      BY <2>1, <2>2
    <2>6. Singles(u)
      <3> SUFFICES ASSUME NEW o, Alone(m, o) PROVE Single(u, o)
        OBVIOUS
      <3>1. Single(t, o)
        BY <2>1
      <3>2. CASE o # m.active[x]
        BY <2>1, <3>1, <3>2, OneMore DEF u
      <3>3. CASE o = m.active[x]
        <4>1. o \in Range(m.active)
          BY <3>3 DEF Range
        <4>2. o \notin Range(t)
          BY <2>1, <3>3, <4>1 DEF Alone
        <4> QED BY <2>1, <3>3, <4>2, OneMore DEF u
      <3> QED BY <3>2, <3>3
    <2> HIDE DEF Singles
    <2>5. u \in P[w]
      BY <2>2, <2>4, <2>6
    <2> QED BY <2>3, <2>5 DEF u
  <1>4. PICK run : /\ IsRun(run, m.stored, body, S)
                   /\ \A w \in SUBSET S : run[w] \in P[w]
    <2> HIDE DEF body, P, Step, S
    <2>1. \A w \in SUBSET S : \A x \in w :
              \A t \in P[w \ {x}] : body[<<t, x>>] \in P[w]
      BY <1>3
    <2> QED BY <1>1, <1>2, <2>1, LoopKeeps
  <1> DEFINE Is(f) == f = [w \in SUBSET S |->
                              IF w = {} THEN m.stored
                              ELSE Step(f[w \ {Max(w)}], Max(w))]
             f == CHOOSE g : Is(g)
  <1>5. Is(run)
    <2>1. ASSUME NEW w \in SUBSET S, w # {}
          PROVE  body[<<run[w \ {Max(w)}], Max(w)>>]
                     = Step(run[w \ {Max(w)}], Max(w))
      <3>1. Max(w) \in w /\ w \ {Max(w)} \in SUBSET S
        BY <1>1, <2>1, Greatest
      <3>2. run[w \ {Max(w)}] \in P[w \ {Max(w)}]
        BY <1>4, <3>1
      <3> HIDE DEF body, P, Step, S
      <3> QED BY <1>3, <3>1, <3>2
    <2> HIDE DEF body, P, Step, S
    <2> QED BY <1>4, <2>1 DEF IsRun
  <1>6. Is(f)
    <2> HIDE DEF Is
    <2> QED BY <1>5
  <1>7. \A w \in SUBSET S : f[w] \in P[w]
    <2> HIDE DEF f, P, Step, S
    <2>1. f[{}] \in P[{}]
      BY <1>2, <1>6
    <2>2. ASSUME NEW w \in SUBSET S, w # {},
                 f[w \ {Max(w)}] \in P[w \ {Max(w)}]
          PROVE  f[w] \in P[w]
      <3>1. Max(w) \in w
        BY <1>1, <2>2, Greatest
      <3>2. f[w] = Step(f[w \ {Max(w)}], Max(w))
        BY <1>6, <2>2
      <3> QED BY <1>3, <2>2, <3>1, <3>2
    <2> HIDE DEF Is
    <2> QED BY <1>1, <2>1, <2>2, RunKeeps
  <1>8. Serialize(m) = f[S]
    BY DEF Serialize, ForEach, MapThenFoldSet
  <1>9. f[S] \in P[S]
    BY <1>7
  <1>10. \A o : o \in Range(m.active) <=> \E j \in S : o = m.active[j]
    BY DEF Range
  <1>13. S = {} => f[S] = m.stored
    <2> HIDE DEF f, S
    <2> QED BY <1>6
  <1>14. Singles(f[S]) /\ f[S] \in Seq(Objects)
    <2> HIDE DEF f, S, Singles
    <2> QED BY <1>9
  <1> HIDE DEF f
  <1>15. \A o : Alone(m, o) => Single(Serialize(m), o)
    BY <1>8, <1>14
  <1> HIDE DEF S
  <1>11. \A o : o \in Range(Serialize(m)) <=> o \in Held(m)
    BY <1>8, <1>9, <1>10 DEF Held
  <1>12. Range(Serialize(m)) = Held(m)
    BY <1>11
  <1>16. DOMAIN m.active = {} => Serialize(m) = m.stored
    BY <1>8, <1>13 DEF S
  <1> QED BY <1>8, <1>12, <1>14, <1>15, <1>16

-----------------------------------------------------------------------------
(***************************************************************************)
(* The inductive invariant: types, entries and flags, counts, and homes.   *)
(***************************************************************************)
\* The record of the state between two steps: nothing is forced, nothing lost.
World == State(FALSE)

\* What each variable has.
TypeInv ==
    /\ World \in States
    /\ m_active_blocks \in SUBSET Blocks
    /\ DiskOK
    /\ known \in [Clients -> SUBSET [id : Ids, obj : Objects]]
    /\ born \in SUBSET Objects /\ killed \in SUBSET Objects
    /\ exempt \in SUBSET Objects
    /\ forced \in SUBSET Ids
    /\ nevents \in 0 .. MaxEvents

\* Every entry is of the object it should be of, and what will not be saved is
\* as on disk.
WorldInv == Good(World, 0) /\ Synced(World, None)

\* The database has an object once in a block.
DiskOnce ==
    \A o \in Objects \ exempt : \A b \in DOMAIN disk :
        Single(disk[b], o) /\ (o \in Range(disk[b]) => o \in born)

\* Every object that there has been, is not exempt and was not killed has one
\* home; one that was killed is active as long as it is anywhere.
HomeInv ==
    /\ Homes(World, born)
    /\ DiskOnce
    /\ killed \subseteq born \cup exempt

\* The clients that know the id.
Knowers(id) == {c \in Clients : \E k \in known[c] : k.id = id}

(***************************************************************************)
(* The count of an object is the number of clients that know its id, and   *)
(* they were told of this object; an id that is free is known to none. It  *)
(* is this count, exact although it is kept by both ends (SendObjects,     *)
(* Leave), that keeps RemoveRemovedObjects and deactivation from freeing an*)
(* id that a client knows. Not so for the ids that force_delete freed:     *)
(* theirs is counted from 0 when given again.                              *)
(***************************************************************************)
KnownInv ==
    \A id \in Ids \ forced :
        IF id \in DOMAIN m_active_objects
        THEN /\ m_active_objects[id].known_by_count = Cardinality(Knowers(id))
             /\ \A c \in Clients : \A k \in known[c] :
                    k.id = id => k.obj = m_active_objects[id].obj
        ELSE Knowers(id) = {}

\* All of it.
Inv == TypeInv /\ WorldInv /\ KnownInv /\ HomeInv

\* The variables in the record.
LEMMA WorldIs ==
    /\ World.objects = m_active_objects /\ World.last = last_used_id
    /\ World.block = block /\ World.force = FALSE /\ World.lost = {}
  BY DEF World, State

\* The world after the functions of the environment made s of it.
LEMMA Becomes ==
    ASSUME NEW s, Good(s, 0), Synced(s, None), Become(s), UNCHANGED disk,
           exempt' = exempt \cup s.lost
    PROVE  WorldInv' /\ World' \in States
  <1>1. PICK w : w = World'
    OBVIOUS
  <1>2. /\ w.objects = s.objects /\ w.last = s.last /\ w.block = s.block
        /\ w.force = FALSE /\ w.lost = {}
        /\ w = [objects |-> w.objects, last |-> w.last, block |-> w.block,
                force |-> w.force, lost |-> w.lost]
    BY <1>1 DEF World, State, Become
  <1>3. w \in States
    BY <1>2 DEF Good, States
  <1>4. Good(w, 0)
    BY <1>2, <1>3, SameWorldKeeps
  <1>5. \A b \in Blocks : w.block[b] = s.block[b]
    BY <1>2
  <1>6. Synced(w, None)'
    BY <1>2, <1>5 DEF Synced
  <1> QED BY <1>1, <1>3, <1>4, <1>6 DEF WorldInv

\* The home of an object after a step that changes the disk, when w is what the
\* world is then.
LEMMA NextHome ==
    ASSUME NEW s, NEW w, NEW o, UNCHANGED killed,
           \A b \in Blocks :
               /\ Single(Listed(s, b), o) => Single(Listed(w, b)', o)
               /\ o \in Range(Listed(w, b)') <=> o \in Range(Listed(s, b)),
           Running(w, o) = Running(s, o),
           \A id \in Running(s, o) :
               /\ HasEntry(s, id) => HasEntry(w, id)
               /\ w.objects[id].removed = s.objects[id].removed
    PROVE  /\ HomeOf(s, o) => HomeOf(w, o)'
           /\ Housed(w, o)' <=> Housed(s, o)
  <1>1. Storing(w, o)' = Storing(s, o)
    BY DEF Storing
  <1>2. Running(w, o)' = Running(s, o)
    BY DEF Running
  <1>3. \A id : HasEntry(w, id)' <=> HasEntry(w, id)
    BY DEF HasEntry, Entered
  <1>4. Housed(w, o)' <=> Housed(s, o)
    BY <1>1, <1>2 DEF Housed
  <1> QED BY <1>1, <1>2, <1>3, <1>4 DEF HomeOf

\* The homes after a step that leaves the disk alone.
LEMMA HomesBecome ==
    ASSUME HomeInv, NEW t, NEW B, Become(t), Homes(t, B), B = born',
           born \subseteq B, UNCHANGED <<disk, killed>>,
           exempt' = exempt \cup t.lost
    PROVE  HomeInv'
  <1>1. PICK w : w = World'
    OBVIOUS
  <1>2. /\ w.objects = t.objects /\ w.block = t.block /\ w.lost = {}
    BY <1>1 DEF World, State, Become
  <1>3. \A b \in Blocks : Listed(w, b)' = Listed(t, b)
    BY <1>2 DEF Listed
  <1>4. Sound(w)' = Sound(t)
    BY <1>2 DEF Sound
  <1>5. ASSUME NEW o \in Sound(t)
        PROVE  /\ HomeOf(t, o) => HomeOf(w, o)'
               /\ Housed(w, o)' <=> Housed(t, o)
    <2>1. Running(w, o) = Running(t, o)
      BY <1>2 DEF Running
    <2>2. \A id : HasEntry(t, id) <=> HasEntry(w, id)
      BY <1>2 DEF HasEntry, Entered
    <2> QED BY <1>2, <1>3, <2>1, <2>2, NextHome
  <1>6. Homes(w, B)'
    BY <1>2, <1>4, <1>5 DEF Homes
  <1>7. Homes(World, born)'
    BY <1>1, <1>6
  <1>8. DiskOnce'
    BY DEF HomeInv, DiskOnce
  <1>9. killed' \subseteq born' \cup exempt'
    BY DEF HomeInv
  <1> QED BY <1>7, <1>8, <1>9 DEF HomeInv

\* The empty map.
LEMMA NothingIs ==
    ASSUME NEW T
    PROVE  Nothing \in Maps(T) /\ DOMAIN Nothing = {} /\ Range(Nothing) = {}
  BY DEF Nothing, Maps, Range

\* A block that is not in memory.
LEMMA UnloadedIs ==
    /\ Unloaded \in MapBlocks
    /\ ~Unloaded.loaded /\ Unloaded.stored = <<>>
    /\ DOMAIN Unloaded.active = {}
  <1>1. <<>> \in Seq(Objects)
    OBVIOUS
  <1> QED BY <1>1, NothingIs, LevelsAre DEF Unloaded, MapBlock, MapBlocks

\* Nothing is in memory.
LEMMA EmptyWorld ==
    ASSUME NEW w, w = [objects |-> Nothing, last |-> 0,
                       block |-> [b \in Blocks |-> Unloaded],
                       force |-> FALSE, lost |-> {}]
    PROVE  Good(w, 0) /\ \A b \in Blocks : ~w.block[b].loaded
  <1>1. /\ w.objects = Nothing /\ w.last = 0
        /\ w.block = [b \in Blocks |-> Unloaded]
    BY Zenon
  <1>2. w \in States
    <2>1. 0 \in 0 .. MaxId
      BY ActiveObjectsConstants
    <2> QED BY <2>1, NothingIs, UnloadedIs DEF States
  <1>3. Unused(w) /\ MatchBut(w, 0)
    <2>1. DOMAIN w.objects = {}
      BY <1>1, NothingIs
    <2>2. \A b \in Blocks : w.block[b] = Unloaded
      BY <1>1
    <2> QED BY <2>1, <2>2, UnloadedIs DEF Unused, MatchBut
  <1> QED BY <1>1, <1>2, <1>3, UnloadedIs DEF Good

\* At first nothing is in memory.
LEMMA InitInv == Init => Inv
  <1> SUFFICES ASSUME Init PROVE Inv
    OBVIOUS
  <1> USE DEF Init
  <1>1. WorldInv /\ World \in States
    <2>1. World = [objects |-> Nothing, last |-> 0,
                   block |-> [b \in Blocks |-> Unloaded],
                   force |-> FALSE, lost |-> {}]
      BY DEF World, State
    <2>2. Good(World, 0) /\ \A b \in Blocks : ~World.block[b].loaded
      BY <2>1, EmptyWorld
    <2> QED BY <2>2 DEF WorldInv, Synced, Good
  <1>2. \A b \in OnDisk : /\ disk[b] \in Seq(Objects)
                          /\ Range(disk[b]) \in SUBSET Objects
    <2>1. (CHOOSE o \in Objects : TRUE) \in Objects
      BY ActiveObjectsConstants
    <2>2. ASSUME NEW o \in Objects
          PROVE  <<o>> \in Seq(Objects) /\ Range(<<o>>) \in SUBSET Objects
      BY DEF Range
    <2>3. <<>> \in Seq(Objects) /\ Range(<<>>) \in SUBSET Objects
      BY DEF Range
    <2> QED BY <2>1, <2>2, <2>3
  <1>3. DOMAIN disk = OnDisk /\ OnDisk \subseteq Blocks
    BY ActiveObjectsConstants DEF Blocks
  <1>4. born \in SUBSET Objects
    BY <1>2
  <1>5. TypeInv
    <2>1. 0 \in 0 .. MaxEvents
      BY ActiveObjectsConstants
    <2> QED BY <1>1, <1>2, <1>3, <1>4, <2>1 DEF TypeInv, DiskOK
  <1>6. KnownInv
    <2>1. \A id : Knowers(id) = {}
      BY DEF Knowers
    <2>2. DOMAIN m_active_objects = {}
      BY NothingIs
    <2> QED BY <2>1, <2>2 DEF KnownInv
  <1>7. HomeInv
    <2> DEFINE first == CHOOSE o \in Objects : TRUE
    <2>1. /\ DOMAIN World.objects = {} /\ World.lost = {}
          /\ \A b \in Blocks : ~World.block[b].loaded
      BY WorldIs, NothingIs, UnloadedIs
    <2>2. \A b \in OnDisk : disk[b] = IF b = 0 THEN <<first>> ELSE <<>>
      OBVIOUS
    <2> HIDE DEF Init, first
    <2>3. \A b \in Blocks :
              Listed(World, b) = IF b \in OnDisk THEN disk[b] ELSE <<>>
      BY <1>3, <2>1 DEF Listed
    <2>4. /\ Range(<<>>) = {} /\ Range(<<first>>) = {first}
          /\ \A o : Single(<<>>, o) /\ Single(<<first>>, o)
      BY DEF Range, Single
    <2>5. \A o : Running(World, o) = {}
      BY <2>1 DEF Running
    <2>6. ASSUME NEW o, NEW b \in Blocks
          PROVE  /\ Single(Listed(World, b), o)
                 /\ o \in Range(Listed(World, b)) => b = 0
      BY <2>2, <2>3, <2>4
    <2>7. \A o : Housed(World, o) <=> \E b \in OnDisk : o \in Range(disk[b])
      BY <1>3, <2>3, <2>4, <2>5 DEF Housed, Storing
    <2>8. born = UNION {Range(disk[b]) : b \in OnDisk} /\ killed = {}
      BY DEF Init
    <2>9. \A o : HomeOf(World, o)
      BY <2>5, <2>6, <2>8 DEF HomeOf, Storing
    <2>10. Homes(World, born)
      BY <2>1, <2>7, <2>8, <2>9 DEF Homes
    <2>11. DiskOnce
      BY <1>3, <2>2, <2>4, <2>8 DEF DiskOnce
    <2> QED BY <2>8, <2>10, <2>11 DEF HomeInv
  <1> QED BY <1>1, <1>5, <1>6, <1>7 DEF Inv

-----------------------------------------------------------------------------
(***************************************************************************)
(* The steps.                                                              *)
(***************************************************************************)
\* A client starts or stops to know an id.
LEMMA CountChanges ==
    ASSUME NEW K \in SUBSET Clients, NEW c \in Clients
    PROVE  /\ Cardinality(K) \in Nat
           /\ c \in K => Cardinality(K) > 0
           /\ c \in K => Cardinality(K \ {c}) = Cardinality(K) - 1
           /\ c \notin K => Cardinality(K \cup {c}) = Cardinality(K) + 1
  <1>1. IsFiniteSet(K)
    BY ActiveObjectsConstants, FS_Subset
  <1>2. Cardinality(K) \in Nat
    BY <1>1, FS_CardinalityType
  <1>3. c \in K => Cardinality(K) > 0
    BY <1>1, <1>2, FS_EmptySet
  <1>4. c \in K => Cardinality(K \ {c}) = Cardinality(K) - 1
    BY <1>1, FS_RemoveElement
  <1>5. c \notin K => Cardinality(K \cup {c}) = Cardinality(K) + 1
    BY <1>1, FS_AddElement
  <1> QED BY <1>2, <1>3, <1>4, <1>5

\* An object with count 0 is known to no client.
LEMMA CountOfNone ==
    ASSUME NEW id, NEW c \in Clients, Cardinality(Knowers(id)) = 0
    PROVE  \A k \in known[c] : k.id # id
  <1>1. Knowers(id) \in SUBSET Clients
    BY DEF Knowers
  <1>2. c \notin Knowers(id)
    <2> DEFINE K == Knowers(id)
    <2>1. K \in SUBSET Clients
      BY <1>1
    <2> HIDE DEF K
    <2>2. c \in K => Cardinality(K) > 0
      BY <2>1, CountChanges
    <2>3. Cardinality(K) = 0
      BY DEF K
    <2> QED BY <2>2, <2>3 DEF K
  <1> QED BY <1>2 DEF Knowers

\* The other fields that a step may change.
LEMMA ObjectsChange ==
    ASSUME Inv, NEW f \in Maps(ActiveObject), m_active_objects' = f,
           UNCHANGED <<last_used_id, block, disk>>,
           NEW L \in SUBSET Objects, exempt' = exempt \cup L,
           DOMAIN f = DOMAIN m_active_objects,
           \A i \in DOMAIN f :
               /\ f[i].obj = m_active_objects[i].obj
               /\ f[i].static_block = m_active_objects[i].static_block
               /\ f[i].ghost = m_active_objects[i].ghost
               /\ f[i].pending = m_active_objects[i].pending
    PROVE  WorldInv' /\ World' \in States
  <1> DEFINE t == [World EXCEPT !.objects = f, !.lost = L]
  <1>1. World \in States
    BY DEF Inv, TypeInv
  <1>2. /\ t \in States /\ t.objects = f /\ t.block = block
        /\ t.last = last_used_id /\ t.lost = L
    BY <1>1, WorldIs DEF States
  <1> HIDE DEF t
  <1>3. Good(t, 0)
    BY <1>2, WorldIs DEF Inv, WorldInv, Good, Unused, MatchBut
  <1>4. Synced(t, None)
    BY <1>2, WorldIs DEF Inv, WorldInv, Synced
  <1>5. Become(t)
    BY <1>2 DEF Become
  <1>6. exempt' = exempt \cup t.lost
    BY <1>2
  <1> QED BY <1>3, <1>4, <1>5, <1>6, Becomes

\* What matters to the homes of the objects does not change.
LEMMA ObjectsStay ==
    ASSUME Inv, NEW f, m_active_objects' = f,
           UNCHANGED <<block, disk, exempt, born, killed>>,
           DOMAIN f = DOMAIN m_active_objects,
           \A i \in DOMAIN f :
               /\ f[i].obj = m_active_objects[i].obj
               /\ f[i].static_block = m_active_objects[i].static_block
               /\ f[i].removed = m_active_objects[i].removed
               /\ f[i].ghost = m_active_objects[i].ghost
    PROVE  HomeInv'
  <1>1. PICK t : t = World'
    OBVIOUS
  <1>2. /\ t.objects = f /\ t.block = block /\ t.lost = {}
        /\ t.last = last_used_id'
    BY <1>1 DEF World, State
  <1>3. SameLists(World, t) /\ \A id : Entered(t, id) = Entered(World, id)
    BY <1>2, WorldIs DEF SameLists, Listed, Entered
  <1>4. Keeps(World, t)
    BY <1>2, <1>3, WorldIs, AlikeKeeps
  <1>5. Become(t)
    BY <1>2 DEF Become
  <1>6. Homes(t, born) /\ exempt' = exempt \cup t.lost
    BY <1>2, <1>4 DEF Keeps, Inv, HomeInv
  <1> QED BY <1>5, <1>6, HomesBecome DEF Inv

\* Steps that leave the clients alone.
LEMMA SameKnowers ==
    ASSUME KnownInv, UNCHANGED <<known, forced>>,
           DOMAIN m_active_objects' = DOMAIN m_active_objects,
           \A i \in DOMAIN m_active_objects :
               /\ m_active_objects'[i].obj = m_active_objects[i].obj
               /\ m_active_objects'[i].known_by_count
                      = m_active_objects[i].known_by_count
    PROVE  KnownInv'
  <1>1. \A id : Knowers(id)' = Knowers(id)
    BY DEF Knowers
  <1> QED BY <1>1 DEF KnownInv

\* The bound on events.
LEMMA EventIs ==
    ASSUME nevents \in 0 .. MaxEvents, Event \/ UNCHANGED nevents
    PROVE  nevents' \in 0 .. MaxEvents
  BY ActiveObjectsConstants DEF Event

\* Where on_activate may put objects.
LEMMA SpotsAre ==
    ASSUME NEW list, NEW spot \in Spots(list)
    PROVE  Spotted(spot)
  <1> DEFINE near == UNION {Range(Contents(b)) : b \in list \ m_active_blocks}
  <1>1. \/ spot = Nothing
        \/ \E S \in SUBSET near : spot \in [S -> Blocks \cup {None}]
    <2> HIDE DEF near
    <2> SUFFICES ASSUME spot # Nothing
                 PROVE  \E S \in SUBSET near :
                            spot \in [S -> Blocks \cup {None}]
      OBVIOUS
    <2>1. spot \in UNION {[S -> Blocks \cup {None}] : S \in SUBSET near}
      BY Zenon DEF Spots, near
    <2> QED BY <2>1
  <1> HIDE DEF near
  <1>2. CASE spot = Nothing
    BY <1>2 DEF Nothing, Spotted
  <1>3. ASSUME NEW S \in SUBSET near, spot \in [S -> Blocks \cup {None}]
        PROVE  Spotted(spot)
    BY <1>3 DEF Spotted
  <1> QED BY <1>1, <1>2, <1>3

\* The objects that vanish were known to no client, or their ids are in forced;
\* those that appear have ids that no client knows.
LEMMA ManageKeeps ==
    ASSUME Inv, NEW list \in SUBSET Places, NEW changed,
           NEW spot \in Spots(list \cap Blocks),
           ManageActiveBlocks(list, changed, spot)
    PROVE  Inv'
  <1> DEFINE s == DeactivateFarObjects(World, list, changed)
             stamped == StampAll(s, m_active_blocks \ list)
             added == (list \cap Blocks) \ m_active_blocks
             upto(b) == ActivateAll(stamped, {c \in added : c < b}, spot)
             there == {b \in added : upto(b).block[b].loaded}
             t == upto(Outside)
  <1>1. /\ Become(t)
        /\ m_active_blocks' = there \cup (list \cap m_active_blocks)
        /\ exempt' = exempt \cup t.lost
        /\ forced' = IF ~s.force THEN forced ELSE forced \cup
               {id \in DOMAIN m_active_objects \ DOMAIN s.objects :
                   m_active_objects[id].known_by_count > 0}
        /\ UNCHANGED <<disk, known, born, killed>>
        /\ Event \/ UNCHANGED nevents
    BY Zenon DEF ManageActiveBlocks, World, StampAll, Stamp, ActivateAll,
                 ActivateBlock
  <1>2. /\ Good(s, 0) /\ Shrinks(World, s) /\ Synced(s, None)
        /\ Keeps(World, s)
    BY DeactivateFarKeeps DEF Inv, TypeInv, WorldInv
  <1> HIDE DEF s
  <1>3. /\ Good(stamped, 0) /\ SameActive(s, stamped) /\ SameRest(s, stamped)
        /\ Synced(stamped, None) /\ Keeps(s, stamped)
    <2>1. m_active_blocks \ list \in SUBSET Blocks
      BY DEF Inv, TypeInv
    <2> QED BY <1>2, <2>1, StampAllKeeps
  <1> HIDE DEF stamped
  <1>9. there \in SUBSET Blocks
    OBVIOUS
  <1> HIDE DEF there
  <1>4. /\ Good(t, 0) /\ Extends(stamped, t) /\ Synced(t, None)
        /\ Keeps(stamped, t)
    <2>1. {c \in added : c < Outside} \in SUBSET Blocks
      OBVIOUS
    <2>2. Spotted(spot)
      BY SpotsAre
    <2> HIDE DEF added
    <2> QED BY <1>3, <2>1, <2>2, ActivateAllKeeps DEF Inv, TypeInv
  <1> HIDE DEF t, added, upto
  <1>5. WorldInv' /\ World' \in States
    BY <1>1, <1>4, Becomes
  <1>6. TypeInv'
    <2>1. exempt' \in SUBSET Objects
      <3>1. t.lost \in SUBSET Objects
        BY <1>4 DEF Good, States
      <3> QED BY <1>1, <3>1 DEF Inv, TypeInv
    <2>2. forced' \in SUBSET Ids
      <3>1. DOMAIN m_active_objects \in SUBSET Ids
        BY WorldIs DEF Inv, TypeInv, States, Maps
      <3> QED BY <1>1, <3>1 DEF Inv, TypeInv
    <2>3. m_active_blocks' \in SUBSET Blocks
      BY <1>1, <1>9 DEF Inv, TypeInv
    <2>4. nevents' \in 0 .. MaxEvents
      BY <1>1, EventIs DEF Inv, TypeInv
    <2> QED BY <1>1, <1>5, <2>1, <2>2, <2>3, <2>4 DEF Inv, TypeInv, DiskOK
  <1>7. KnownInv'
    <2>1. m_active_objects' = t.objects /\ known' = known
      BY <1>1 DEF Become
    <2>2. \A id : Knowers(id)' = Knowers(id)
      BY <2>1 DEF Knowers
    <2>3. Shrinks(World, stamped) /\ stamped.force = s.force
          /\ stamped.objects = s.objects
      BY <1>2, <1>3 DEF Shrinks, SameActive, SameRest
    <2>4. ASSUME NEW id \in Ids \ forced',
                 id \in DOMAIN stamped.objects
          PROVE  /\ id \in DOMAIN t.objects /\ id \in DOMAIN m_active_objects
                 /\ t.objects[id].obj = m_active_objects[id].obj
                 /\ t.objects[id].known_by_count
                        = m_active_objects[id].known_by_count
      BY <1>4, <2>3, <2>4, WorldIs DEF Shrinks, Extends, Grows
    <2>5. ASSUME NEW id \in Ids \ forced', id \notin DOMAIN stamped.objects
          PROVE  Knowers(id) = {}
      <3>1. id \notin forced
        BY <1>1
      <3>2. CASE id \notin DOMAIN m_active_objects
        BY <3>1, <3>2 DEF Inv, KnownInv
      <3>3. CASE id \in DOMAIN m_active_objects
        <4>1. m_active_objects[id].known_by_count = 0
          <5>1. m_active_objects[id].known_by_count \in Nat
            <6>1. World \in States
              BY DEF Inv, TypeInv
            <6> QED BY <3>3, <6>1, WorldIs, IsActive DEF ActiveObject
          <5>2. m_active_objects[id].known_by_count = 0 \/ s.force
            BY <2>3, <2>5, <3>3, WorldIs DEF Shrinks
          <5>3. s.force => ~(m_active_objects[id].known_by_count > 0)
            BY <1>1, <2>3, <2>5, <3>3
          <5> QED BY <5>1, <5>2, <5>3
        <4>2. Cardinality(Knowers(id)) = 0
          BY <3>1, <3>3, <4>1 DEF Inv, KnownInv
        <4>3. \A c \in Clients : \A k \in known[c] : k.id # id
          BY <4>2, CountOfNone
        <4> QED BY <4>3 DEF Knowers
      <3> QED BY <3>2, <3>3
    <2>6. ASSUME NEW id \in Ids \ forced', id \notin DOMAIN stamped.objects,
                 id \in DOMAIN t.objects
          PROVE  t.objects[id].known_by_count = Cardinality(Knowers(id))
      <3>1. t.objects[id].known_by_count = 0
        BY <1>4, <2>6 DEF Extends, Grows
      <3> QED BY <2>5, <2>6, <3>1, FS_EmptySet
    <2>7. forced \subseteq forced'
      BY <1>1
    <2>8. ASSUME NEW id \in Ids \ forced'
          PROVE  IF id \in DOMAIN t.objects
                 THEN /\ t.objects[id].known_by_count
                             = Cardinality(Knowers(id))
                      /\ \A c \in Clients : \A k \in known[c] :
                             k.id = id => k.obj = t.objects[id].obj
                 ELSE Knowers(id) = {}
      <3>1. CASE id \in DOMAIN stamped.objects
        BY <2>4, <2>7, <3>1 DEF Inv, KnownInv
      <3>2. CASE id \notin DOMAIN stamped.objects
        <4>1. Knowers(id) = {}
          BY <2>5, <3>2
        <4>2. \A c \in Clients : \A k \in known[c] : k.id # id
          BY <4>1 DEF Knowers
        <4> QED BY <2>6, <3>2, <4>1, <4>2
      <3> QED BY <3>1, <3>2
    <2> QED BY <2>1, <2>2, <2>8 DEF KnownInv
  <1>8. HomeInv'
    <2>1. Homes(t, born)
      BY <1>2, <1>3, <1>4 DEF Keeps, Inv, HomeInv
    <2> QED BY <1>1, <2>1, HomesBecome DEF Inv
  <1> QED BY <1>5, <1>6, <1>7, <1>8 DEF Inv

\* The objects that vanish were known to no client.
LEMMA RemoveRemovedKeeps ==
    ASSUME Inv, RemoveRemovedObjects
    PROVE  Inv'
  <1> DEFINE t == RemoveAll(World)
  <1>1. /\ Become(t)
        /\ UNCHANGED <<m_active_blocks, disk, known, born, killed, exempt,
                       forced, nevents>>
    BY Zenon, WorldIs DEF RemoveRemovedObjects, RemoveAll, World
  <1>2. /\ Good(t, 0) /\ Shrinks(World, t) /\ SameRest(World, t)
        /\ Synced(t, None) /\ Keeps(World, t)
    BY RemoveAllKeeps DEF Inv, TypeInv, WorldInv
  <1> HIDE DEF t
  <1>3. exempt' = exempt \cup t.lost /\ t.force = FALSE
    BY <1>1, <1>2, WorldIs DEF SameRest
  <1>4. WorldInv' /\ World' \in States
    BY <1>1, <1>2, <1>3, Becomes
  <1>5. TypeInv'
    BY <1>1, <1>4 DEF Inv, TypeInv, DiskOK
  <1>6. KnownInv'
    <2>1. m_active_objects' = t.objects
      BY <1>1 DEF Become
    <2>2. \A id : Knowers(id)' = Knowers(id)
      BY <1>1 DEF Knowers
    <2>3. ASSUME NEW id \in Ids \ forced, id \in DOMAIN t.objects
          PROVE  /\ id \in DOMAIN m_active_objects
                 /\ t.objects[id].obj = m_active_objects[id].obj
                 /\ t.objects[id].known_by_count
                        = m_active_objects[id].known_by_count
      BY <1>2, <2>3, WorldIs DEF Shrinks
    <2>4. ASSUME NEW id \in Ids \ forced, id \notin DOMAIN t.objects
          PROVE  Knowers(id) = {}
      <3>1. CASE id \notin DOMAIN m_active_objects
        BY <3>1 DEF Inv, KnownInv
      <3>2. CASE id \in DOMAIN m_active_objects
        <4>1. m_active_objects[id].known_by_count = 0
          BY <1>2, <1>3, <2>4, <3>2, WorldIs DEF Shrinks
        <4>2. Cardinality(Knowers(id)) = 0
          BY <3>2, <4>1 DEF Inv, KnownInv
        <4>3. \A c \in Clients : \A k \in known[c] : k.id # id
          BY <4>2, CountOfNone
        <4> QED BY <4>3 DEF Knowers
      <3> QED BY <3>1, <3>2
    <2> QED BY <1>1, <2>1, <2>2, <2>3, <2>4 DEF Inv, KnownInv
  <1>7. HomeInv'
    <2>1. Homes(t, born)
      BY <1>2 DEF Keeps, Inv, HomeInv
    <2> QED BY <1>1, <1>3, <2>1, HomesBecome DEF Inv
  <1> QED BY <1>4, <1>5, <1>6, <1>7 DEF Inv

\* The new object has an id that no client knows.
LEMMA AddActiveKeeps ==
    ASSUME Inv, NEW o \in Objects, NEW b \in Blocks, AddActiveObject(o, b)
    PROVE  Inv'
  <1> DEFINE t == AddActiveObjectRaw(World, o, b, TRUE)
  <1>1. /\ Become(t)
        /\ exempt' = exempt \cup t.lost
        /\ UNCHANGED <<m_active_blocks, disk, known, killed, forced>>
        /\ Event /\ born' = born \cup {o} /\ o \notin born
    BY Zenon DEF AddActiveObject, World
  <1>2. /\ Good(t, 0) /\ Grows(World, t) /\ Synced(t, None)
        /\ Seated(World, t, o)
    BY AddKeeps DEF Inv, TypeInv, WorldInv
  <1> HIDE DEF t
  <1>3. WorldInv' /\ World' \in States
    BY <1>1, <1>2, Becomes
  <1>4. TypeInv'
    <2>1. exempt' \in SUBSET Objects
      <3>1. t.lost \in SUBSET Objects
        BY <1>2 DEF Good, States
      <3> QED BY <1>1, <3>1 DEF Inv, TypeInv
    <2>2. nevents' \in 0 .. MaxEvents
      BY <1>1, EventIs DEF Inv, TypeInv
    <2> QED BY <1>1, <1>3, <2>1, <2>2 DEF Inv, TypeInv, DiskOK
  <1>5. KnownInv'
    <2>1. m_active_objects' = t.objects
      BY <1>1 DEF Become
    <2>2. \A id : Knowers(id)' = Knowers(id)
      BY <1>1 DEF Knowers
    <2>3. ASSUME NEW id \in DOMAIN m_active_objects
          PROVE  /\ id \in DOMAIN t.objects
                 /\ t.objects[id].obj = m_active_objects[id].obj
                 /\ t.objects[id].known_by_count
                        = m_active_objects[id].known_by_count
      BY <1>2, <2>3, WorldIs DEF Grows
    <2>4. ASSUME NEW id \in Ids \ forced, id \notin DOMAIN m_active_objects
          PROVE  /\ \A c \in Clients : \A k \in known[c] : k.id # id
                 /\ Knowers(id) = {}
                 /\ id \in DOMAIN t.objects =>
                        t.objects[id].known_by_count = Cardinality(Knowers(id))
      <3>1. Knowers(id) = {}
        BY <2>4 DEF Inv, KnownInv
      <3>2. \A c \in Clients : \A k \in known[c] : k.id # id
        BY <3>1 DEF Knowers
      <3>3. id \in DOMAIN t.objects => t.objects[id].known_by_count = 0
        BY <1>2, <2>4, WorldIs DEF Grows
      <3> QED BY <3>1, <3>2, <3>3, FS_EmptySet
    <2> QED BY <1>1, <2>1, <2>2, <2>3, <2>4 DEF Inv, KnownInv
  <1>6. HomeInv'
    <2>1. o \in Sound(t) => o \notin killed
      BY <1>1 DEF Sound, Inv, HomeInv
    <2>2. Homes(t, born \cup {o})
      BY <1>1, <1>2, <2>1, SeatedHomes DEF Inv, HomeInv, TypeInv, Good
    <2> QED BY <1>1, <2>2, HomesBecome DEF Inv
  <1> QED BY <1>3, <1>4, <1>5, <1>6 DEF Inv

\* An object is changed as a player, a script or its step may.
LEMMA ChangeOne ==
    ASSUME Inv, NEW id \in DOMAIN m_active_objects, NEW q \in ActiveObject,
           m_active_objects' = [m_active_objects EXCEPT ![id] = q],
           q.obj = m_active_objects[id].obj,
           q.static_block = m_active_objects[id].static_block,
           q.known_by_count = m_active_objects[id].known_by_count,
           q.ghost = m_active_objects[id].ghost,
           q.pending = m_active_objects[id].pending,
           NEW L \in SUBSET Objects, exempt' = exempt \cup L,
           UNCHANGED <<last_used_id, block, disk, known, forced>>
    PROVE  WorldInv' /\ World' \in States /\ KnownInv'
  <1> DEFINE f == [m_active_objects EXCEPT ![id] = q]
  <1>1. m_active_objects \in Maps(ActiveObject)
    BY WorldIs DEF Inv, TypeInv, States
  <1>2. PICK I \in SUBSET Ids : m_active_objects \in [I -> ActiveObject]
    BY <1>1 DEF Maps
  <1>3. f \in [I -> ActiveObject]
    BY <1>2
  <1>4. f \in Maps(ActiveObject) /\ DOMAIN f = DOMAIN m_active_objects
    BY <1>2, <1>3 DEF Maps
  <1>5. \A i \in DOMAIN f :
            /\ f[i].obj = m_active_objects[i].obj
            /\ f[i].static_block = m_active_objects[i].static_block
            /\ f[i].known_by_count = m_active_objects[i].known_by_count
            /\ f[i].ghost = m_active_objects[i].ghost
            /\ f[i].pending = m_active_objects[i].pending
    BY <1>2
  <1>6. m_active_objects' = f
    OBVIOUS
  <1> HIDE DEF f
  <1>7. WorldInv' /\ World' \in States
    BY <1>4, <1>5, <1>6, ObjectsChange
  <1>8. KnownInv'
    BY <1>4, <1>5, <1>6, SameKnowers DEF Inv
  <1> QED BY <1>7, <1>8

\* The objects that a step may take.
LEMMA ObjectsAre ==
    ASSUME Inv, NEW id \in DOMAIN m_active_objects
    PROVE  m_active_objects[id] \in ActiveObject /\ id \in Ids
  <1>1. World \in States
    BY DEF Inv, TypeInv
  <1> QED BY <1>1, WorldIs, IsActive

\* A move changes the position alone.
LEMMA MoveKeeps ==
    ASSUME Inv, NEW id \in DOMAIN m_active_objects, NEW b \in Places,
           Move(id, b)
    PROVE  Inv'
  <1> DEFINE q == [m_active_objects[id] EXCEPT !.pos = b]
  <1>1. /\ q \in ActiveObject /\ q.obj = m_active_objects[id].obj
        /\ q.static_block = m_active_objects[id].static_block
        /\ q.known_by_count = m_active_objects[id].known_by_count
        /\ q.removed = m_active_objects[id].removed
        /\ q.ghost = m_active_objects[id].ghost
        /\ q.pending = m_active_objects[id].pending
    BY ObjectsAre DEF ActiveObject
  <1>2. /\ m_active_objects' = [m_active_objects EXCEPT ![id] = q]
        /\ UNCHANGED <<last_used_id, m_active_blocks, block, disk, known,
                       born, killed, exempt, forced>>
        /\ Event /\ exempt' = exempt \cup {} /\ {} \in SUBSET Objects
    BY DEF Move
  <1> HIDE DEF q
  <1>3. WorldInv' /\ World' \in States /\ KnownInv'
    BY <1>1, <1>2, ChangeOne
  <1>4. TypeInv'
    <2>1. nevents' \in 0 .. MaxEvents
      BY <1>2, EventIs DEF Inv, TypeInv
    <2> QED BY <1>2, <1>3, <2>1 DEF Inv, TypeInv, DiskOK
  <1>5. HomeInv'
    <2> DEFINE f == [m_active_objects EXCEPT ![id] = q]
    <2>1. \A i \in DOMAIN f :
              /\ f[i].obj = m_active_objects[i].obj
              /\ f[i].static_block = m_active_objects[i].static_block
              /\ f[i].removed = m_active_objects[i].removed
              /\ f[i].ghost = m_active_objects[i].ghost
      BY <1>1
    <2>2. DOMAIN f = DOMAIN m_active_objects /\ m_active_objects' = f
      BY <1>2
    <2> HIDE DEF f
    <2> QED BY <1>2, <2>1, <2>2, ObjectsStay
  <1> QED BY <1>3, <1>4, <1>5 DEF Inv

\* So m_removed. A ghost's object, whose data is elsewhere, becomes exempt.
LEMMA KillKeeps ==
    ASSUME Inv, NEW id \in DOMAIN m_active_objects, Kill(id)
    PROVE  Inv'
  <1> DEFINE q == [m_active_objects[id] EXCEPT !.removed = TRUE]
             L == IF m_active_objects[id].ghost
                  THEN {m_active_objects[id].obj} ELSE {}
  <1>1. /\ q \in ActiveObject /\ q.obj = m_active_objects[id].obj
        /\ q.static_block = m_active_objects[id].static_block
        /\ q.known_by_count = m_active_objects[id].known_by_count
        /\ q.removed
        /\ q.ghost = m_active_objects[id].ghost
        /\ q.pending = m_active_objects[id].pending
    BY ObjectsAre DEF ActiveObject
  <1>2. /\ m_active_objects' = [m_active_objects EXCEPT ![id] = q]
        /\ UNCHANGED <<last_used_id, m_active_blocks, block, disk, known,
                       born, forced>>
        /\ Event /\ killed' = killed \cup {m_active_objects[id].obj}
        /\ exempt' = exempt \cup L
    BY DEF Kill
  <1>6. L \in SUBSET Objects
    BY ObjectsAre DEF ActiveObject
  <1>7. \A o \in Objects \ L :
            o = m_active_objects[id].obj => ~m_active_objects[id].ghost
    OBVIOUS
  <1>8. m_active_objects[id].obj \notin L => ~m_active_objects[id].ghost
    OBVIOUS
  <1> HIDE DEF q, L
  <1>3. WorldInv' /\ World' \in States /\ KnownInv'
    BY <1>1, <1>2, <1>6, ChangeOne
  <1>4. TypeInv'
    <2>1. nevents' \in 0 .. MaxEvents
      BY <1>2, EventIs DEF Inv, TypeInv
    <2>2. killed' \in SUBSET Objects /\ exempt' \in SUBSET Objects
      BY <1>2, <1>6, ObjectsAre DEF Inv, TypeInv, ActiveObject
    <2> QED BY <1>2, <1>3, <2>1, <2>2 DEF Inv, TypeInv, DiskOK
  <1>5. HomeInv'
    <2> DEFINE f == [m_active_objects EXCEPT ![id] = q]
               x == m_active_objects[id].obj
    <2>1. /\ DOMAIN f = DOMAIN m_active_objects /\ f[id].removed
          /\ \A i \in DOMAIN m_active_objects :
                 /\ f[i].obj = m_active_objects[i].obj
                 /\ f[i].static_block = m_active_objects[i].static_block
                 /\ f[i].ghost = m_active_objects[i].ghost
                 /\ m_active_objects[i].removed => f[i].removed
                 /\ i # id => f[i] = m_active_objects[i]
      BY <1>1
    <2>2. m_active_objects' = f
      BY <1>2
    <2> HIDE DEF f
    <2>3. PICK w : w = World'
      OBVIOUS
    <2>4. /\ w.objects = f /\ w.block = block /\ w.lost = {}
      BY <1>2, <2>2, <2>3 DEF World, State
    <2>5. /\ Sound(w)' = Sound(World) \ L
          /\ \A b \in Blocks : Listed(w, b)' = Listed(World, b)
          /\ \A i : Entered(w, i) = Entered(World, i)
      BY <1>2, <2>4, WorldIs DEF Sound, Listed, Entered
    <2>6. ASSUME NEW o \in Sound(World) \ L
          PROVE  /\ HomeOf(w, o)'
                 /\ Housed(w, o)' => o \in born
                 /\ o \in born \ killed' => Housed(w, o)'
                 /\ o = x => o \in born
      <3>1. /\ HomeOf(World, o)
            /\ Housed(World, o) => o \in born
            /\ o \in born \ killed => Housed(World, o)
        BY DEF Inv, HomeInv, Homes
      <3>2. Storing(w, o)' = Storing(World, o)
        BY <2>5 DEF Storing
      <3>3. Running(w, o)' = Running(World, o)
        BY <2>1, <2>4, WorldIs DEF Running
      <3>4. o = x => id \in Running(World, o)
        BY <1>8, WorldIs DEF Running
      <3>5. \A i \in Running(World, o) :
                /\ HasEntry(World, i) => HasEntry(w, i)'
                /\ World.objects[i].removed => w.objects[i].removed
        BY <2>1, <2>4, <2>5, WorldIs DEF Running, HasEntry, Entered
      <3>6. \A i \in Running(World, o) :
                o \in killed' => w.objects[i].removed
        <4>1. CASE o = x
          BY <2>1, <2>4, <3>1, <3>4, <4>1 DEF HomeOf
        <4>2. CASE o # x
          BY <1>2, <3>1, <3>5, <4>2 DEF HomeOf
        <4> QED BY <4>1, <4>2
      <3>7. o \in killed' => Storing(World, o) = {}
        BY <1>2, <3>1, <3>4 DEF HomeOf
      <3>8. HomeOf(w, o)'
        BY <2>5, <3>1, <3>2, <3>3, <3>5, <3>6, <3>7 DEF HomeOf
      <3>9. Housed(w, o)' <=> Housed(World, o)
        BY <3>2, <3>3 DEF Housed
      <3>10. o = x => Housed(World, o)
        BY <3>4 DEF Housed
      <3> QED BY <1>2, <3>1, <3>8, <3>9, <3>10
    <2>7. ASSUME NEW i \in DOMAIN w.objects, w.objects[i].removed
          PROVE  w.objects[i].obj \in killed'
      BY <1>2, <2>1, <2>4, <2>7, WorldIs DEF Inv, HomeInv, Homes
    <2>8. Homes(w, born)'
      BY <1>2, <2>5, <2>6, <2>7 DEF Homes
    <2>9. Homes(World, born)'
      BY <2>3, <2>8
    <2>10. DiskOnce'
      BY <1>2 DEF Inv, HomeInv, DiskOnce
    <2>11. killed' \subseteq born' \cup exempt'
      <3>1. x \in born \cup exempt'
        <4>1. x \in (Sound(World) \ L) \cup exempt'
          BY <1>2, ObjectsAre, WorldIs DEF Sound, ActiveObject
        <4> QED BY <2>6, <4>1
      <3> QED BY <1>2, <3>1 DEF Inv, HomeInv
    <2> QED BY <2>9, <2>10, <2>11 DEF HomeInv
  <1> QED BY <1>3, <1>4, <1>5 DEF Inv

\* The counts of the objects change.
LEMMA CountsChange ==
    ASSUME Inv, NEW f, DOMAIN f = DOMAIN m_active_objects,
           \A i \in DOMAIN m_active_objects : \E n \in Nat :
               f[i] = [m_active_objects[i] EXCEPT !.known_by_count = n],
           f = [i \in DOMAIN f |-> f[i]],
           m_active_objects' = f,
           UNCHANGED <<last_used_id, block, disk, exempt, born, killed>>
    PROVE  /\ WorldInv' /\ World' \in States /\ HomeInv'
           /\ \A i \in DOMAIN m_active_objects :
                  f[i].obj = m_active_objects[i].obj
  <1>1. m_active_objects \in Maps(ActiveObject)
    BY WorldIs DEF Inv, TypeInv, States
  <1>2. DOMAIN m_active_objects \in SUBSET Ids
    BY <1>1 DEF Maps
  <1>3. ASSUME NEW i \in DOMAIN m_active_objects
        PROVE  /\ f[i] \in ActiveObject
               /\ f[i].obj = m_active_objects[i].obj
               /\ f[i].static_block = m_active_objects[i].static_block
               /\ f[i].removed = m_active_objects[i].removed
               /\ f[i].ghost = m_active_objects[i].ghost
               /\ f[i].pending = m_active_objects[i].pending
    <2>1. m_active_objects[i] \in ActiveObject
      BY ObjectsAre
    <2>2. PICK n \in Nat :
              f[i] = [m_active_objects[i] EXCEPT !.known_by_count = n]
      OBVIOUS
    <2> QED BY <2>1, <2>2 DEF ActiveObject
  <1>4. f \in [DOMAIN m_active_objects -> ActiveObject]
    BY <1>3
  <1>5. f \in Maps(ActiveObject)
    BY <1>2, <1>4 DEF Maps
  <1>6. WorldInv' /\ World' \in States
    <2>1. exempt' = exempt \cup {} /\ {} \in SUBSET Objects
      OBVIOUS
    <2> QED BY <1>3, <1>5, <2>1, ObjectsChange
  <1>7. HomeInv'
    BY <1>3, ObjectsStay
  <1> QED BY <1>3, <1>6, <1>7

\* Each id that the client forgets takes one from the count of its object, each
\* id it learns adds one.
LEMMA SendKeeps ==
    ASSUME Inv, NEW c \in Clients, NEW near \in SUBSET DOMAIN m_active_objects,
           SendObjects(c, near)
    PROVE  Inv'
  <1> DEFINE Gone(id) == \/ m_active_objects[id].removed
                         \/ m_active_objects[id].pending
             removed == {k \in known[c] : \/ k.id \notin DOMAIN m_active_objects
                                          \/ Gone(k.id)
                                          \/ k.id \notin near}
             added == {id \in near \ {k.id : k \in known[c]} : ~Gone(id)}
             Less(n) == IF n > 0 THEN n - 1 ELSE 0
             count(id) == IF id \in {k.id : k \in removed}
                          THEN Less(m_active_objects[id].known_by_count)
                          ELSE IF id \in added
                               THEN m_active_objects[id].known_by_count + 1
                               ELSE m_active_objects[id].known_by_count
             told == {[id |-> id, obj |-> m_active_objects[id].obj] :
                         id \in added}
             f == [id \in DOMAIN m_active_objects |->
                      [m_active_objects[id] EXCEPT
                          !.known_by_count = count(id)]]
  <1>1. /\ known' = [known EXCEPT ![c] = (known[c] \ removed) \cup told]
        /\ m_active_objects' = f
        /\ UNCHANGED <<last_used_id, m_active_blocks, block, disk, born,
                       killed, exempt, forced, nevents>>
    BY DEF SendObjects
  <1>2. known \in [Clients -> SUBSET [id : Ids, obj : Objects]]
    BY DEF Inv, TypeInv
  <1>3. \A id \in DOMAIN m_active_objects :
            /\ m_active_objects[id] \in ActiveObject /\ id \in Ids
            /\ m_active_objects[id].known_by_count \in Nat
            /\ m_active_objects[id].obj \in Objects
    BY ObjectsAre DEF ActiveObject
  <1>4. told \in SUBSET [id : Ids, obj : Objects]
    BY <1>3
  <1>5. \A id \in DOMAIN m_active_objects : count(id) \in Nat
    BY <1>3
  <1>6. /\ DOMAIN f = DOMAIN m_active_objects
        /\ f = [i \in DOMAIN f |-> f[i]]
        /\ \A i \in DOMAIN m_active_objects : \E n \in Nat :
               f[i] = [m_active_objects[i] EXCEPT !.known_by_count = n]
    BY <1>5
  <1>7. \A i \in DOMAIN m_active_objects : f[i].known_by_count = count(i)
    BY <1>3 DEF ActiveObject
  <1>8. /\ \A k \in told : /\ k.id \in added
                           /\ k.obj = m_active_objects[k.id].obj
        /\ \A id \in added : \E k \in told : k.id = id
    <2> DEFINE entry(id) == [id |-> id, obj |-> m_active_objects[id].obj]
    <2>1. \A id \in added : entry(id) \in told
      OBVIOUS
    <2>2. \A k \in told : \E id \in added : k = entry(id)
      OBVIOUS
    <2>3. \A id : /\ entry(id).id = id
                  /\ entry(id).obj = m_active_objects[id].obj
      OBVIOUS
    <2> HIDE DEF told, added, entry
    <2> QED BY <2>1, <2>2, <2>3
  <1>9. /\ \A k, l \in known[c] :
               k.id = l.id => (k \in removed <=> l \in removed)
        /\ \A id \in added : \A k \in known[c] : k.id # id
        /\ \A k \in known[c] \ removed : k.id \in DOMAIN m_active_objects
        /\ added \subseteq DOMAIN m_active_objects
        /\ removed \subseteq known[c]
    OBVIOUS
  <1>10. \A id : id \in {k.id : k \in removed} <=> \E k \in removed : k.id = id
    OBVIOUS
  <1> HIDE DEF f, told, added, removed
  <1>11. /\ WorldInv' /\ World' \in States /\ HomeInv'
         /\ \A i \in DOMAIN m_active_objects :
                f[i].obj = m_active_objects[i].obj
    BY <1>1, <1>6, CountsChange
  <1>12. TypeInv'
    <2>1. known' \in [Clients -> SUBSET [id : Ids, obj : Objects]]
      BY <1>1, <1>2, <1>4
    <2> QED BY <1>1, <1>11, <2>1 DEF Inv, TypeInv, DiskOK
  <1>13. KnownInv'
    <2>1. /\ known'[c] = (known[c] \ removed) \cup told
          /\ \A d \in Clients : d # c => known'[d] = known[d]
      BY <1>1, <1>2
    <2>2. SUFFICES ASSUME NEW id \in Ids \ forced
                   PROVE  IF id \in DOMAIN m_active_objects
                          THEN /\ f[id].known_by_count
                                      = Cardinality(Knowers(id)')
                               /\ \A d \in Clients : \A k \in known'[d] :
                                      k.id = id =>
                                          k.obj = m_active_objects[id].obj
                          ELSE Knowers(id)' = {}
      BY <1>1, <1>6, <1>11 DEF KnownInv
    <2>3. Knowers(id) \in SUBSET Clients
      BY DEF Knowers
    <2>4. c \in Knowers(id) <=> \E k \in known[c] : k.id = id
      BY DEF Knowers
    <2>5. Knowers(id)' = IF id \in added THEN Knowers(id) \cup {c}
                         ELSE IF \E k \in removed : k.id = id
                         THEN Knowers(id) \ {c} ELSE Knowers(id)
      <3>1. \A d \in Clients : d # c =>
                (d \in Knowers(id)' <=> d \in Knowers(id))
        BY <2>1 DEF Knowers
      <3>2. c \in Knowers(id)' <=>
                \/ \E k \in known[c] \ removed : k.id = id
                \/ \E k \in told : k.id = id
        BY <2>1 DEF Knowers
      <3>3. (\E k \in told : k.id = id) <=> id \in added
        BY <1>8
      <3>4. (\E k \in removed : k.id = id) =>
                ~ \E k \in known[c] \ removed : k.id = id
        BY <1>9
      <3>5. id \notin added /\ ~(\E k \in removed : k.id = id) =>
                (c \in Knowers(id)' <=> c \in Knowers(id))
        BY <2>4, <3>2, <3>3
      <3>6. Knowers(id)' \subseteq Clients
        BY DEF Knowers
      <3>7. id \in added => c \in Knowers(id)'
        BY <3>2, <3>3
      <3>8. id \notin added /\ (\E k \in removed : k.id = id) =>
                c \notin Knowers(id)'
        BY <3>2, <3>3, <3>4
      <3> QED BY <2>3, <3>1, <3>5, <3>6, <3>7, <3>8
    <2>6. CASE id \notin DOMAIN m_active_objects
      <3>1. Knowers(id) = {} /\ id \notin added
        BY <1>9, <2>6 DEF Inv, KnownInv
      <3> QED BY <2>5, <2>6, <3>1
    <2>7. CASE id \in DOMAIN m_active_objects
      <3> DEFINE n == m_active_objects[id].known_by_count
                 K == Knowers(id)
      <3>1. /\ n = Cardinality(K) /\ n \in Nat
            /\ \A d \in Clients : \A k \in known[d] :
                   k.id = id => k.obj = m_active_objects[id].obj
        BY <1>3, <2>7 DEF Inv, KnownInv
      <3>2. f[id].known_by_count = count(id)
        BY <1>7, <2>7
      <3>3. K \in SUBSET Clients
        BY <2>3
      <3> HIDE DEF K, n
      <3>4. count(id) = Cardinality(Knowers(id)')
        <4>1. CASE \E k \in removed : k.id = id
          <5>1. c \in K
            BY <1>9, <2>4, <4>1 DEF K
          <5>2. id \notin added
            BY <1>9, <4>1
          <5>3. Cardinality(Knowers(id)') = Cardinality(K \ {c})
            BY <2>5, <4>1, <5>2 DEF K
          <5>4. Cardinality(K \ {c}) = n - 1 /\ n > 0
            BY <3>1, <3>3, <5>1, CountChanges
          <5>5. count(id) = n - 1
            BY <1>10, <4>1, <5>4 DEF n
          <5> QED BY <5>3, <5>4, <5>5
        <4>2. CASE id \in added
          <5>1. c \notin K /\ ~ \E k \in removed : k.id = id
            BY <1>9, <2>4, <4>2 DEF K
          <5>2. Cardinality(Knowers(id)') = Cardinality(K \cup {c})
            BY <2>5, <4>2 DEF K
          <5>3. Cardinality(K \cup {c}) = n + 1
            BY <3>1, <3>3, <5>1, CountChanges
          <5>4. count(id) = n + 1
            BY <1>10, <4>2, <5>1 DEF n
          <5> QED BY <5>2, <5>3, <5>4
        <4>3. CASE id \notin added /\ ~ \E k \in removed : k.id = id
          <5>1. Knowers(id)' = K
            BY <2>5, <4>3 DEF K
          <5>2. count(id) = n
            BY <1>10, <4>3 DEF n
          <5> QED BY <3>1, <5>1, <5>2
        <4> QED BY <4>1, <4>2, <4>3
      <3>5. ASSUME NEW d \in Clients, NEW k \in known'[d], k.id = id
            PROVE  k.obj = m_active_objects[id].obj
        BY <1>8, <2>1, <3>1, <3>5
      <3> QED BY <2>7, <3>2, <3>4, <3>5
    <2> QED BY <2>6, <2>7
  <1> QED BY <1>11, <1>12, <1>13 DEF Inv

\* A client that leaves takes one from the count of each object it knew.
LEMMA LeaveKeeps ==
    ASSUME Inv, NEW c \in Clients, Leave(c)
    PROVE  Inv'
  <1> DEFINE count(id) ==
                 IF m_active_objects[id].known_by_count > 0
                        /\ id \in {k.id : k \in known[c]}
                 THEN m_active_objects[id].known_by_count - 1
                 ELSE m_active_objects[id].known_by_count
             f == [id \in DOMAIN m_active_objects |->
                      [m_active_objects[id] EXCEPT
                          !.known_by_count = count(id)]]
  <1>1. /\ known' = [known EXCEPT ![c] = {}]
        /\ m_active_objects' = f
        /\ UNCHANGED <<last_used_id, m_active_blocks, block, disk, born,
                       killed, exempt, forced>>
        /\ Event
    BY DEF Leave
  <1>2. known \in [Clients -> SUBSET [id : Ids, obj : Objects]]
    BY DEF Inv, TypeInv
  <1>3. \A id \in DOMAIN m_active_objects :
            /\ m_active_objects[id] \in ActiveObject
            /\ m_active_objects[id].known_by_count \in Nat
    BY ObjectsAre DEF ActiveObject
  <1>4. \A id \in DOMAIN m_active_objects : count(id) \in Nat
    BY <1>3
  <1>5. /\ DOMAIN f = DOMAIN m_active_objects
        /\ f = [i \in DOMAIN f |-> f[i]]
        /\ \A i \in DOMAIN m_active_objects : \E n \in Nat :
               f[i] = [m_active_objects[i] EXCEPT !.known_by_count = n]
    BY <1>4
  <1>6. \A i \in DOMAIN m_active_objects : f[i].known_by_count = count(i)
    BY <1>3 DEF ActiveObject
  <1>7. \A id : id \in {k.id : k \in known[c]} <=> \E k \in known[c] : k.id = id
    OBVIOUS
  <1> HIDE DEF f
  <1>8. /\ WorldInv' /\ World' \in States /\ HomeInv'
        /\ \A i \in DOMAIN m_active_objects : f[i].obj = m_active_objects[i].obj
    BY <1>1, <1>5, CountsChange
  <1>9. TypeInv'
    <2>1. known' \in [Clients -> SUBSET [id : Ids, obj : Objects]]
      BY <1>1, <1>2
    <2>2. nevents' \in 0 .. MaxEvents
      BY <1>1, EventIs DEF Inv, TypeInv
    <2> QED BY <1>1, <1>8, <2>1, <2>2 DEF Inv, TypeInv, DiskOK
  <1>10. KnownInv'
    <2>1. known'[c] = {} /\ \A d \in Clients : d # c => known'[d] = known[d]
      BY <1>1, <1>2
    <2>2. SUFFICES ASSUME NEW id \in Ids \ forced
                   PROVE  IF id \in DOMAIN m_active_objects
                          THEN /\ f[id].known_by_count
                                      = Cardinality(Knowers(id)')
                               /\ \A d \in Clients : \A k \in known'[d] :
                                      k.id = id =>
                                          k.obj = m_active_objects[id].obj
                          ELSE Knowers(id)' = {}
      BY <1>1, <1>5, <1>8 DEF KnownInv
    <2>3. Knowers(id) \in SUBSET Clients /\ Knowers(id)' = Knowers(id) \ {c}
      BY <2>1 DEF Knowers
    <2>4. c \in Knowers(id) <=> \E k \in known[c] : k.id = id
      BY DEF Knowers
    <2>5. CASE id \notin DOMAIN m_active_objects
      <3>1. Knowers(id) = {}
        BY <2>5 DEF Inv, KnownInv
      <3> QED BY <2>3, <2>5, <3>1
    <2>6. CASE id \in DOMAIN m_active_objects
      <3> DEFINE n == m_active_objects[id].known_by_count
                 K == Knowers(id)
      <3>1. /\ n = Cardinality(K) /\ n \in Nat
            /\ \A d \in Clients : \A k \in known[d] :
                   k.id = id => k.obj = m_active_objects[id].obj
        BY <1>3, <2>6 DEF Inv, KnownInv
      <3>2. f[id].known_by_count = count(id)
        BY <1>6, <2>6
      <3>3. K \in SUBSET Clients
        BY <2>3
      <3>4. count(id) = IF n > 0 /\ c \in K THEN n - 1 ELSE n
        BY <1>7, <2>4
      <3>5. Knowers(id)' = K \ {c}
        BY <2>3
      <3> HIDE DEF K, n, count
      <3>6. count(id) = Cardinality(K \ {c})
        <4>1. CASE c \in K
          <5>1. Cardinality(K \ {c}) = n - 1 /\ n > 0
            BY <3>1, <3>3, <4>1, CountChanges
          <5> QED BY <3>4, <4>1, <5>1
        <4>2. CASE c \notin K
          <5>1. K \ {c} = K
            BY <4>2
          <5> QED BY <3>1, <3>4, <4>2, <5>1
        <4> QED BY <4>1, <4>2
      <3>7. ASSUME NEW d \in Clients, NEW k \in known'[d], k.id = id
            PROVE  k.obj = m_active_objects[id].obj
        BY <2>1, <3>1, <3>7
      <3> QED BY <2>6, <3>2, <3>5, <3>6, <3>7
    <2> QED BY <2>5, <2>6
  <1> QED BY <1>8, <1>9, <1>10 DEF Inv

\* A block is loaded as it is on disk, or is new and to be saved.
LEMMA LoadKeeps ==
    ASSUME Inv, NEW b \in Blocks, Load(b)
    PROVE  Inv'
  <1> DEFINE t == EmergeBlock(World, b, TRUE)
  <1>1. /\ block' = t.block
        /\ UNCHANGED <<m_active_objects, last_used_id, m_active_blocks, disk,
                       known, born, killed, exempt, forced, nevents>>
    BY Zenon DEF Load, World, objectVars
  <1>2. /\ Good(t, 0) /\ SameActive(World, t) /\ SameRest(World, t)
        /\ SameLists(World, t)
    BY EmergeKeeps DEF Inv, TypeInv, WorldInv
  <1>3. Synced(t, None)
    BY EmergeSyncs DEF Inv, TypeInv, WorldInv
  <1> HIDE DEF t
  <1>4. Become(t) /\ exempt' = exempt \cup t.lost
    BY <1>1, <1>2, WorldIs DEF Become, SameActive, SameRest
  <1>5. WorldInv' /\ World' \in States
    BY <1>1, <1>2, <1>3, <1>4, Becomes
  <1>6. TypeInv'
    BY <1>1, <1>5 DEF Inv, TypeInv, DiskOK
  <1>7. KnownInv'
    BY <1>1, SameKnowers DEF Inv
  <1>8. HomeInv'
    <2>1. Keeps(World, t)
      BY <1>2, SameActiveHomes DEF SameRest
    <2>2. Homes(t, born)
      BY <2>1 DEF Keeps, Inv, HomeInv
    <2> QED BY <1>1, <1>4, <2>2, HomesBecome DEF Inv
  <1> QED BY <1>5, <1>6, <1>7, <1>8 DEF Inv

\* What the disk has after a block, or all that need it, were saved.
LEMMA BlocksAre ==
    ASSUME Inv, NEW b \in Blocks
    PROVE  /\ block[b] \in MapBlocks /\ block[b].modified \in Nat
           /\ Serialize(block[b]) \in Seq(Objects)
           /\ Range(Serialize(block[b])) = Held(block[b])
           /\ Range(block[b].active) \in SUBSET Objects
  <1>1. block[b] \in MapBlocks
    BY WorldIs DEF Inv, TypeInv, States
  <1>2. block[b].modified \in Nat
    BY <1>1 DEF MapBlocks, Levels, MOD_STATE_CLEAN, MOD_STATE_WRITE_AT_UNLOAD,
                MOD_STATE_WRITE_NEEDED
  <1>3. Range(block[b].active) \in SUBSET Objects
    BY <1>1 DEF MapBlocks, Maps, Range
  <1> QED BY <1>1, <1>2, <1>3, SerializeIs

\* An object that has one home is in a block once.
LEMMA OnceIn ==
    ASSUME NEW s, Good(s, 0), NEW o, HomeOf(s, o), NEW b \in Blocks
    PROVE  /\ Alone(s.block[b], o)
           /\ \A i \in DOMAIN s.block[b].active :
                  s.block[b].active[i] = o =>
                      i \in Running(s, o) /\ s.objects[i].static_block = b
           /\ s.block[b].loaded => Listed(s, b) = s.block[b].stored
           /\ o \in Range(s.block[b].stored) => b \in Storing(s, o)
  <1>1. DOMAIN s.block[b].active \subseteq Ids /\ 0 \notin Ids
    BY DEF Good, States, MapBlocks, Maps, Ids
  <1>2. \A i \in DOMAIN s.block[b].active :
            s.block[b].active[i] = o =>
                i \in Running(s, o) /\ s.objects[i].static_block = b
    BY <1>1 DEF Good, MatchBut, Running
  <1>3. /\ s.block[b].loaded => Listed(s, b) = s.block[b].stored
        /\ ~s.block[b].loaded => s.block[b].stored = <<>>
        /\ Range(<<>>) = {} /\ Single(<<>>, o)
    BY DEF Listed, Good, Unused, Range, Single
  <1>4. o \in Range(s.block[b].stored) => b \in Storing(s, o)
    BY <1>3 DEF Storing
  <1>5. o \in Range(s.block[b].active) => Running(s, o) # {}
    BY <1>2 DEF Range
  <1>6. Single(s.block[b].stored, o)
    BY <1>3 DEF HomeOf
  <1>7. Alone(s.block[b], o)
    BY <1>2, <1>4, <1>5, <1>6 DEF Alone, HomeOf
  <1> QED BY <1>2, <1>3, <1>4, <1>7

\* The active entries of a block that is unloaded are lost. An object that was
\* alive is exempt from then on; one that was pending deactivation is a ghost,
\* and its home is the block on disk. The block is saved if it was modified.
LEMMA UnloadKeeps ==
    ASSUME Inv, NEW b \in Blocks, Unload(b)
    PROVE  Inv'
  <1> DEFINE active == block[b].active
             ghosts == {id \in DOMAIN active \cap DOMAIN m_active_objects :
                           /\ m_active_objects[id].pending
                           /\ ~m_active_objects[id].removed}
             v == {active[id] : id \in DOMAIN active \ ghosts}
             f == [id \in DOMAIN m_active_objects |->
                      IF id \in ghosts
                      THEN [m_active_objects[id] EXCEPT !.ghost = TRUE]
                      ELSE m_active_objects[id]]
  <1>1. /\ \/ disk' = disk /\ block[b].modified = MOD_STATE_CLEAN
           \/ disk' = Set(disk, b, Serialize(block[b]))
        /\ block[b].loaded
        /\ block' = [block EXCEPT ![b] = Unloaded]
        /\ exempt' = exempt \cup v /\ m_active_objects' = f
        /\ UNCHANGED nevents \/ Event
        /\ UNCHANGED <<last_used_id, m_active_blocks, known, born, killed,
                       forced>>
    BY DEF Unload
  <1>2. v \in SUBSET Objects /\ Serialize(block[b]) \in Seq(Objects)
    <2>1. Range(active) \in SUBSET Objects
      BY BlocksAre
    <2> QED BY <2>1, BlocksAre DEF Range
  <1>3. DiskOK /\ block \in [Blocks -> MapBlocks] /\ World \in States
    BY WorldIs DEF Inv, TypeInv, States
  <1>23. \A id \in DOMAIN active :
             /\ id \in DOMAIN m_active_objects /\ id # 0
             /\ m_active_objects[id].static_block = b
             /\ m_active_objects[id].obj = active[id]
             /\ ~m_active_objects[id].ghost
    <2>1. active \in Maps(Objects)
      BY <1>3 DEF MapBlocks
    <2>2. \A id \in DOMAIN active : id # 0
      BY <2>1 DEF Maps, Ids
    <2> HIDE DEF ghosts
    <2> QED BY <2>2, WorldIs DEF Inv, WorldInv, Good, MatchBut
  <1>24. ASSUME NEW id \in DOMAIN m_active_objects
         PROVE  /\ f[id] \in ActiveObject
                /\ f[id].obj = m_active_objects[id].obj
                /\ f[id].known_by_count = m_active_objects[id].known_by_count
                /\ f[id].removed = m_active_objects[id].removed
                /\ f[id].pending = m_active_objects[id].pending
                /\ f[id].static_block = m_active_objects[id].static_block
                /\ f[id].ghost = IF id \in ghosts THEN TRUE
                                 ELSE m_active_objects[id].ghost
                /\ id \notin ghosts => f[id] = m_active_objects[id]
                /\ id \in ghosts => f[id].ghost
    <2>1. m_active_objects[id] \in ActiveObject
      BY ObjectsAre
    <2> HIDE DEF ghosts
    <2> QED BY <2>1 DEF ActiveObject
  <1>25. DOMAIN f = DOMAIN m_active_objects /\ f \in Maps(ActiveObject)
    <2>1. DOMAIN m_active_objects \in SUBSET Ids
      BY <1>3, WorldIs DEF States, Maps
    <2>2. f = [id \in DOMAIN f |-> f[id]] /\ DOMAIN f = DOMAIN m_active_objects
      OBVIOUS
    <2> HIDE DEF f
    <2>3. f \in [DOMAIN m_active_objects -> ActiveObject]
      BY <1>24, <2>2
    <2> QED BY <2>1, <2>2, <2>3 DEF Maps
  <1>26. /\ \A id \in ghosts : /\ id \in DOMAIN active
                              /\ m_active_objects[id].pending
                              /\ ~m_active_objects[id].removed
         /\ \A id \in DOMAIN active : id \in ghosts \/ active[id] \in v
    OBVIOUS
  <1> HIDE DEF v, f, ghosts, active
  <1>4. /\ block' \in [Blocks -> MapBlocks] /\ block'[b] = Unloaded
        /\ \A c \in Blocks : c # b => block'[c] = block[c]
    BY <1>1, <1>3, UnloadedIs
  <1>5. DiskOK' /\ \A c \in Blocks : c # b =>
            /\ c \in DOMAIN disk => c \in DOMAIN disk' /\ disk'[c] = disk[c]
    BY <1>1, <1>2, <1>3 DEF DiskOK, Set
  <1>6. PICK w : w = World'
    OBVIOUS
  <1>7. /\ w.objects = f /\ w.last = last_used_id
        /\ w.block = block' /\ w.force = FALSE /\ w.lost = {}
        /\ w = [objects |-> w.objects, last |-> w.last, block |-> w.block,
                force |-> w.force, lost |-> w.lost]
    BY <1>1, <1>6 DEF World, State
  <1>8. w \in States
    BY <1>3, <1>4, <1>7, <1>25, WorldIs DEF States
  <1>9. Good(w, 0)
    <2>1. Unused(w)
      BY <1>4, <1>7, UnloadedIs, WorldIs DEF Inv, WorldInv, Good, Unused
    <2>2. MatchBut(w, 0)
      <3>1. ASSUME NEW c \in Blocks, NEW id \in DOMAIN w.block[c].active,
                   id # 0
            PROVE  /\ id \in DOMAIN w.objects
                   /\ w.objects[id].static_block = c
                   /\ w.objects[id].obj = w.block[c].active[id]
                   /\ ~w.objects[id].ghost
        <4>1. c # b /\ w.block[c] = World.block[c]
          BY <1>4, <1>7, <3>1, UnloadedIs, WorldIs
        <4>2. /\ id \in DOMAIN m_active_objects
              /\ m_active_objects[id].static_block = c
              /\ m_active_objects[id].obj = w.block[c].active[id]
              /\ ~m_active_objects[id].ghost
          BY <3>1, <4>1, WorldIs DEF Inv, WorldInv, Good, MatchBut
        <4>3. id \notin ghosts
          BY <1>23, <1>26, <4>1, <4>2
        <4> QED BY <1>7, <1>24, <1>25, <4>2, <4>3
      <3>2. ASSUME NEW id \in DOMAIN w.objects, id # 0, w.objects[id].ghost
            PROVE  w.objects[id].pending
        <4>1. id \in DOMAIN m_active_objects
          BY <1>7, <1>25
        <4>2. m_active_objects[id].ghost => m_active_objects[id].pending
          BY <3>2, <4>1, WorldIs DEF Inv, WorldInv, Good, MatchBut
        <4> QED BY <1>7, <1>24, <1>26, <3>2, <4>1, <4>2
      <3> QED BY <3>1, <3>2 DEF MatchBut
    <2> QED BY <1>8, <2>1, <2>2 DEF Good
  <1>10. Synced(w, None)'
    <2>1. SUFFICES ASSUME NEW c \in Blocks, c # None, w.block[c].loaded,
                          w.block[c].modified < MOD_STATE_WRITE_NEEDED
                   PROVE  /\ c \in DOMAIN disk'
                          /\ Held(w.block[c]) \ (exempt' \cup w.lost)
                                 = Range(disk'[c]) \ (exempt' \cup w.lost)
      BY <1>6 DEF Synced
    <2>2. c # b /\ w.block[c] = World.block[c]
      BY <1>4, <1>7, <2>1, UnloadedIs, WorldIs
    <2>3. /\ c \in DOMAIN disk
          /\ Held(w.block[c]) \ (exempt \cup World.lost)
                 = Range(disk[c]) \ (exempt \cup World.lost)
      BY <2>1, <2>2 DEF Inv, WorldInv, Synced
    <2>4. c \in DOMAIN disk' /\ disk'[c] = disk[c]
      BY <1>5, <2>2, <2>3
    <2> QED BY <1>1, <1>7, <2>3, <2>4, WorldIs
  <1>11. WorldInv' /\ World' \in States
    BY <1>6, <1>8, <1>9, <1>10 DEF WorldInv
  <1>12. TypeInv'
    <2>1. nevents' \in 0 .. MaxEvents
      BY <1>1, EventIs DEF Inv, TypeInv
    <2> QED BY <1>1, <1>2, <1>5, <1>11, <2>1 DEF Inv, TypeInv
  <1>13. KnownInv'
    BY <1>1, <1>24, <1>25, SameKnowers DEF Inv
  <1>14. ASSUME NEW o \in Sound(World)
         PROVE  /\ b \in DOMAIN disk' /\ Single(disk'[b], o)
                /\ o \in Range(disk'[b]) <=> o \in Held(block[b])
    <2>1. HomeOf(World, o) /\ Good(World, 0)
      BY DEF Inv, HomeInv, Homes, WorldInv
    <2>2. Alone(block[b], o)
      BY <2>1, OnceIn, WorldIs
    <2>4. CASE disk' = disk /\ block[b].modified = MOD_STATE_CLEAN
      <3>1. World.block[b].modified < MOD_STATE_WRITE_NEEDED /\ b # None
        BY <2>4, WorldIs DEF MOD_STATE_CLEAN, MOD_STATE_WRITE_NEEDED, None,
                             Blocks
      <3>2. /\ b \in DOMAIN disk
            /\ Held(World.block[b]) \ (exempt \cup World.lost)
                   = Range(disk[b]) \ (exempt \cup World.lost)
        BY <1>1, <3>1, WorldIs DEF Inv, WorldInv, Synced
      <3>3. o \in Objects \ exempt /\ o \notin World.lost
        BY DEF Sound
      <3>4. Single(disk[b], o)
        BY <3>2, <3>3 DEF Inv, HomeInv, DiskOnce
      <3> QED BY <2>4, <3>2, <3>3, <3>4, WorldIs
    <2>5. CASE disk' = Set(disk, b, Serialize(block[b]))
      <3>1. b \in DOMAIN disk' /\ disk'[b] = Serialize(block[b])
        BY <2>5 DEF Set
      <3>2. /\ Range(Serialize(block[b])) = Held(block[b])
            /\ Single(Serialize(block[b]), o)
        BY <2>2, BlocksAre, SerializeIs
      <3> QED BY <3>1, <3>2
    <2> QED BY <1>1, <2>4, <2>5
  <1>22. \A c \in Blocks \ {b} :
             c \in DOMAIN disk' => c \in DOMAIN disk /\ disk'[c] = disk[c]
    BY <1>1, <1>5 DEF Set
  <1>15. \A c \in Blocks : c # b => Listed(w, c)' = Listed(World, c)
    BY <1>4, <1>5, <1>7, <1>22, WorldIs DEF Listed
  <1>16. Listed(World, b) = block[b].stored
    BY <1>1, WorldIs DEF Listed
  <1>17. b \in DOMAIN disk' => Listed(w, b)' = disk'[b]
    BY <1>4, <1>7, UnloadedIs DEF Listed
  <1>27. \A o : o \in Range(active) <=> \E i \in DOMAIN active : active[i] = o
    BY DEF Range
  <1>28. ASSUME NEW o \in Sound(World), NEW g \in ghosts, active[g] = o
         PROVE  /\ HomeOf(w, o)'
                /\ Housed(w, o)' /\ Housed(World, o)
    <2>1. HomeOf(World, o)
      BY DEF Inv, HomeInv, Homes
    <2>2. g \in Running(World, o) /\ ~World.objects[g].removed
      BY <1>23, <1>26, <1>28, WorldIs DEF Running
    <2>3. /\ Running(World, o) = {g} /\ Storing(World, o) = {}
          /\ o \notin killed
      BY <2>1, <2>2 DEF HomeOf
    <2>4. /\ b \in DOMAIN disk' /\ Single(disk'[b], o)
          /\ o \in Range(disk'[b])
      <3>1. o \in Held(block[b])
        BY <1>26, <1>27, <1>28 DEF Held, active
      <3> QED BY <1>14, <3>1
    <2>5. Running(w, o)' = {}
      <3>1. ASSUME NEW i \in DOMAIN f, f[i].obj = o PROVE f[i].ghost
        <4>1. i \in DOMAIN m_active_objects /\ m_active_objects[i].obj = o
          BY <1>24, <1>25, <3>1
        <4>2. CASE i = g
          BY <1>24, <1>28, <4>1, <4>2
        <4>3. CASE i # g
          <5>1. m_active_objects[i].ghost
            BY <2>3, <4>1, <4>3, WorldIs DEF Running
          <5>2. i \in ghosts \/ f[i] = m_active_objects[i]
            BY <1>24, <4>1
          <5> QED BY <1>24, <4>1, <5>1, <5>2
        <4> QED BY <4>2, <4>3
      <3> QED BY <1>7, <3>1 DEF Running
    <2>6. ASSUME NEW c \in Blocks
          PROVE  /\ Single(Listed(w, c)', o)
                 /\ o \in Range(Listed(w, c)') <=> c = b
      <3>1. CASE c = b
        BY <1>17, <2>4, <3>1
      <3>2. CASE c # b
        <4>1. Single(Listed(World, c), o) /\ c \notin Storing(World, o)
          BY <2>1, <2>3 DEF HomeOf
        <4> QED BY <1>15, <3>2, <4>1 DEF Storing
      <3> QED BY <3>1, <3>2
    <2>7. Storing(w, o)' = {b}
      BY <2>6 DEF Storing
    <2>8. o \notin killed'
      BY <1>1, <2>3
    <2>9. HomeOf(w, o)'
      BY <2>5, <2>6, <2>7, <2>8 DEF HomeOf
    <2>10. Housed(w, o)'
      BY <2>7 DEF Housed
    <2> QED BY <2>2, <2>9, <2>10 DEF Housed
  <1>18. ASSUME NEW o \in Sound(w)'
         PROVE  /\ o \in Sound(World)
                /\ HomeOf(w, o)'
                /\ Housed(w, o)' <=> Housed(World, o)
    <2>1. o \in Sound(World) /\ o \notin v
      BY <1>1, <1>7, WorldIs DEF Sound
    <2>9. CASE \E g \in ghosts : active[g] = o
      BY <1>28, <2>1, <2>9
    <2>10. SUFFICES ASSUME ~ \E g \in ghosts : active[g] = o
                    PROVE  /\ HomeOf(w, o)'
                           /\ Housed(w, o)' <=> Housed(World, o)
      BY <2>1, <2>9
    <2>11. o \notin Range(active)
      BY <1>26, <1>27, <2>1, <2>10
    <2>2. \A c \in Blocks :
              /\ Single(Listed(World, c), o) => Single(Listed(w, c)', o)
              /\ o \in Range(Listed(w, c)') <=> o \in Range(Listed(World, c))
      <3>1. ASSUME NEW c \in Blocks
            PROVE  /\ Single(Listed(World, c), o) => Single(Listed(w, c)', o)
                   /\ o \in Range(Listed(w, c)')
                          <=> o \in Range(Listed(World, c))
        <4>1. CASE c = b
          <5>1. /\ b \in DOMAIN disk' /\ Single(disk'[b], o)
                /\ o \in Range(disk'[b]) <=> o \in Range(block[b].stored)
            BY <1>14, <2>1, <2>11 DEF Held, active
          <5>2. Single(Listed(w, b)', o)
            BY <1>17, <5>1
          <5>3. o \in Range(Listed(w, b)') <=> o \in Range(Listed(World, b))
            BY <1>16, <1>17, <5>1
          <5> QED BY <4>1, <5>2, <5>3
        <4>2. CASE c # b
          BY <1>15, <4>2
        <4> QED BY <4>1, <4>2
      <3> QED BY <3>1
    <2>3. Running(w, o) = Running(World, o)
      <3>1. ASSUME NEW i \in DOMAIN m_active_objects
            PROVE  /\ f[i].obj = m_active_objects[i].obj
                   /\ f[i].obj = o => f[i] = m_active_objects[i]
        <4>1. /\ f[i].obj = m_active_objects[i].obj
              /\ i \notin ghosts => f[i] = m_active_objects[i]
          BY <1>24
        <4>2. m_active_objects[i].obj = o => i \notin ghosts
          BY <1>23, <1>26, <2>10
        <4> QED BY <4>1, <4>2
      <3> QED BY <1>7, <1>25, <3>1, WorldIs DEF Running
    <2>4. ASSUME NEW id \in Running(World, o), HasEntry(World, id)
          PROVE  HasEntry(w, id)
      <3>1. id \in DOMAIN m_active_objects /\ m_active_objects[id].obj = o
        BY WorldIs DEF Running
      <3>2. CASE m_active_objects[id].static_block \in Entered(World, id)
        <4> DEFINE c == m_active_objects[id].static_block
        <4>1. c \in Blocks /\ id \in DOMAIN block[c].active /\ id # 0
          BY <3>1, <3>2, ObjectsAre, WorldIs DEF Entered, Ids
        <4>2. block[c].active[id] = o
          BY <3>1, <4>1, WorldIs DEF Inv, WorldInv, Good, MatchBut
        <4>3. c # b
          BY <1>27, <2>11, <4>1, <4>2 DEF active
        <4>4. c \in Entered(w, id)
          BY <1>4, <1>7, <4>1, <4>3 DEF Entered
        <4> QED BY <1>7, <1>24, <3>1, <4>4 DEF HasEntry
      <3>3. CASE ~(m_active_objects[id].static_block \in Entered(World, id))
        BY <1>7, <1>24, <2>4, <3>1, <3>3, WorldIs DEF HasEntry
      <3> QED BY <3>2, <3>3
    <2>5. \A id \in Running(World, o) :
              w.objects[id].removed = World.objects[id].removed
      BY <1>7, <1>24, WorldIs DEF Running
    <2>6. UNCHANGED killed
      BY <1>1
    <2>7. /\ HomeOf(World, o) => HomeOf(w, o)'
          /\ Housed(w, o)' <=> Housed(World, o)
      BY <2>2, <2>3, <2>4, <2>5, <2>6, NextHome
    <2>8. HomeOf(World, o)
      BY <2>1 DEF Inv, HomeInv, Homes
    <2> QED BY <2>7, <2>8
  <1>19. Homes(w, born)'
    <2>1. ASSUME NEW id \in DOMAIN w.objects, w.objects[id].removed
          PROVE  w.objects[id].obj \in killed'
      BY <1>1, <1>7, <1>24, <1>25, <2>1, WorldIs DEF Inv, HomeInv, Homes
    <2>2. ASSUME NEW o \in Sound(w)'
          PROVE  /\ HomeOf(w, o)'
                 /\ Housed(w, o)' => o \in born'
                 /\ o \in born' \ killed' => Housed(w, o)'
      BY <1>1, <1>18, <2>2 DEF Inv, HomeInv, Homes
    <2> QED BY <2>1, <2>2 DEF Homes
  <1>20. ASSUME NEW o \in Objects \ exempt', NEW c \in DOMAIN disk'
         PROVE  Single(disk'[c], o) /\ (o \in Range(disk'[c]) => o \in born')
    <2>1. /\ o \in Sound(World) /\ o \in Objects \ exempt
          /\ c \in Blocks
      BY <1>1, <1>5, WorldIs DEF Sound, DiskOK
    <2>2. CASE c = b
      <3>1. /\ Single(disk'[b], o)
            /\ o \in Range(disk'[b]) <=> o \in Held(block[b])
        BY <1>14, <2>1
      <3>2. o \in Held(block[b]) => Housed(World, o)
        <4>1. HomeOf(World, o) /\ Good(World, 0)
          BY <2>1 DEF Inv, HomeInv, Homes, WorldInv
        <4>2. /\ \A i \in DOMAIN active : active[i] = o =>
                     i \in Running(World, o)
              /\ o \in Range(block[b].stored) => b \in Storing(World, o)
          BY <4>1, OnceIn, WorldIs DEF active
        <4> QED BY <1>27, <4>2 DEF Held, Housed, active
      <3>3. Housed(World, o) => o \in born
        BY <2>1 DEF Inv, HomeInv, Homes
      <3> QED BY <1>1, <2>2, <3>1, <3>2, <3>3
    <2>3. CASE c # b
      <3>1. c \in DOMAIN disk /\ disk'[c] = disk[c]
        BY <1>22, <2>1, <2>3
      <3> QED BY <1>1, <2>1, <3>1 DEF Inv, HomeInv, DiskOnce
    <2> QED BY <2>2, <2>3
  <1>21. HomeInv'
    <2>1. Homes(World, born)'
      BY <1>6, <1>19
    <2>2. DiskOnce'
      BY <1>20 DEF DiskOnce
    <2>3. killed' \subseteq born' \cup exempt'
      BY <1>1 DEF Inv, HomeInv
    <2> QED BY <2>1, <2>2, <2>3 DEF HomeInv
  <1> QED BY <1>11, <1>12, <1>13, <1>21 DEF Inv

\* What the disk has when all blocks from a level on were saved.
LEMMA SavedIs ==
    ASSUME DiskOK, NEW mb \in [Blocks -> MapBlocks], NEW level
    PROVE  /\ DOMAIN Saved(mb, level) \subseteq Blocks
           /\ \A b \in DOMAIN Saved(mb, level) :
                  Saved(mb, level)[b] \in Seq(Objects)
           /\ \A b \in Blocks :
                  IF mb[b].loaded /\ mb[b].modified >= level
                  THEN /\ b \in DOMAIN Saved(mb, level)
                       /\ Saved(mb, level)[b] = Serialize(mb[b])
                       /\ Range(Saved(mb, level)[b]) = Held(mb[b])
                  ELSE /\ b \in DOMAIN Saved(mb, level) <=> b \in DOMAIN disk
                       /\ b \in DOMAIN disk => Saved(mb, level)[b] = disk[b]
  <1> DEFINE D == DOMAIN disk \cup {c \in Blocks : /\ mb[c].loaded
                                                   /\ mb[c].modified >= level}
             d == Saved(mb, level)
  <1>1. \A b \in Blocks : /\ Serialize(mb[b]) \in Seq(Objects)
                          /\ Range(Serialize(mb[b])) = Held(mb[b])
    BY SerializeIs
  <1>2. /\ DOMAIN d = D
        /\ \A b \in D : d[b] = IF mb[b].loaded /\ mb[b].modified >= level
                               THEN Serialize(mb[b]) ELSE disk[b]
    BY DEF Saved
  <1>3. \A b \in D : b \in Blocks
    BY DEF DiskOK
  <1>4. \A b \in Blocks : b \in D <=> \/ b \in DOMAIN disk
                                      \/ mb[b].loaded /\ mb[b].modified >= level
    OBVIOUS
  <1> HIDE DEF D, d
  <1>5. \A b \in D : d[b] \in Seq(Objects)
    BY <1>1, <1>2, <1>3, <1>4 DEF DiskOK
  <1>6. \A b \in Blocks :
            IF mb[b].loaded /\ mb[b].modified >= level
            THEN b \in D /\ d[b] = Serialize(mb[b]) /\ Range(d[b]) = Held(mb[b])
            ELSE /\ b \in D <=> b \in DOMAIN disk
                 /\ b \in DOMAIN disk => d[b] = disk[b]
    BY <1>1, <1>2, <1>4
  <1>7. D \subseteq Blocks
    BY <1>3
  <1> QED BY <1>2, <1>5, <1>6, <1>7 DEF d

\* The saved blocks are clean, and are as on disk.
LEMMA SaveKeeps ==
    ASSUME Inv, Save
    PROVE  Inv'
  <1> DEFINE level == MOD_STATE_WRITE_NEEDED
             clean(b) == [block[b] EXCEPT !.modified = MOD_STATE_CLEAN]
             after == [b \in Blocks |-> IF block[b].modified >= level
                                        THEN clean(b) ELSE block[b]]
             d == Saved(block, level)
  <1>1. /\ disk' = d /\ block' = after
        /\ UNCHANGED <<m_active_objects, last_used_id, m_active_blocks,
                       known, born, killed, exempt, forced, nevents>>
    BY DEF Save, objectVars
  <1>2. DiskOK /\ block \in [Blocks -> MapBlocks] /\ World \in States
    BY WorldIs DEF Inv, TypeInv, States
  <1>3. \A b \in Blocks : block[b] \in MapBlocks /\ block[b].modified \in Nat
    BY BlocksAre
  <1>4. ASSUME NEW b \in Blocks
        PROVE  /\ clean(b) \in MapBlocks
               /\ clean(b).loaded = block[b].loaded
               /\ clean(b).stored = block[b].stored
               /\ clean(b).active = block[b].active
    BY <1>3, LevelsAre DEF MapBlocks
  <1>5. /\ \A b \in DOMAIN d : d[b] \in Seq(Objects)
        /\ DOMAIN d \subseteq Blocks
        /\ \A b \in Blocks :
               IF block[b].loaded /\ block[b].modified >= level
               THEN /\ b \in DOMAIN d /\ Range(d[b]) = Held(block[b])
                    /\ d[b] = Serialize(block[b])
               ELSE /\ b \in DOMAIN d <=> b \in DOMAIN disk
                    /\ b \in DOMAIN disk => d[b] = disk[b]
    BY <1>2, SavedIs
  <1>6. /\ after \in [Blocks -> MapBlocks]
        /\ \A b \in Blocks :
               /\ after[b].loaded = block[b].loaded
               /\ after[b].stored = block[b].stored
               /\ after[b].active = block[b].active
               /\ block[b].modified >= level \/ after[b] = block[b]
    BY <1>3, <1>4
  <1> HIDE DEF d, after, clean
  <1>7. PICK w : w = World'
    OBVIOUS
  <1>8. /\ w.objects = m_active_objects /\ w.last = last_used_id
        /\ w.block = after /\ w.force = FALSE /\ w.lost = {}
        /\ w = [objects |-> w.objects, last |-> w.last, block |-> w.block,
                force |-> w.force, lost |-> w.lost]
    BY <1>1, <1>7 DEF World, State
  <1>9. w \in States
    BY <1>2, <1>6, <1>8, WorldIs DEF States
  <1>10. Good(w, 0)
    <2>1. Unused(w)
      BY <1>6, <1>8, WorldIs DEF Inv, WorldInv, Good, Unused
    <2>2. MatchBut(w, 0)
      BY <1>6, <1>8, WorldIs DEF Inv, WorldInv, Good, MatchBut
    <2> QED BY <1>9, <2>1, <2>2 DEF Good
  <1>11. Synced(w, None)'
    <2>1. SUFFICES ASSUME NEW b \in Blocks, b # None, w.block[b].loaded,
                          w.block[b].modified < MOD_STATE_WRITE_NEEDED
                   PROVE  /\ b \in DOMAIN d
                          /\ Held(w.block[b]) \ (exempt \cup w.lost)
                                 = Range(d[b]) \ (exempt \cup w.lost)
      BY <1>1, <1>7 DEF Synced
    <2>2. /\ w.block[b] = after[b] /\ block[b].loaded
          /\ Held(w.block[b]) = Held(block[b])
      BY <1>6, <1>8, <2>1 DEF Held
    <2>3. CASE block[b].modified >= level
      BY <1>5, <2>2, <2>3
    <2>4. CASE ~(block[b].modified >= level)
      <3>1. block[b].modified < level
        <4>1. level \in Nat
          BY DEF MOD_STATE_WRITE_NEEDED
        <4> QED BY <1>3, <2>4, <4>1
      <3>2. /\ b \in DOMAIN disk
            /\ Held(block[b]) \ (exempt \cup World.lost)
                   = Range(disk[b]) \ (exempt \cup World.lost)
        BY <2>1, <2>2, <3>1, WorldIs DEF Inv, WorldInv, Synced
      <3>3. b \in DOMAIN d /\ d[b] = disk[b]
        BY <1>5, <2>4, <3>2
      <3> QED BY <1>8, <2>2, <3>2, <3>3, WorldIs
    <2> QED BY <2>3, <2>4
  <1>12. WorldInv' /\ World' \in States
    BY <1>7, <1>9, <1>10, <1>11 DEF WorldInv
  <1>13. TypeInv'
    <2>1. DiskOK'
      BY <1>1, <1>5 DEF DiskOK
    <2> QED BY <1>1, <1>12, <2>1 DEF Inv, TypeInv
  <1>14. KnownInv'
    BY <1>1, SameKnowers DEF Inv
  <1>15. \A b \in Blocks : Listed(w, b)' = Listed(World, b)
    BY <1>1, <1>5, <1>6, <1>8, WorldIs DEF Listed
  <1>16. Sound(w)' = Sound(World)
    BY <1>1, <1>8, WorldIs DEF Sound
  <1>17. ASSUME NEW o \in Sound(World)
         PROVE  /\ HomeOf(World, o) /\ HomeOf(w, o)'
                /\ Housed(w, o)' <=> Housed(World, o)
    <2>1. Running(w, o) = Running(World, o)
      BY <1>8, WorldIs DEF Running
    <2>2. \A i : HasEntry(World, i) <=> HasEntry(w, i)
      BY <1>6, <1>8, WorldIs DEF HasEntry, Entered
    <2>3. UNCHANGED killed /\ w.objects = World.objects
      BY <1>1, <1>8, WorldIs
    <2>4. /\ HomeOf(World, o) => HomeOf(w, o)'
          /\ Housed(w, o)' <=> Housed(World, o)
      BY <1>15, <2>1, <2>2, <2>3, NextHome
    <2> QED BY <2>4 DEF Inv, HomeInv, Homes
  <1>18. Homes(w, born)'
    BY <1>1, <1>8, <1>16, <1>17, WorldIs DEF Inv, HomeInv, Homes
  <1>19. ASSUME NEW o \in Objects \ exempt', NEW b \in DOMAIN d
         PROVE  Single(d[b], o) /\ (o \in Range(d[b]) => o \in born)
    <2>1. o \in Sound(World) /\ o \in Objects \ exempt /\ b \in Blocks
      BY <1>1, <1>5, WorldIs DEF Sound
    <2>2. CASE block[b].loaded /\ block[b].modified >= level
      <3>1. HomeOf(World, o) /\ Good(World, 0)
        BY <1>17, <2>1 DEF Inv, WorldInv
      <3>2. /\ Alone(block[b], o)
            /\ o \in Range(block[b].active) => Running(World, o) # {}
            /\ o \in Range(block[b].stored) => Storing(World, o) # {}
        BY <2>1, <3>1, OnceIn, WorldIs DEF Range
      <3>3. Single(Serialize(block[b]), o)
        BY <1>3, <2>1, <3>2, SerializeIs
      <3>4. o \in Held(block[b]) => Housed(World, o)
        BY <3>2 DEF Held, Housed
      <3>5. Housed(World, o) => o \in born
        BY <2>1 DEF Inv, HomeInv, Homes
      <3> QED BY <1>5, <2>1, <2>2, <3>3, <3>4, <3>5
    <2>3. CASE ~(block[b].loaded /\ block[b].modified >= level)
      <3>1. b \in DOMAIN disk /\ d[b] = disk[b]
        BY <1>5, <2>1, <2>3
      <3> QED BY <2>1, <3>1 DEF Inv, HomeInv, DiskOnce
    <2> QED BY <2>2, <2>3
  <1>20. HomeInv'
    <2>1. Homes(World, born)'
      BY <1>7, <1>18
    <2>2. DiskOnce'
      BY <1>1, <1>19 DEF DiskOnce
    <2>3. killed' \subseteq born' \cup exempt'
      BY <1>1 DEF Inv, HomeInv
    <2> QED BY <2>1, <2>2, <2>3 DEF HomeInv
  <1> QED BY <1>12, <1>13, <1>14, <1>20 DEF Inv

\* The server is started with what is on disk.
LEMMA StartKeeps ==
    ASSUME Inv, NEW d, StartAgain(d), DOMAIN d \subseteq Blocks,
           \A b \in DOMAIN d : d[b] \in Seq(Objects),
           born' \in SUBSET Objects, killed' \in SUBSET Objects,
           exempt' \in SUBSET Objects, Event,
           \A o \in Objects \ exempt' :
               /\ \A b \in DOMAIN d : Single(d[b], o)
               /\ \A b, c \in DOMAIN d :
                      o \in Range(d[b]) /\ o \in Range(d[c]) => b = c
               /\ (\E b \in DOMAIN d : o \in Range(d[b]))
                      <=> o \in born' \ killed',
           killed' \subseteq born' \cup exempt'
    PROVE  Inv'
  <1>1. World' = [objects |-> Nothing, last |-> 0,
                  block |-> [b \in Blocks |-> Unloaded],
                  force |-> FALSE, lost |-> {}]
    BY DEF World, State, StartAgain
  <1>2. WorldInv' /\ World' \in States
    <2>1. PICK w : w = World'
      OBVIOUS
    <2>2. Good(w, 0) /\ \A b \in Blocks : ~w.block[b].loaded
      BY <1>1, <2>1, EmptyWorld
    <2>3. Synced(w, None)'
      BY <2>2 DEF Synced
    <2> QED BY <2>1, <2>2, <2>3 DEF WorldInv, Good
  <1>3. DiskOK'
    BY DEF DiskOK, StartAgain
  <1>4. TypeInv'
    <2>1. nevents' \in 0 .. MaxEvents
      BY EventIs DEF Inv, TypeInv
    <2> QED BY <1>2, <1>3, <2>1 DEF TypeInv, StartAgain
  <1>5. KnownInv'
    <2>1. \A id : Knowers(id)' = {}
      BY DEF Knowers, StartAgain
    <2>2. DOMAIN m_active_objects' = {}
      BY NothingIs DEF StartAgain
    <2> QED BY <2>1, <2>2 DEF KnownInv
  <1>6. HomeInv'
    <2>1. PICK w : w = World'
      OBVIOUS
    <2>2. /\ DOMAIN w.objects = {} /\ w.lost = {}
          /\ \A b \in Blocks : ~w.block[b].loaded
      <3>1. w = [objects |-> Nothing, last |-> 0,
                 block |-> [b \in Blocks |-> Unloaded],
                 force |-> FALSE, lost |-> {}]
        BY <1>1, <2>1
      <3>2. w.objects = Nothing /\ w.lost = {}
        BY <3>1
      <3> QED BY <3>1, <3>2, EmptyWorld, NothingIs
    <2>3. disk' = d
      BY DEF StartAgain
    <2>4. \A b \in Blocks :
              Listed(w, b)' = IF b \in DOMAIN d THEN d[b] ELSE <<>>
      BY <2>2, <2>3 DEF Listed
    <2>5. \A o : Running(w, o)' = {}
      BY <2>2 DEF Running
    <2>6. \A o : Storing(w, o)' = {b \in DOMAIN d : o \in Range(d[b])}
      <3>1. Range(<<>>) = {}
        BY DEF Range
      <3> QED BY <2>4, <3>1 DEF Storing
    <2>7. Sound(w)' = Objects \ exempt'
      BY <2>2 DEF Sound
    <2>8. ASSUME NEW o \in Objects \ exempt'
          PROVE  /\ HomeOf(w, o)'
                 /\ Housed(w, o)' <=> o \in born' \ killed'
      <3>1. Housed(w, o)' <=> \E b \in DOMAIN d : o \in Range(d[b])
        <4>1. Housed(w, o)' <=> Storing(w, o)' # {} \/ Running(w, o)' # {}
          BY DEF Housed
        <4>2. /\ Running(w, o)' = {}
              /\ Storing(w, o)' = {b \in DOMAIN d : o \in Range(d[b])}
          BY <2>5, <2>6
        <4> QED BY <4>1, <4>2
      <3>2. \A b \in Blocks : Single(Listed(w, b)', o)
        <4>1. Single(<<>>, o)
          BY DEF Single
        <4> QED BY <2>4, <4>1
      <3>3. /\ \A b, c \in Storing(w, o)' : b = c
            /\ o \in killed' => Storing(w, o)' = {}
        BY <2>6
      <3>4. HomeOf(w, o)'
        BY <2>5, <3>2, <3>3 DEF HomeOf
      <3> QED BY <3>1, <3>4
    <2>9. Homes(w, born)'
      BY <2>2, <2>7, <2>8 DEF Homes
    <2>10. Homes(World, born)'
      BY <2>1, <2>9
    <2>11. DiskOnce'
      BY <2>3 DEF DiskOnce
    <2> QED BY <2>10, <2>11 DEF HomeInv
  <1> QED BY <1>2, <1>4, <1>5, <1>6 DEF Inv

\* Where the contents of the blocks have an object that has one home.
LEMMA HomeIs ==
    ASSUME Inv, NEW o \in Sound(World)
    PROVE  /\ \A b, c \in Home(o) : b = c
           /\ \A b \in Blocks : Single(Contents(b), o)
           /\ Home(o) # {} => o \in born
           /\ o \in born \ killed => Home(o) # {}
  <1>1. /\ HomeOf(World, o) /\ Good(World, 0)
        /\ Housed(World, o) => o \in born
        /\ o \in born \ killed => Housed(World, o)
    BY DEF Inv, HomeInv, Homes, WorldInv
  <1>2. ASSUME NEW b \in Blocks
        PROVE  /\ Single(Contents(b), o)
               /\ o \in Range(Contents(b)) <=>
                      \/ b \in Storing(World, o)
                      \/ \E i \in DOMAIN block[b].active :
                             block[b].active[i] = o
               /\ \A i \in DOMAIN block[b].active :
                      block[b].active[i] = o =>
                          /\ i \in Running(World, o)
                          /\ World.objects[i].static_block = b
    <2>1. /\ Alone(block[b], o)
          /\ \A i \in DOMAIN block[b].active :
                 block[b].active[i] = o =>
                     /\ i \in Running(World, o)
                     /\ World.objects[i].static_block = b
          /\ block[b].loaded => Listed(World, b) = block[b].stored
          /\ o \in Range(block[b].stored) => b \in Storing(World, o)
      BY <1>1, OnceIn, WorldIs
    <2>2. CASE block[b].loaded
      <3>1. Contents(b) = Serialize(block[b])
        BY <2>2 DEF Contents
      <3>2. /\ Range(Contents(b)) = Held(block[b])
            /\ Single(Contents(b), o)
        BY <2>1, <3>1, BlocksAre, SerializeIs
      <3>3. b \in Storing(World, o) <=> o \in Range(block[b].stored)
        BY <2>1, <2>2 DEF Storing
      <3>4. o \in Range(block[b].active) <=>
                \E i \in DOMAIN block[b].active : block[b].active[i] = o
        BY DEF Range
      <3> QED BY <2>1, <3>2, <3>3, <3>4 DEF Held
    <2>3. CASE ~block[b].loaded
      <3>1. Contents(b) = Listed(World, b)
        BY <2>3, WorldIs DEF Contents, Listed
      <3>2. DOMAIN block[b].active = {}
        BY <1>1, <2>3, WorldIs DEF Good, Unused
      <3>3. Single(Listed(World, b), o)
        BY <1>1 DEF HomeOf
      <3> QED BY <2>1, <3>1, <3>2, <3>3 DEF Storing
    <2> QED BY <2>2, <2>3
  <1>3. \A b, c \in Home(o) : b = c
    <2> SUFFICES ASSUME NEW b \in Home(o), NEW c \in Home(o) PROVE b = c
      OBVIOUS
    <2>1. b \in Blocks /\ c \in Blocks
      BY DEF Home
    <2> QED BY <1>1, <1>2, <2>1 DEF Home, HomeOf
  <1>4. Home(o) # {} => Housed(World, o)
    BY <1>2 DEF Home, Housed
  <1>5. ASSUME o \in born \ killed PROVE Home(o) # {}
    <2>1. CASE Storing(World, o) # {}
      BY <1>2, <2>1 DEF Home, Storing
    <2>2. CASE Running(World, o) # {}
      <3>1. PICK i \in Running(World, o) : TRUE
        BY <2>2
      <3>2. i \in DOMAIN m_active_objects /\ m_active_objects[i].obj = o
        BY <3>1, WorldIs DEF Running
      <3>3. ~m_active_objects[i].removed
        BY <1>5, <3>2, WorldIs DEF Inv, HomeInv, Homes
      <3> DEFINE b == m_active_objects[i].static_block
      <3>4. b \in Blocks /\ i \in DOMAIN block[b].active /\ i # 0
        BY <1>1, <3>1, <3>2, <3>3, ObjectsAre, WorldIs
           DEF HomeOf, HasEntry, Entered, Ids
      <3>5. block[b].active[i] = o
        BY <1>1, <3>2, <3>4, WorldIs DEF Good, MatchBut
      <3> QED BY <1>2, <3>4, <3>5 DEF Home
    <2> QED BY <1>1, <1>5, <2>1, <2>2 DEF Housed
  <1> QED BY <1>1, <1>2, <1>3, <1>4, <1>5

\* Nothing is in memory after either.
LEMMA CrashKeeps ==
    ASSUME Inv, Crash
    PROVE  Inv'
  <1>1. /\ StartAgain(disk) /\ Event
        /\ born' \in SUBSET Objects /\ killed' \in SUBSET Objects
        /\ exempt' \in SUBSET Objects
    BY DEF Crash, Inv, TypeInv
  <1>2. /\ exempt' = exempt \cup {o \in Objects : Home(o) # DiskHome(o)}
        /\ killed' = killed \ UNION {Range(disk[b]) : b \in DOMAIN disk}
        /\ born' = born
    BY DEF Crash
  <1>3. ASSUME NEW o \in Objects \ exempt'
        PROVE  /\ \A b \in DOMAIN disk : Single(disk[b], o)
               /\ \A b, c \in DOMAIN disk :
                      o \in Range(disk[b]) /\ o \in Range(disk[c]) => b = c
               /\ (\E b \in DOMAIN disk : o \in Range(disk[b]))
                      <=> o \in born' \ killed'
    <2>1. o \in Objects \ exempt /\ o \in Sound(World) /\ Home(o) = DiskHome(o)
      BY <1>2, WorldIs DEF Sound
    <2>2. /\ \A b, c \in Home(o) : b = c
          /\ Home(o) # {} => o \in born
          /\ o \in born \ killed => Home(o) # {}
      BY <2>1, HomeIs
    <2>3. \A b \in DOMAIN disk : Single(disk[b], o)
      BY <2>1 DEF Inv, HomeInv, DiskOnce
    <2>4. \A b, c \in DOMAIN disk :
              o \in Range(disk[b]) /\ o \in Range(disk[c]) => b = c
      BY <2>1, <2>2 DEF DiskHome
    <2>5. (\E b \in DOMAIN disk : o \in Range(disk[b])) <=> Home(o) # {}
      BY <2>1 DEF DiskHome
    <2>6. o \in killed' <=>
              o \in killed /\ ~\E b \in DOMAIN disk : o \in Range(disk[b])
      BY <1>2
    <2> QED BY <1>2, <2>2, <2>3, <2>4, <2>5, <2>6
  <1>4. killed' \subseteq born' \cup exempt'
    BY <1>2 DEF Inv, HomeInv
  <1> QED BY <1>1, <1>3, <1>4, StartKeeps DEF Inv, TypeInv, DiskOK

\* Deactivation leaves a good world, and all of it that was touched is saved.
LEMMA RestartKeeps ==
    ASSUME Inv, Restart
    PROVE  Inv'
  <1> DEFINE w == State(TRUE)
             s == DeactivateFarObjects(w, {}, {})
             d == Saved(s.block, MOD_STATE_WRITE_AT_UNLOAD)
  <1>1. /\ StartAgain(d) /\ Event /\ exempt' = exempt \cup s.lost
        /\ UNCHANGED <<born, killed>>
    BY Zenon DEF Restart
  <1>2. /\ w.objects = World.objects /\ w.last = World.last
        /\ w.block = World.block /\ w.lost = World.lost /\ w.force = TRUE
        /\ w = [objects |-> w.objects, last |-> w.last, block |-> w.block,
                force |-> w.force, lost |-> w.lost]
    BY DEF State, World
  <1> HIDE DEF w
  <1>3. w \in States
    BY <1>2 DEF Inv, TypeInv, States
  <1>4. Good(w, 0)
    BY <1>2, <1>3, SameWorldKeeps DEF Inv, WorldInv
  <1>5. Synced(w, None)
    BY <1>2 DEF Inv, WorldInv, Synced
  <1>6. /\ Good(s, 0) /\ Synced(s, None) /\ Keeps(w, s)
        /\ DOMAIN s.objects = {}
    BY <1>2, <1>4, <1>5, DeactivateFarKeeps DEF Inv, TypeInv
  <1> HIDE DEF s
  <1>7. s.block \in [Blocks -> MapBlocks] /\ s.lost \in SUBSET Objects
    BY <1>6 DEF Good, States
  <1>8. /\ DOMAIN d \subseteq Blocks
        /\ \A b \in DOMAIN d : d[b] \in Seq(Objects)
        /\ \A b \in Blocks :
               IF /\ s.block[b].loaded
                  /\ s.block[b].modified >= MOD_STATE_WRITE_AT_UNLOAD
               THEN b \in DOMAIN d /\ d[b] = Serialize(s.block[b])
               ELSE /\ b \in DOMAIN d <=> b \in DOMAIN disk
                    /\ b \in DOMAIN disk => d[b] = disk[b]
    BY <1>7, SavedIs DEF Inv, TypeInv
  <1> HIDE DEF d
  <1>9. /\ born' \in SUBSET Objects /\ killed' \in SUBSET Objects
        /\ exempt' \in SUBSET Objects
    BY <1>1, <1>7 DEF Inv, TypeInv
  <1>10. Homes(s, born)
    <2>1. Keeps(World, w)
      <3>1. SameActive(World, w) /\ SameLists(World, w)
        BY <1>2 DEF SameActive, SameLists, Listed
      <3> QED BY <1>2, <3>1, SameActiveHomes
    <2> QED BY <1>6, <2>1 DEF Keeps, Inv, HomeInv
  <1>11. ASSUME NEW o \in Sound(s), NEW b \in Blocks
         PROVE  /\ b \in DOMAIN d => Single(d[b], o)
                /\ b \in Storing(s, o) <=>
                       b \in DOMAIN d /\ o \in Range(d[b])
    <2>1. HomeOf(s, o) /\ o \in Objects \ exempt
      BY <1>10 DEF Homes, Sound
    <2>2. DOMAIN s.block[b].active = {} /\ s.block[b] \in MapBlocks
      <3>1. DOMAIN s.block[b].active \subseteq Ids /\ s.block[b] \in MapBlocks
        BY <1>7 DEF MapBlocks, Maps
      <3> QED BY <1>6, <3>1 DEF Good, MatchBut, Ids
    <2>3. Single(Listed(s, b), o)
      BY <2>1 DEF HomeOf
    <2>4. CASE /\ s.block[b].loaded
               /\ s.block[b].modified >= MOD_STATE_WRITE_AT_UNLOAD
      <3>1. b \in DOMAIN d /\ d[b] = Listed(s, b)
        BY <1>8, <2>2, <2>4, SerializeIs DEF Listed
      <3> QED BY <2>3, <3>1 DEF Storing
    <2>5. CASE /\ s.block[b].loaded
               /\ ~(s.block[b].modified >= MOD_STATE_WRITE_AT_UNLOAD)
      <3>1. s.block[b].modified < MOD_STATE_WRITE_NEEDED /\ b # None
        BY <2>2, <2>5 DEF MapBlocks, Levels, MOD_STATE_CLEAN, None, Blocks,
                          MOD_STATE_WRITE_AT_UNLOAD, MOD_STATE_WRITE_NEEDED
      <3>2. /\ b \in DOMAIN disk
            /\ Held(s.block[b]) \ (exempt \cup s.lost)
                   = Range(disk[b]) \ (exempt \cup s.lost)
        BY <1>6, <2>5, <3>1 DEF Synced
      <3>3. b \in DOMAIN d /\ d[b] = disk[b]
        BY <1>8, <2>5, <3>2
      <3>4. Single(disk[b], o)
        BY <2>1, <3>2 DEF Inv, HomeInv, DiskOnce
      <3>5. Held(s.block[b]) = Range(s.block[b].stored)
        BY <2>2 DEF Held, Range
      <3>6. o \in Range(disk[b]) <=> o \in Range(Listed(s, b))
        BY <2>5, <3>2, <3>5 DEF Sound, Listed
      <3> QED BY <3>3, <3>4, <3>6 DEF Storing
    <2>6. CASE ~s.block[b].loaded
      <3>1. /\ Listed(s, b) = IF b \in DOMAIN disk THEN disk[b] ELSE <<>>
            /\ b \in DOMAIN d <=> b \in DOMAIN disk
            /\ b \in DOMAIN disk => d[b] = disk[b]
        BY <1>8, <2>6 DEF Listed
      <3>2. o \notin Range(<<>>)
        BY DEF Range
      <3> QED BY <2>3, <3>1, <3>2 DEF Storing
    <2> QED BY <2>4, <2>5, <2>6
  <1>12. ASSUME NEW o \in Objects \ exempt'
         PROVE  /\ \A b \in DOMAIN d : Single(d[b], o)
                /\ \A b, c \in DOMAIN d :
                       o \in Range(d[b]) /\ o \in Range(d[c]) => b = c
                /\ (\E b \in DOMAIN d : o \in Range(d[b]))
                       <=> o \in born' \ killed'
    <2>1. o \in Sound(s)
      BY <1>1 DEF Sound
    <2>2. /\ HomeOf(s, o)
          /\ Housed(s, o) => o \in born
          /\ o \in born \ killed => Housed(s, o)
      BY <1>10, <2>1 DEF Homes
    <2>3. Running(s, o) = {}
      BY <1>6 DEF Running
    <2>4. /\ \A b, c \in Storing(s, o) : b = c
          /\ o \in killed => Storing(s, o) = {}
      BY <2>2 DEF HomeOf
    <2>5. \A b \in DOMAIN d :
              /\ Single(d[b], o)
              /\ o \in Range(d[b]) <=> b \in Storing(s, o)
      BY <1>8, <1>11, <2>1
    <2>6. (\E b \in DOMAIN d : o \in Range(d[b])) <=> Storing(s, o) # {}
      <3>1. \A b \in Storing(s, o) : b \in DOMAIN d
        BY <1>11, <2>1 DEF Storing
      <3> QED BY <2>5, <3>1
    <2> QED BY <1>1, <2>2, <2>3, <2>4, <2>5, <2>6 DEF Housed
  <1>13. killed' \subseteq born' \cup exempt'
    BY <1>1 DEF Inv, HomeInv
  <1> QED BY <1>1, <1>8, <1>9, <1>12, <1>13, StartKeeps

\* Nothing changes.
LEMMA StutterKeeps ==
    ASSUME Inv, UNCHANGED vars
    PROVE  Inv'
  <1>1. /\ UNCHANGED <<m_active_objects, last_used_id, m_active_blocks, block,
                       disk, known, born, killed, exempt, forced, nevents>>
    BY DEF vars, objectVars
  <1>2. World' = World
    BY <1>1 DEF World, State
  <1>3. TypeInv'
    BY <1>1, <1>2 DEF Inv, TypeInv, DiskOK
  <1>4. WorldInv'
    BY <1>1, <1>2 DEF Inv, WorldInv, Synced
  <1>5. KnownInv'
    BY <1>1, SameKnowers DEF Inv
  <1>6. HomeInv'
    BY <1>1, ObjectsStay
  <1> QED BY <1>3, <1>4, <1>5, <1>6 DEF Inv

\* All steps.
LEMMA NextInv == Inv /\ [Next]_vars => Inv'
  <1> SUFFICES ASSUME Inv, [Next]_vars PROVE Inv'
    OBVIOUS
  <1>1. ASSUME NEW list \in SUBSET Places,
               NEW changed \in SUBSET FarAtHome(list),
               NEW spot \in Spots(list \cap Blocks),
               ManageActiveBlocks(list, changed, spot)
        PROVE  Inv'
    BY <1>1, ManageKeeps
  <1>2. ASSUME RemoveRemovedObjects PROVE Inv'
    BY <1>2, RemoveRemovedKeeps
  <1>3. ASSUME NEW id \in DOMAIN m_active_objects, NEW b \in Places, Move(id, b)
        PROVE  Inv'
    BY <1>3, MoveKeeps
  <1>4. ASSUME NEW id \in DOMAIN m_active_objects, Kill(id) PROVE Inv'
    BY <1>4, KillKeeps
  <1>5. ASSUME NEW o \in Objects, NEW b \in Blocks, AddActiveObject(o, b)
        PROVE  Inv'
    BY <1>5, AddActiveKeeps
  <1>6. ASSUME NEW c \in Clients, NEW near \in SUBSET DOMAIN m_active_objects,
               SendObjects(c, near)
        PROVE  Inv'
    BY <1>6, SendKeeps
  <1>7. ASSUME NEW c \in Clients, Leave(c) PROVE Inv'
    BY <1>7, LeaveKeeps
  <1>8. ASSUME NEW b \in Blocks, Load(b) PROVE Inv'
    BY <1>8, LoadKeeps
  <1>9. ASSUME NEW b \in Blocks, Unload(b) PROVE Inv'
    BY <1>9, UnloadKeeps
  <1>10. ASSUME Save PROVE Inv'
    BY <1>10, SaveKeeps
  <1>11. ASSUME Crash PROVE Inv'
    BY <1>11, CrashKeeps
  <1>12. ASSUME Restart PROVE Inv'
    BY <1>12, RestartKeeps
  <1>13. ASSUME UNCHANGED vars PROVE Inv'
    BY <1>13, StutterKeeps
  <1> QED BY <1>1, <1>2, <1>3, <1>4, <1>5, <1>6, <1>7, <1>8, <1>9, <1>10,
             <1>11, <1>12, <1>13 DEF Next

-----------------------------------------------------------------------------
(***************************************************************************)
(* The theorems.                                                           *)
(***************************************************************************)
\* The invariant holds, for any number of objects, blocks, clients and ids, any
\* limit of objects in a block, and any number of events.
THEOREM WorldInvariance == Spec => []Inv
  <1>1. Init => Inv
    BY InitInv
  <1>2. Inv /\ [Next]_vars => Inv'
    BY NextInv
  <1> QED BY <1>1, <1>2, PTL DEF Spec

(***************************************************************************)
(* Every variable keeps its type: no id in use or in a block is 0 or beyond*)
(* MaxId, though getFreeServerActiveObjectId wraps, and blocks, disk and   *)
(* clients have objects and ids only.                                      *)
(***************************************************************************)
THEOREM Typed == Spec => []TypeOK
  <1>1. Inv => TypeOK
    <2> SUFFICES ASSUME Inv PROVE TypeOK
      OBVIOUS
    <2>1. /\ DOMAIN m_active_objects \subseteq Ids
          /\ \A id \in DOMAIN m_active_objects :
                 m_active_objects[id] \in ActiveObject
      <3>1. m_active_objects \in Maps(ActiveObject)
        BY WorldIs DEF Inv, TypeInv, States
      <3> QED BY <3>1 DEF Maps
    <2>2. last_used_id \in 0 .. MaxId /\ block \in [Blocks -> MapBlocks]
      BY WorldIs DEF Inv, TypeInv, States
    <2>3. ASSUME NEW b \in Blocks
          PROVE  /\ block[b].loaded \in BOOLEAN
                 /\ block[b].stored \in Seq(Objects)
                 /\ DOMAIN block[b].active \subseteq Ids
                 /\ Range(block[b].active) \subseteq Objects
                 /\ block[b].modified \in
                        {MOD_STATE_CLEAN, MOD_STATE_WRITE_AT_UNLOAD,
                         MOD_STATE_WRITE_NEEDED}
      <3>1. block[b] \in MapBlocks
        BY <2>2
      <3>2. block[b].active \in Maps(Objects)
        BY <3>1 DEF MapBlocks
      <3>3. /\ DOMAIN block[b].active \subseteq Ids
            /\ Range(block[b].active) \subseteq Objects
        BY <3>2 DEF Maps, Range
      <3> QED BY <3>1, <3>3 DEF MapBlocks, Levels
    <2>4. /\ DOMAIN disk \subseteq Blocks
          /\ \A b \in DOMAIN disk : disk[b] \in Seq(Objects)
          /\ \A c \in Clients : known[c] \subseteq [id : Ids, obj : Objects]
          /\ {born, killed, exempt} \subseteq SUBSET Objects
          /\ forced \subseteq Ids /\ nevents \in 0 .. MaxEvents
          /\ m_active_blocks \subseteq Blocks
      BY DEF Inv, TypeInv, DiskOK
    <2>5. DOMAIN block = Blocks
      BY <2>2
    <2> QED BY <2>1, <2>2, <2>3, <2>4, <2>5 DEF TypeOK
  <1> QED BY <1>1, WorldInvariance, PTL

(***************************************************************************)
(* The entries of m_active in the blocks are of active objects that know   *)
(* they are there, through activation, deactivation, moves, removal,       *)
(* unloading and reloading of blocks: activateObjects never meets an entry *)
(* without its object, and an id is never given while an entry of its      *)
(* former owner is in a block.                                             *)
(***************************************************************************)
THEOREM EntriesAreOwned == Spec => []ActivesMatch
  <1>1. Inv => ActivesMatch
    <2> SUFFICES ASSUME Inv, NEW b \in Blocks, NEW id \in DOMAIN block[b].active
                 PROVE  /\ id \in DOMAIN m_active_objects
                        /\ m_active_objects[id].static_block = b
                        /\ m_active_objects[id].obj = block[b].active[id]
      BY DEF ActivesMatch
    <2>1. id # 0
      <3>1. block[b].active \in Maps(Objects)
        BY BlocksAre DEF MapBlocks
      <3> QED BY <3>1 DEF Maps, Ids
    <2> QED BY <2>1, WorldIs DEF Inv, WorldInv, Good, MatchBut
  <1> QED BY <1>1, WorldInvariance, PTL

(***************************************************************************)
(* A loaded block whose flag tells ServerMap::save to skip it has on disk  *)
(* the objects it has in memory, but for those exempt. The functions of the*)
(* environment mark the blocks that they take data out of or put data into,*)
(* except activateObjects: an object that it makes active in the block goes*)
(* from one list of the block to the other, but one that its on_activate   *)
(* puts in another block leaves both unmarked, and is exempt.              *)
(***************************************************************************)
THEOREM SkippedIsSaved == Spec => []UnmodifiedIsSaved
  <1>1. Inv => UnmodifiedIsSaved
    <2> SUFFICES ASSUME Inv, NEW b \in Blocks, block[b].loaded,
                        block[b].modified < MOD_STATE_WRITE_NEEDED
                 PROVE  /\ b \in DOMAIN disk
                        /\ Range(Serialize(block[b])) \ exempt
                               = Range(disk[b]) \ exempt
      BY DEF UnmodifiedIsSaved
    <2>1. b # None
      BY DEF None, Blocks
    <2>2. /\ b \in DOMAIN disk
          /\ Held(block[b]) \ (exempt \cup World.lost)
                 = Range(disk[b]) \ (exempt \cup World.lost)
      BY <2>1, WorldIs DEF Inv, WorldInv, Synced
    <2>3. Range(Serialize(block[b])) = Held(block[b])
      BY BlocksAre
    <2> QED BY <2>2, <2>3, WorldIs
  <1> QED BY <1>1, WorldInvariance, PTL

(***************************************************************************)
(* An id that a client was told stays the id of the object it was told of, *)
(* for any number of clients that come, go and learn of objects in any     *)
(* order; except for ids that force_delete freed under a client.           *)
(* m_known_by_count is the number of clients that know the object, and no  *)
(* object is erased before it is 0.                                        *)
(***************************************************************************)
THEOREM KnownIdsKept == Spec => []KnownIdsAreKept
  <1>1. Inv => KnownIdsAreKept
    <2> SUFFICES ASSUME Inv, NEW c \in Clients, NEW k \in known[c],
                        k.id \notin forced
                 PROVE  /\ k.id \in DOMAIN m_active_objects
                        /\ m_active_objects[k.id].obj = k.obj
      BY DEF KnownIdsAreKept
    <2>1. k.id \in Ids
      BY DEF Inv, TypeInv
    <2>2. c \in Knowers(k.id)
      BY DEF Knowers
    <2> QED BY <2>1, <2>2 DEF Inv, KnownInv
  <1> QED BY <1>1, WorldInvariance, PTL

(***************************************************************************)
(* An object that was not removed is in one block, once. Between activation*)
(* and deactivation its data is the active entry of its id, else it is in a*)
(* list, and never both: Resave and MoveToStatic take it from one block as *)
(* they put it into another, removeRemovedObjects takes it from one list as*)
(* it puts it into the other, and what is saved or left on disk when a     *)
(* block is unloaded, or the server stops, has it there. Exempt are objects*)
(* that MoveToStatic drops, as their block is full or they are outside the *)
(* map; those of a block with too many, and those for which there is no id;*)
(* those that on_activate puts in another block; those alive whose entry   *)
(* was in a block that was unloaded; and, after a crash, those of which the*)
(* database had something else.                                            *)
(***************************************************************************)
THEOREM ObjectsHaveOneHome == Spec => []OneHome
  <1>1. Inv => OneHome
    <2> SUFFICES ASSUME Inv, NEW o \in born \ (killed \cup exempt)
                 PROVE  \E b \in Blocks : \E i \in DOMAIN Contents(b) :
                            /\ Contents(b)[i] = o
                            /\ \A c \in Blocks : \A j \in DOMAIN Contents(c) :
                                   Contents(c)[j] = o => c = b /\ j = i
      BY DEF OneHome
    <2>1. o \in Sound(World)
      BY WorldIs DEF Inv, TypeInv, Sound
    <2>2. /\ \A b, c \in Home(o) : b = c
          /\ \A b \in Blocks : Single(Contents(b), o)
          /\ Home(o) # {}
      BY <2>1, HomeIs
    <2>3. PICK b \in Home(o) : TRUE
      BY <2>2
    <2>4. b \in Blocks /\ \E i \in DOMAIN Contents(b) : Contents(b)[i] = o
      BY <2>3 DEF Home, Range
    <2>5. PICK i \in DOMAIN Contents(b) : Contents(b)[i] = o
      BY <2>4
    <2>6. ASSUME NEW c \in Blocks, NEW j \in DOMAIN Contents(c),
                 Contents(c)[j] = o
          PROVE  c = b /\ j = i
      <3>1. c \in Home(o)
        BY <2>6 DEF Home, Range
      <3>2. c = b
        BY <2>2, <3>1
      <3> QED BY <2>2, <2>4, <2>5, <2>6, <3>2 DEF Single
    <2> QED BY <2>4, <2>5, <2>6
  <1> QED BY <1>1, WorldInvariance, PTL

(***************************************************************************)
(* An object is active under one id: its block may turn inactive, be saved,*)
(* and turn active again while it is alive elsewhere or waits for clients  *)
(* to forget it, and activateObjects does not find its data to make it     *)
(* active again, for that data is an active entry. If the block is unloaded*)
(* while it waits, its data is on disk and it is a ghost from then on: then*)
(* one more may be made active of this data, under another id, and no more.*)
(* An object that is alive when its entry is unloaded is exempt.           *)
(***************************************************************************)
THEOREM ObjectsLiveOnce == Spec => []LiveOnce
  <1>1. Inv => LiveOnce
    <2> SUFFICES ASSUME Inv, NEW id \in DOMAIN m_active_objects,
                        NEW id2 \in DOMAIN m_active_objects,
                        m_active_objects[id].obj = m_active_objects[id2].obj,
                        m_active_objects[id].obj \notin exempt,
                        ~m_active_objects[id].ghost,
                        ~m_active_objects[id2].ghost
                 PROVE  id = id2
      BY DEF LiveOnce
    <2> DEFINE o == m_active_objects[id].obj
    <2>1. o \in Sound(World)
      BY ObjectsAre, WorldIs DEF ActiveObject, Sound
    <2>2. id \in Running(World, o) /\ id2 \in Running(World, o)
      BY WorldIs DEF Running
    <2> HIDE DEF o
    <2> QED BY <2>1, <2>2 DEF Inv, HomeInv, Homes, HomeOf
  <1> QED BY <1>1, WorldInvariance, PTL

(***************************************************************************)
(* An object that was to be removed is not made active again, and no block *)
(* has it among the objects that it will make active: what stands in the   *)
(* list of active ones goes with the object, unless deactivation came first*)
(* and stored it. What is left of it are ghosts, of the data of which it   *)
(* was made active again before it was to be removed.                      *)
(***************************************************************************)
THEOREM RemovedAreGone == Spec => []RemovedStaysRemoved
  <1>1. Inv => RemovedStaysRemoved
    <2> SUFFICES ASSUME Inv, NEW o \in killed \ exempt
                 PROVE  /\ \A id \in DOMAIN m_active_objects :
                               m_active_objects[id].obj = o =>
                                   \/ m_active_objects[id].removed
                                   \/ m_active_objects[id].ghost
                        /\ \A b \in Blocks : o \notin Range(block[b].stored)
      BY DEF RemovedStaysRemoved
    <2>1. o \in Sound(World)
      BY WorldIs DEF Inv, TypeInv, Sound
    <2>2. HomeOf(World, o) /\ Good(World, 0)
      BY <2>1 DEF Inv, HomeInv, Homes, WorldInv
    <2>3. \A id \in DOMAIN m_active_objects :
              m_active_objects[id].obj = o =>
                  m_active_objects[id].removed \/ m_active_objects[id].ghost
      BY <2>2, WorldIs DEF HomeOf, Running
    <2>4. ASSUME NEW b \in Blocks PROVE o \notin Range(block[b].stored)
      <3>1. o \in Range(block[b].stored) => b \in Storing(World, o)
        BY <2>2, OnceIn, WorldIs
      <3> QED BY <2>2, <3>1 DEF HomeOf
    <2> QED BY <2>3, <2>4
  <1> QED BY <1>1, WorldInvariance, PTL
=============================================================================
