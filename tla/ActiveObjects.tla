--------------------------- MODULE ActiveObjects ---------------------------
(***************************************************************************)
(* The objects of the world: mobs, dropped items, everything that is not   *)
(* a node and not a player. An object has one copy of static data in the   *)
(* block it belongs to. Near the players it is also active: it has an id   *)
(* in m_active_objects, clients know it by that id, and its static data is *)
(* in the m_active part of a block; else the data is in m_stored. Blocks   *)
(* are loaded, saved and unloaded on their own.                            *)
(*                                                                         *)
(* Every action runs under m_env_mutex. Objects stand for their static     *)
(* data; a position is the block it is in, or Outside: beyond the limit of *)
(* the map, where no block can be. Players, who have no static data, are   *)
(* left out.                                                               *)
(***************************************************************************)
EXTENDS Integers, Sequences, FiniteSets, FiniteSetsExt, Folds, Functions,
        SequencesExt

CONSTANTS
    Objects,
    LastBlock,          \* blocks are 0 .. LastBlock, in a row
    Clients,
    OnDisk,             \* blocks in the database at first
    MaxId,              \* ids are 1 .. MaxId, 65535 in the code
    max_objects_per_block,
    MaxEvents           \* bound: what players, scripts and failures do

ASSUME ActiveObjectsConstants ==
    /\ IsFiniteSet(Objects) /\ Objects # {}
    /\ IsFiniteSet(Clients)
    /\ {LastBlock, MaxEvents} \subseteq Nat
    /\ OnDisk \subseteq 0 .. LastBlock
    /\ {MaxId, max_objects_per_block} \subseteq Nat \ {0}

Blocks == 0 .. LastBlock
None == -1
Outside == LastBlock + 1
Places == Blocks \cup {Outside}
Ids == 1 .. MaxId

MOD_STATE_CLEAN == 0
MOD_STATE_WRITE_AT_UNLOAD == 2
MOD_STATE_WRITE_NEEDED == 4

VARIABLES
    m_active_objects,   \* by id
    last_used_id,
    m_active_blocks,
    block,              \* the blocks in memory
    disk,               \* what the database has of each block
    known,              \* m_known_objects of each client, with the object
                        \* the client was told of
    \* only observed
    born,               \* objects there have been
    killed,             \* objects that were to be removed
    exempt,             \* objects lost, doubled or brought back: by a full
                        \* block, too few ids, the limit of the map, a move
                        \* in on_activate, the unloading of the block of an
                        \* object that is alive, a crash, or deactivation
                        \* before removal
    forced,             \* ids that clients knew when force_delete freed them
    nevents

objectVars == <<m_active_objects, last_used_id, m_active_blocks>>
vars == <<objectVars, block, disk, known, born, killed, exempt, forced,
          nevents>>

\* ghost is only observed: its block was unloaded while it was pending
\* deactivation, so its data is not its own any more.
ActiveObject ==
    [obj : Objects, pos : Places, known_by_count : Nat, removed : BOOLEAN,
     pending : BOOLEAN, static_block : Blocks \cup {None}, ghost : BOOLEAN]

Nothing == [x \in {} |-> 0]
Set(f, x, y) == [z \in DOMAIN f \cup {x} |-> IF z = x THEN y ELSE f[z]]
Unset(f, x) == Restrict(f, DOMAIN f \ {x})

\* What the loop of op over the numbers S, in order, makes of s.
ForEach(op(_, _), s, S) ==
    MapThenFoldSet(LAMBDA x, t : op(t, x), s, LAMBDA x : x, Max, S)

MapBlock(loaded, stored, modified) ==
    [loaded |-> loaded, stored |-> stored, active |-> Nothing,
     modified |-> modified]
Unloaded == MapBlock(FALSE, <<>>, MOD_STATE_CLEAN)

\* StaticObjectList::serialize: the stored ones, then the active ones.
Serialize(mb) ==
    ForEach(LAMBDA seq, id : Append(seq, mb.active[id]), mb.stored,
            DOMAIN mb.active)

\* The objects of a block, in memory or in the database.
Contents(b) == IF block[b].loaded THEN Serialize(block[b])
               ELSE IF b \in DOMAIN disk THEN disk[b] ELSE <<>>

Init ==
    /\ m_active_objects = Nothing
    /\ last_used_id = 0
    /\ m_active_blocks = {}
    /\ block = [b \in Blocks |-> Unloaded]
    /\ disk = [b \in OnDisk |-> IF b = 0 THEN <<CHOOSE o \in Objects : TRUE>>
                                          ELSE <<>>]
    /\ known = [c \in Clients |-> {}]
    /\ born = UNION {Range(disk[b]) : b \in OnDisk}
    /\ killed = {}
    /\ exempt = {}
    /\ forced = {}
    /\ nevents = 0

Event == nevents < MaxEvents /\ nevents' = nevents + 1

-----------------------------------------------------------------------------
(***************************************************************************)
(* What the functions of the environment do, on a record of its state:     *)
(* objects, last (used id), block, force (force_delete), and the objects   *)
(* to exempt (lost).                                                       *)
(***************************************************************************)
State(force) ==
    [objects |-> m_active_objects, last |-> last_used_id, block |-> block,
     force |-> force, lost |-> {}]

\* raiseModified
Raise(s, b, level) ==
    [s EXCEPT !.block[b].modified = IF level > @ THEN level ELSE @]

\* ServerMap::emergeBlock
EmergeBlock(s, b, create_blank) ==
    IF s.block[b].loaded THEN s
    ELSE IF b \in DOMAIN disk
         THEN [s EXCEPT !.block[b] = MapBlock(TRUE, disk[b], MOD_STATE_CLEAN)]
    ELSE IF create_blank
         THEN [s EXCEPT !.block[b] = MapBlock(TRUE, <<>>,
                                              MOD_STATE_WRITE_NEEDED)]
    ELSE s

\* StaticObjectList::insert, with id 0 into m_stored, and remove.
InsertStatic(s, b, id, o) ==
    IF id = 0 THEN [s EXCEPT !.block[b].stored = Append(@, o)]
              ELSE [s EXCEPT !.block[b].active = Set(@, id, o)]
RemoveStatic(s, b, id) == [s EXCEPT !.block[b].active = Unset(@, id)]

Erase(s, id) == [s EXCEPT !.objects = Unset(@, id)]

\* Mutant: the counter does not wrap.
FreeIdNoWrap(s) == s.last + 1

\* getFreeServerActiveObjectId: the next free id, 0 if there is none.
FreeId(s) ==
    LET nth(k) == (s.last + k) % (MaxId + 1)
        free == {k \in 1 .. MaxId + 1 :
                    nth(k) # 0 /\ nth(k) \notin DOMAIN s.objects}
    IN  IF free = {} THEN 0 ELSE nth(CHOOSE k \in free : \A l \in free : k <= l)

\* Mutant: the block is not marked as modified.
AddActiveObjectQuietly(s, o, b, set_changed) ==
    LET id == FreeId(s)
        added == InsertStatic(EmergeBlock(s, b, TRUE), b, id, o)
    IN  IF id = 0 THEN [s EXCEPT !.lost = @ \cup {o}]
        ELSE [added EXCEPT !.last = id, !.objects =
                 Set(@, id, [obj |-> o, pos |-> b, known_by_count |-> 0,
                             removed |-> FALSE, pending |-> FALSE,
                             static_block |-> b, ghost |-> FALSE])]

(***************************************************************************)
(* The object gets an id, and its static data goes to the active list of   *)
(* the block it is in.                                                     *)
(***************************************************************************)
AddActiveObjectRaw(s, o, b, set_changed) ==
    LET id == FreeId(s)
        e == EmergeBlock(s, b, TRUE)
        added == [InsertStatic(e, b, id, o) EXCEPT !.last = id, !.objects =
                     Set(@, id, [obj |-> o, pos |-> b, known_by_count |-> 0,
                                 removed |-> FALSE, pending |-> FALSE,
                                 static_block |-> b, ghost |-> FALSE])]
    IN  IF id = 0 THEN [s EXCEPT !.lost = @ \cup {o}]
        ELSE IF set_changed THEN Raise(added, b, MOD_STATE_WRITE_NEEDED)
        ELSE added

(***************************************************************************)
(* One stored object of block b becomes active, and maybe on_activate puts *)
(* it in another block: spot has where. Its data goes there, and neither   *)
(* block is marked. spot is None for one that cannot be created: its data  *)
(* stays stored.                                                           *)
(***************************************************************************)
ActivateObject(s, b, o, spot) ==
    LET p == IF o \in DOMAIN spot THEN spot[o] ELSE b
        t == AddActiveObjectRaw(s, o, p, FALSE)
    IN  IF p = None THEN InsertStatic(s, b, 0, o)
        ELSE IF p = b THEN t
        ELSE [t EXCEPT !.lost = @ \cup {o}]

(***************************************************************************)
(* The stored objects of a block become active, and those that are pending *)
(* deactivation in it stay. Too many stored objects are all dropped.       *)
(***************************************************************************)
ActivateObjects(s, b, spot) ==
    LET stored == s.block[b].stored
        emptied == [s EXCEPT !.block[b].stored = <<>>]
        added == FoldLeft(LAMBDA t, o : ActivateObject(t, b, o, spot),
                          emptied, stored)
    IN  IF stored = <<>> THEN s
        ELSE IF Len(stored) > max_objects_per_block
             THEN Raise([emptied EXCEPT !.lost = @ \cup Range(stored)], b,
                        MOD_STATE_WRITE_NEEDED)
        ELSE [added EXCEPT !.objects =
                 [id \in DOMAIN @ |->
                     IF id \in DOMAIN added.block[b].active
                     THEN [@[id] EXCEPT !.pending = FALSE] ELSE @[id]]]

\* Mutant: the data stays in the old block too.
ResaveTwice(s, id) ==
    LET b == s.objects[id].pos
        e == EmergeBlock(s, b, FALSE)
    IN  IF b = Outside \/ ~e.block[b].loaded THEN s
        ELSE Raise([InsertStatic(e, b, id, s.objects[id].obj)
                       EXCEPT !.objects[id].static_block = b],
                   b, MOD_STATE_WRITE_NEEDED)

(***************************************************************************)
(* deactivateFarObjects, for one object. It was saved to a block that is   *)
(* not active any more but is in an active one: its static data follows.   *)
(***************************************************************************)
Resave(s, id) ==
    LET o == s.objects[id]
        e == EmergeBlock(s, o.pos, FALSE)
        inserted == Raise([InsertStatic(e, o.pos, id, o.obj) EXCEPT
                              !.objects[id].static_block = o.pos],
                          o.pos, MOD_STATE_WRITE_NEEDED)
        f == EmergeBlock(inserted, o.static_block, FALSE)
    IN  IF o.pos = Outside THEN s
        ELSE IF ~e.block[o.pos].loaded THEN e
        ELSE IF ~f.block[o.static_block].loaded THEN f
        ELSE Raise(RemoveStatic(f, o.static_block, id), o.static_block,
                   MOD_STATE_WRITE_NEEDED)

(***************************************************************************)
(* It is far from the players: its static data goes to the block it is in, *)
(* as active data while a client knows it, and it is deleted when none     *)
(* does. A full block drops it, and sets force_delete for the rest of the  *)
(* objects. Outside there is no block to get: its data is gone already, it *)
(* stays active. data_changed is FALSE when it hardly moved in its block.  *)
(***************************************************************************)
MoveToStatic(s, id, data_changed) ==
    LET o == s.objects[id]
        pending_delete == o.known_by_count > 0 /\ ~s.force
        old == o.static_block
        e == IF old = None THEN s ELSE EmergeBlock(s, old, FALSE)
        write == \/ old # o.pos \/ data_changed
                 \/ id \notin DOMAIN e.block[old].active
        Written(t, b) == IF write THEN Raise(t, b, MOD_STATE_WRITE_NEEDED)
                                  ELSE t
        taken == IF old = None THEN e
                 ELSE Written([RemoveStatic(e, old, id) EXCEPT
                                  !.objects[id].static_block = None], old)
        f == EmergeBlock(taken, o.pos, TRUE)
        full == Len(f.block[o.pos].stored) >= max_objects_per_block
        stored == IF o.pos = Outside
                  THEN [taken EXCEPT !.lost = @ \cup {o.obj}]
                  ELSE IF full
                  THEN [f EXCEPT !.force = TRUE, !.lost = @ \cup {o.obj}]
                  ELSE Written([InsertStatic(RemoveStatic(f, o.pos, id), o.pos,
                                       IF pending_delete THEN id ELSE 0, o.obj)
                                   EXCEPT !.objects[id].static_block = o.pos,
                                          !.lost = IF o.removed \/ o.ghost
                                                   THEN @ \cup {o.obj} ELSE @],
                               o.pos)
    IN  IF o.pos = Outside /\ ~s.force THEN stored
        ELSE IF pending_delete /\ ~stored.force
        THEN [stored EXCEPT !.objects[id].pending = TRUE]
        ELSE Erase(stored, id)

DeactivateObject(s, active, id, data_changed) ==
    LET o == s.objects[id]
    IN  IF s.force THEN MoveToStatic(s, id, data_changed)
        ELSE IF o.pending THEN s
        ELSE IF o.pos \in active
             THEN IF o.static_block = None \/ o.static_block \in active
                  THEN s ELSE Resave(s, id)
        ELSE MoveToStatic(s, id, data_changed)

DeactivateFarObjects(s, active, changed) ==
    ForEach(LAMBDA t, id : DeactivateObject(t, active, id, id \in changed),
            s, DOMAIN s.objects)

\* Mutant: an object that clients know is deleted at once.
RemoveKnownObject(s, id) ==
    LET o == s.objects[id]
        b == o.static_block
        e == IF b = None THEN s ELSE Raise(RemoveStatic(s, b, id), b,
                                           MOD_STATE_WRITE_NEEDED)
    IN  IF o.removed THEN Erase(e, id) ELSE s

\* Mutant: the static data stays in the active list of its block.
RemoveFromEnvironment(s, id) ==
    IF (s.objects[id].removed \/ s.objects[id].pending)
           /\ s.objects[id].known_by_count = 0
    THEN Erase(s, id) ELSE s

\* Mutant: what is removed is stored too.
StoreRemovedObject(s, id) ==
    LET o == s.objects[id]
        b == o.static_block
    IN  IF ~(o.removed \/ o.pending) \/ o.known_by_count > 0 THEN s
        ELSE IF b = None \/ id \notin DOMAIN s.block[b].active THEN Erase(s, id)
        ELSE Erase(Raise(InsertStatic(RemoveStatic(s, b, id), b, 0, o.obj), b,
                         MOD_STATE_WRITE_NEEDED), id)

(***************************************************************************)
(* removeRemovedObjects, for one object. One that is m_removed loses its   *)
(* static data at once, and goes when no client knows it. One that is      *)
(* pending deactivation goes then too, its static data stored.             *)
(***************************************************************************)
RemoveObject(s, id) ==
    LET o == s.objects[id]
        e == IF o.static_block = None THEN s
             ELSE EmergeBlock(s, o.static_block, FALSE)
        b == o.static_block
        found == b # None /\ e.block[b].loaded
        there == found /\ id \in DOMAIN e.block[b].active
        dropped == IF ~found THEN e
                   ELSE Raise([RemoveStatic(e, b, id) EXCEPT
                                  !.objects[id].static_block = None],
                              b, MOD_STATE_WRITE_NEEDED)
        stored == IF ~there THEN e
                  ELSE Raise(InsertStatic(RemoveStatic(e, b, id), b, 0,
                                          e.block[b].active[id]), b,
                             MOD_STATE_WRITE_NEEDED)
    IN  CASE ~o.removed /\ ~o.pending -> s
          [] o.removed -> IF o.known_by_count > 0 THEN dropped
                                                  ELSE Erase(dropped, id)
          [] OTHER -> IF o.known_by_count > 0 THEN s ELSE Erase(stored, id)

Become(s) ==
    /\ m_active_objects' = s.objects
    /\ last_used_id' = s.last
    /\ block' = s.block

-----------------------------------------------------------------------------
(* The environment's step. *)

\* Where on_activate may put objects of the blocks that turn active: objects
\* of S leave their block.
Spots(list) ==
    LET near == UNION {Range(Contents(b)) : b \in list \ m_active_blocks}
        Leaves(spot) == \A o \in DOMAIN spot :
            spot[o] # None => o \notin Range(Contents(spot[o]))
    IN  IF nevents = MaxEvents THEN {Nothing}
        ELSE {spot \in UNION {[S -> Blocks \cup {None}] : S \in SUBSET near} :
                  Leaves(spot)}

\* Far objects in the block they are stored in: only of them it matters if
\* they changed enough to be stored again.
FarAtHome(list) ==
    {id \in DOMAIN m_active_objects :
        /\ m_active_objects[id].pos \notin list
        /\ m_active_objects[id].pos = m_active_objects[id].static_block}

\* Every 2 seconds: the active blocks are those near the players now. What
\* on_activate does may load a block before its turn comes.
ManageActiveBlocks(list, changed, spot) ==
    /\ IF spot = Nothing THEN UNCHANGED nevents ELSE Event
    /\ LET s == DeactivateFarObjects(State(FALSE), list, changed)
           Stamp(t, b) == IF t.block[b].loaded
                          THEN Raise(t, b, MOD_STATE_WRITE_AT_UNLOAD) ELSE t
           stamped == ForEach(Stamp, s, m_active_blocks \ list)
           Activate(t, b) == IF t.block[b].loaded
                             THEN ActivateObjects(t, b, spot) ELSE t
           added == (list \cap Blocks) \ m_active_blocks
           Upto(b) == ForEach(Activate, stamped, {c \in added : c < b})
           there == {b \in added : Upto(b).block[b].loaded}
           t == Upto(Outside)
       IN  /\ Become(t)
           /\ m_active_blocks' = there \cup (list \cap m_active_blocks)
           /\ exempt' = exempt \cup t.lost
           /\ forced' = IF ~s.force THEN forced ELSE forced \cup
                 {id \in DOMAIN m_active_objects \ DOMAIN s.objects :
                     m_active_objects[id].known_by_count > 0}
    /\ UNCHANGED <<disk, known, born, killed>>

\* Every half second.
RemoveRemovedObjects ==
    /\ Become(ForEach(RemoveObject, State(FALSE), DOMAIN m_active_objects))
    /\ UNCHANGED <<m_active_blocks, disk, known, born, killed, exempt, forced,
                   nevents>>

\* An object moves, by its step or by a script, and may leave what is loaded.
Move(id, b) ==
    /\ Event
    /\ ~m_active_objects[id].removed
    /\ m_active_objects[id].pos # b
    /\ m_active_objects' = [m_active_objects EXCEPT ![id].pos = b]
    /\ UNCHANGED <<last_used_id, m_active_blocks, block, disk, known,
                   born, killed, exempt, forced>>

\* It dies, is picked up, or is removed by a script: m_removed.
Kill(id) ==
    /\ Event
    /\ ~m_active_objects[id].removed
    /\ m_active_objects' = [m_active_objects EXCEPT ![id].removed = TRUE]
    /\ killed' = killed \cup {m_active_objects[id].obj}
    /\ exempt' = IF m_active_objects[id].ghost
                 THEN exempt \cup {m_active_objects[id].obj} ELSE exempt
    /\ UNCHANGED <<last_used_id, m_active_blocks, block, disk, known,
                   born, forced>>

AddActiveObject(o, b) ==
    /\ Event
    /\ o \notin born
    /\ born' = born \cup {o}
    /\ LET s == AddActiveObjectRaw(State(FALSE), o, b, TRUE)
       IN  Become(s) /\ exempt' = exempt \cup s.lost
    /\ UNCHANGED <<m_active_blocks, disk, known, killed, forced>>

-----------------------------------------------------------------------------
(* The clients. *)

\* AsyncRunStep tells a client what came into its range and what left it.
SendObjects(c, near) ==
    LET Gone(id) == m_active_objects[id].removed \/ m_active_objects[id].pending
        removed == {k \in known[c] : \/ k.id \notin DOMAIN m_active_objects
                                     \/ Gone(k.id)
                                     \/ k.id \notin near}
        added == {id \in near \ {k.id : k \in known[c]} : ~Gone(id)}
        Less(n) == IF n > 0 THEN n - 1 ELSE 0
    IN  /\ known' = [known EXCEPT ![c] = (@ \ removed) \cup
               {[id |-> id, obj |-> m_active_objects[id].obj] : id \in added}]
        /\ m_active_objects' = [id \in DOMAIN m_active_objects |->
               [m_active_objects[id] EXCEPT !.known_by_count =
                   IF id \in {k.id : k \in removed} THEN Less(@)
                   ELSE IF id \in added THEN @ + 1 ELSE @]]
        /\ UNCHANGED <<last_used_id, m_active_blocks, block, disk, born, killed,
                       exempt, forced, nevents>>

\* DeleteClient; the client may come back.
Leave(c) ==
    /\ Event
    /\ known[c] # {}
    /\ known' = [known EXCEPT ![c] = {}]
    /\ m_active_objects' = [id \in DOMAIN m_active_objects |->
           [m_active_objects[id] EXCEPT !.known_by_count =
               IF @ > 0 /\ id \in {k.id : k \in known[c]} THEN @ - 1 ELSE @]]
    /\ UNCHANGED <<last_used_id, m_active_blocks, block, disk, born,
                   killed, exempt, forced>>

-----------------------------------------------------------------------------
(* The map. *)

\* An emerge thread loads the block, or generates it.
Load(b) ==
    /\ ~block[b].loaded
    /\ block' = EmergeBlock(State(FALSE), b, TRUE).block
    /\ UNCHANGED <<objectVars, disk, known, born, killed, exempt, forced,
                   nevents>>

\* timerUpdate, for a block that was not used for long. An object that is only
\* waiting for clients to forget it becomes a ghost.
Unload(b) ==
    /\ block[b].loaded
    /\ b \notin m_active_blocks
    /\ disk' = IF block[b].modified = MOD_STATE_CLEAN THEN disk
               ELSE Set(disk, b, Serialize(block[b]))
    /\ block' = [block EXCEPT ![b] = Unloaded]
    /\ LET active == block[b].active
           ghosts == {id \in DOMAIN active \cap DOMAIN m_active_objects :
                         /\ m_active_objects[id].pending
                         /\ ~m_active_objects[id].removed}
       IN  /\ m_active_objects' = [id \in DOMAIN m_active_objects |->
                  IF id \in ghosts THEN [m_active_objects[id] EXCEPT
                                            !.ghost = TRUE]
                                   ELSE m_active_objects[id]]
           /\ exempt' = exempt \cup
                  {active[id] : id \in DOMAIN active \ ghosts}
    /\ IF block[b].active = Nothing THEN UNCHANGED nevents ELSE Event
    /\ UNCHANGED <<last_used_id, m_active_blocks, known, born, killed, forced>>

Saved(mb, level) ==
    [b \in DOMAIN disk \cup {c \in Blocks : /\ mb[c].loaded
                                            /\ mb[c].modified >= level} |->
        IF mb[b].loaded /\ mb[b].modified >= level THEN Serialize(mb[b])
                                                   ELSE disk[b]]

\* ServerMap::save, in one transaction.
Save ==
    /\ \E b \in Blocks : block[b].modified >= MOD_STATE_WRITE_NEEDED
    /\ disk' = Saved(block, MOD_STATE_WRITE_NEEDED)
    /\ block' = [b \in Blocks |->
           IF block[b].modified >= MOD_STATE_WRITE_NEEDED
           THEN [block[b] EXCEPT !.modified = MOD_STATE_CLEAN] ELSE block[b]]
    /\ UNCHANGED <<objectVars, known, born, killed, exempt, forced,
                   nevents>>

StartAgain(d) ==
    /\ disk' = d
    /\ m_active_objects' = Nothing
    /\ last_used_id' = 0
    /\ m_active_blocks' = {}
    /\ block' = [b \in Blocks |-> Unloaded]
    /\ known' = [c \in Clients |-> {}]
    /\ forced' = {}

\* The blocks that have an object, now and after a crash.
Home(o) == {b \in Blocks : o \in Range(Contents(b))}
DiskHome(o) == {b \in DOMAIN disk : o \in Range(disk[b])}

\* The server crashes and is started again. What was not saved is as it was.
Crash ==
    /\ Event
    /\ StartAgain(disk)
    /\ exempt' = exempt \cup {o \in Objects : Home(o) # DiskHome(o)}
    /\ killed' = killed \ UNION {Range(disk[b]) : b \in DOMAIN disk}
    /\ UNCHANGED born

\* ~ServerEnvironment and ~ServerMap, and the next start.
Restart ==
    /\ Event
    /\ LET s == DeactivateFarObjects(State(TRUE), {}, {})
       IN  /\ StartAgain(Saved(s.block, MOD_STATE_WRITE_AT_UNLOAD))
           /\ exempt' = exempt \cup s.lost
    /\ UNCHANGED <<born, killed>>

-----------------------------------------------------------------------------
Next ==
    \/ \E list \in SUBSET Places :
       \E changed \in SUBSET FarAtHome(list), spot \in Spots(list \cap Blocks) :
           ManageActiveBlocks(list, changed, spot)
    \/ RemoveRemovedObjects
    \/ \E id \in DOMAIN m_active_objects, b \in Places : Move(id, b)
    \/ \E id \in DOMAIN m_active_objects : Kill(id)
    \/ \E o \in Objects, b \in Blocks : AddActiveObject(o, b)
    \/ \E c \in Clients, near \in SUBSET DOMAIN m_active_objects :
           SendObjects(c, near)
    \/ \E c \in Clients : Leave(c)
    \/ \E b \in Blocks : Load(b)
    \/ \E b \in Blocks : Unload(b)
    \/ Save
    \/ Crash
    \/ Restart

Spec == Init /\ [][Next]_vars

-----------------------------------------------------------------------------
(* Properties. *)

\* What each variable has. Every modified flag is one of the three levels, and
\* no id in use or in a block is 0 or beyond MaxId.
TypeOK ==
    /\ DOMAIN m_active_objects \subseteq Ids
    /\ \A id \in DOMAIN m_active_objects :
           m_active_objects[id] \in ActiveObject
    /\ last_used_id \in 0 .. MaxId
    /\ m_active_blocks \subseteq Blocks
    /\ DOMAIN block = Blocks
    /\ \A b \in Blocks :
           /\ block[b].loaded \in BOOLEAN
           /\ block[b].stored \in Seq(Objects)
           /\ DOMAIN block[b].active \subseteq Ids
           /\ Range(block[b].active) \subseteq Objects
           /\ block[b].modified \in {MOD_STATE_CLEAN, MOD_STATE_WRITE_AT_UNLOAD,
                                    MOD_STATE_WRITE_NEEDED}
    /\ DOMAIN disk \subseteq Blocks
    /\ \A b \in DOMAIN disk : disk[b] \in Seq(Objects)
    /\ \A c \in Clients : known[c] \subseteq [id : Ids, obj : Objects]
    /\ {born, killed, exempt} \subseteq SUBSET Objects
    /\ forced \subseteq Ids
    /\ nevents \in 0 .. MaxEvents

(***************************************************************************)
(* The static data of an object that was not removed is in one block, once *)
(* (in memory, or on disk if the block is not loaded), through activation, *)
(* deactivation, moves between active and inactive blocks, unloading,      *)
(* saving and restarts.                                                    *)
(***************************************************************************)
OneHome ==
    \A o \in born \ (killed \cup exempt) :
        \E b \in Blocks : \E i \in DOMAIN Contents(b) :
            /\ Contents(b)[i] = o
            /\ \A c \in Blocks : \A j \in DOMAIN Contents(c) :
                   Contents(c)[j] = o => c = b /\ j = i

(***************************************************************************)
(* What a block has in m_active is the data of an active object, which     *)
(* knows that it is there: the assert(object) of activateObjects holds,    *)
(* and m_active never has an entry of a former owner of the id. "Hack      *)
(* #83274" of deactivateFarObjects, which takes out an entry in a block    *)
(* other than the one the object knows of, has been seen at work, "for     *)
(* some unknown reason": no step of this module leads to it.               *)
(***************************************************************************)
ActivesMatch ==
    \A b \in Blocks : \A id \in DOMAIN block[b].active :
        /\ id \in DOMAIN m_active_objects
        /\ m_active_objects[id].static_block = b
        /\ m_active_objects[id].obj = block[b].active[id]

(***************************************************************************)
(* No object is made active while it is active: its block may turn         *)
(* inactive, be unloaded, loaded and turn active again in between, with    *)
(* the object alive elsewhere or waiting for clients to forget it. Only if *)
(* the block was unloaded while it waits can it be active again, under     *)
(* another id, and then what waits is a ghost, whose data is no longer its *)
(* own: not more than one that is alive, or has data, exists.              *)
(***************************************************************************)
LiveOnce ==
    \A id, id2 \in DOMAIN m_active_objects :
        /\ m_active_objects[id].obj = m_active_objects[id2].obj
        /\ m_active_objects[id].obj \notin exempt
        /\ ~m_active_objects[id].ghost /\ ~m_active_objects[id2].ghost
        => id = id2

(***************************************************************************)
(* A loaded block that ServerMap::save would skip has on disk the objects  *)
(* it has in memory: every move of static data into or out of a block      *)
(* marks it, but for the moves between its own two lists. "Block hasn't    *)
(* really been modified here" (activateObjects) is not so for an object    *)
(* that its on_activate puts in another block, which is exempt.            *)
(***************************************************************************)
UnmodifiedIsSaved ==
    \A b \in Blocks :
        block[b].loaded /\ block[b].modified < MOD_STATE_WRITE_NEEDED =>
            /\ b \in DOMAIN disk
            /\ Range(Serialize(block[b])) \ exempt = Range(disk[b]) \ exempt

(***************************************************************************)
(* An id that a client knows stays the id of the object the client was     *)
(* told of: "Object won't be deleted until this is 0 to keep the id        *)
(* preserved for the right object" (serverobject.h, m_known_by_count).     *)
(* Except for an id that force_delete freed once deactivateFarObjects met  *)
(* a full block: clients that knew it then are not counted when it is      *)
(* given again, and take from the count when they forget it.               *)
(***************************************************************************)
KnownIdsAreKept ==
    \A c \in Clients : \A k \in known[c] :
        \/ /\ k.id \in DOMAIN m_active_objects
           /\ m_active_objects[k.id].obj = k.obj
        \/ k.id \in forced

(***************************************************************************)
(* An object that was to be removed does not come back: it is not active   *)
(* again, but for ghosts, and not among the objects a block will make      *)
(* active. Except if deactivateFarObjects, which does not look at          *)
(* m_removed, or the unloading of its block came first.                    *)
(***************************************************************************)
RemovedStaysRemoved ==
    \A o \in killed \ exempt :
        /\ \A id \in DOMAIN m_active_objects :
               m_active_objects[id].obj = o =>
                   m_active_objects[id].removed \/ m_active_objects[id].ghost
        /\ \A b \in Blocks : o \notin Range(block[b].stored)
=============================================================================
