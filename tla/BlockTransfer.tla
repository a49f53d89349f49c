--------------------------- MODULE BlockTransfer ---------------------------
(***************************************************************************)
(* How the server keeps one client's copy of the map: RemoteClient and the *)
(* block sending of server.cpp, the block handling of client.cpp, and      *)
(* between them the two reliable channels they use, as FIFO queues (what   *)
(* MessageStream promises). ADDNODE and REMOVENODE go down channel 0 and   *)
(* BLOCKDATA down channel 1, and nothing orders one channel after another. *)
(*                                                                         *)
(* The player stands still and there is one block at each distance from    *)
(* it: block d is at distance d, straight above the player or at the same  *)
(* height. What a block contains is the number of the last edit of it.     *)
(***************************************************************************)
EXTENDS Integers, Sequences, FiniteSets, SequencesExt

CONSTANTS
    MaxDist,            \* max_block_send_distance
    GenDist,            \* max_block_generate_distance
    DIncrement,         \* max_d_increment_at_time, 2 in the code
    NearD,              \* BLOCK_SEND_DISABLE_LIMITS_MAX_D
    FarD,               \* 4 in the code: beyond it, only blocks near ground
    MaxSending,         \* max_simultaneous_block_sends_per_client
    EmergeLimit,        \* blocks of one client in the emerge queue
    RestartAfter,       \* calls of GetNextBlocks in 20 seconds
    Contention,         \* other clients use up the limit of the server
    OnDisk,             \* blocks that exist when the client joins
    OverLimit,          \* blocks beyond the limit of the map
    Above,              \* blocks straight above the player
    Ground,             \* blocks near ground: day and night differ in them
    EditKinds,          \* subset of {"near", "far"}: edits there may be
    MaxEdits,           \* bound: edits of the map
    MaxUnloads,         \* bound: times the client unloads a block
    MaxMoves,           \* bound: turns, moves and passes while building
    MaxEvents           \* bound: all of these together

ASSUME BlockTransferConstants ==
    /\ {MaxDist, GenDist, MaxEdits, MaxUnloads, MaxMoves, MaxEvents}
           \subseteq Nat
    /\ {DIncrement, NearD, FarD, MaxSending, EmergeLimit, RestartAfter}
           \subseteq Nat \ {0}
    /\ Contention \in BOOLEAN
    /\ {OnDisk, OverLimit, Above, Ground} \subseteq SUBSET (0 .. MaxDist)
    /\ OnDisk \cap OverLimit = {}
    /\ EditKinds \subseteq {"near", "far"}

Blocks == 0 .. MaxDist

VARIABLES
    \* the server
    valid,              \* blocks that are in the map and generated
    node,               \* the content of each
    emerging,           \* blocks the emerge queue has for this client
    edit_queue,         \* m_unsent_map_edit_queue
    sent,               \* m_blocks_sent
    sending,            \* m_blocks_sending
    nearest_unsent_d,
    passes,             \* calls since m_nearest_unsent_reset_timer was 0
    sight,              \* blocks the player looks at
    \* the channels
    ch0, ch1,           \* to the client
    up,                 \* to the server
    \* the client
    have,               \* blocks in its map
    copy,               \* their content
    mesh_in,            \* blocks queued for a mesh and an ACK to the server
    mesh_out,           \* results of these
    \* bounds and history
    nedits, nunloads, nmoves,
    crossed             \* blocks changed while a copy was under way

serverVars == <<valid, node, emerging, edit_queue, sent, sending,
                nearest_unsent_d, passes, sight>>
clientVars == <<have, copy, mesh_in, mesh_out>>
bounds == <<nedits, nunloads, nmoves>>
vars == <<serverVars, ch0, ch1, up, clientVars, bounds, crossed>>

Init ==
    /\ valid = OnDisk
    /\ node = [b \in Blocks |-> 0]
    /\ emerging = {}
    /\ edit_queue = <<>>
    /\ sent = {}
    /\ sending = {}
    /\ nearest_unsent_d = 0
    /\ passes = 0
    /\ sight = Blocks
    /\ ch0 = <<>>
    /\ ch1 = <<>>
    /\ up = <<>>
    /\ have = {}
    /\ copy = [b \in Blocks |-> 0]
    /\ mesh_in = {}
    /\ mesh_out = <<>>
    /\ nedits = 0
    /\ nunloads = 0
    /\ nmoves = 0
    /\ crossed = {}

\* A copy of b, or the word that the client has it, is under way.
InTransit(b) ==
    \/ \E i \in DOMAIN ch1 : ch1[i].p = b
    \/ b \in mesh_in
    \/ \E i \in DOMAIN mesh_out : mesh_out[i] = b
    \/ \E i \in DOMAIN up : up[i] = [type |-> "GOTBLOCKS", p |-> b]

\* An ADDNODE of b is under way.
Changing(b) == \E i \in DOMAIN ch0 : ch0[i].p = b

EventsLeft == nedits + nunloads + nmoves < MaxEvents

-----------------------------------------------------------------------------
(* The server: edits of the map. *)

\* Something changes the map; onMapEditEvent queues the event.
Edit(b) ==
    /\ b \in valid
    /\ nedits < MaxEdits /\ EventsLeft
    /\ nedits' = nedits + 1
    /\ node' = [node EXCEPT ![b] = nedits + 1]
    /\ edit_queue' = Append(edit_queue, [p |-> b, n |-> nedits + 1])
    /\ UNCHANGED <<valid, emerging, sent, sending, nearest_unsent_d, passes,
                   sight, ch0, ch1, up, clientVars, nunloads, nmoves, crossed>>

\* Mutant: the blocks stay in m_blocks_sent.
SetBlocksNotSending(bs) ==
    /\ nearest_unsent_d' = 0
    /\ sending' = sending \ bs
    /\ UNCHANGED sent

\* SetBlocksNotSent, and SetBlockNotSent for one block.
SetBlocksNotSent(bs) ==
    /\ nearest_unsent_d' = 0
    /\ sending' = sending \ bs
    /\ sent' = sent \ bs

\* The i-th smallest number of S.
Nth(S, i) == CHOOSE b \in S : Cardinality({c \in S : c < b}) = i - 1

\* The other queued events, in their order.
EventsBut(far) ==
    LET kept == DOMAIN edit_queue \ far
    IN  [i \in 1 .. Cardinality(kept) |-> edit_queue[Nth(kept, i)]]

(***************************************************************************)
(* The queued events are sent: a change near the player as ADDNODE or      *)
(* REMOVENODE; for those far away, and changes of metadata or of several   *)
(* nodes, the block is set not sent.                                       *)
(***************************************************************************)
SendMapEdits(far) ==
    /\ edit_queue # <<>>
    /\ far # {}                => "far"  \in EditKinds
    /\ far # DOMAIN edit_queue => "near" \in EditKinds
    /\ LET changed == {edit_queue[i].p : i \in DOMAIN edit_queue}
           unsent  == {edit_queue[i].p : i \in far}
           told    == {edit_queue[i].p : i \in DOMAIN edit_queue \ far}
       IN  /\ ch0' = ch0 \o EventsBut(far)
           /\ IF far = {} THEN UNCHANGED <<sent, sending, nearest_unsent_d>>
                          ELSE SetBlocksNotSent(unsent)
           /\ crossed' = crossed \cup {b \in changed : InTransit(b)}
                     \cup {b \in unsent : Changing(b) \/ b \in told}
    /\ edit_queue' = <<>>
    /\ UNCHANGED <<valid, node, emerging, passes, sight, ch1, up, clientVars,
                   bounds>>

-----------------------------------------------------------------------------
(* The server: choosing blocks to send. *)

\* How far above the player a block is.
Height(b) == IF b \in Above THEN b ELSE 0

\* The last distance of a search: GetNextBlocks does not loop much at a time.
LastOf(start) == IF start + DIncrement < MaxDist THEN start + DIncrement
                                                 ELSE MaxDist

(***************************************************************************)
(* The blocks a search passes over: those that are sent or being sent,     *)
(* beyond the limit of the map, too high for half of its last distance,    *)
(* not in sight, and those that are there but far and not near ground.     *)
(* (Dummy blocks, passed over beyond GenDist, nothing makes any more.)     *)
(***************************************************************************)
PassedOver(b, last) ==
    \/ b \in sending \cup sent
    \/ b \in OverLimit
    \/ Height(b) > last \div 2
    \/ b \notin sight
    \/ b \in valid /\ b >= FarD /\ b \notin Ground

(***************************************************************************)
(* One block of the search of GetNextBlocks. The search stops when enough  *)
(* blocks are selected, which is a smaller number for blocks that are not  *)
(* very close when the player is building, or when the emerge queue has as *)
(* many blocks of this client as it takes.                                 *)
(***************************************************************************)
Visit(acc, d, last, building) ==
    IF acc.stopped THEN acc
    ELSE IF Cardinality(sending) + Cardinality(acc.selected)
                >= (IF building /\ d > NearD THEN 0 ELSE MaxSending)
    THEN [acc EXCEPT !.stopped = TRUE, !.d = d]
    ELSE IF PassedOver(d, last) THEN acc
    ELSE IF d \in valid
    THEN [acc EXCEPT !.selected = @ \cup {d},
                     !.sent_d = IF @ = -1 THEN d ELSE @]
    ELSE IF Cardinality(emerging \cup acc.emerge) < EmergeLimit
    THEN [acc EXCEPT !.emerge = @ \cup {d},
                     !.emerged_d = IF @ = -1 THEN d ELSE @]
    ELSE [acc EXCEPT !.stopped = TRUE, !.d = d, !.full_d = d]

Search(start, building) ==
    LET last == LastOf(start)
        none == [selected |-> {}, emerge |-> {}, stopped |-> FALSE,
                 d |-> last + 1, sent_d |-> -1, emerged_d |-> -1,
                 full_d |-> -1]
        range == [i \in 1 .. last - start + 1 |-> start + i - 1]
    IN  FoldLeft(LAMBDA acc, d : Visit(acc, d, last, building), none, range)

\* Mutant: the search does not wrap around.
NextNearestNoWrap(found) == IF found.sent_d # -1 THEN found.sent_d ELSE found.d

\* Where the next search begins.
NextNearest(found) ==
    IF found.emerged_d # -1 THEN found.emerged_d
    ELSE IF found.full_d # -1 THEN found.full_d
    ELSE IF found.d > MaxDist THEN 0
    ELSE IF found.sent_d # -1 THEN found.sent_d
    ELSE found.d

(***************************************************************************)
(* SendBlocks, with GetNextBlocks, SendBlockNoLock and SentBlock. The      *)
(* search starts at 0 again when the player has moved to another block     *)
(* and every 20 seconds, "to workaround for some bugs or stuff". Other     *)
(* clients may leave room for the nearest of the selected blocks only.     *)
(***************************************************************************)
SendBlocks(building, moved, cut) ==
    /\ Cardinality(sending) < MaxSending
    /\ building \/ moved => nmoves < MaxMoves /\ EventsLeft
    /\ nmoves' = IF building \/ moved THEN nmoves + 1 ELSE nmoves
    /\ passes' = IF passes = RestartAfter THEN 0 ELSE passes + 1
    /\ Contention \/ cut = MaxDist
    /\ LET start == IF moved \/ passes = RestartAfter THEN 0
                                                     ELSE nearest_unsent_d
           found == Search(start, building)
           chosen == {b \in Blocks : b <= cut /\ b \in found.selected}
       IN  /\ sending' = sending \cup chosen
           /\ ch1' = ch1 \o [i \in 1 .. Cardinality(chosen) |->
                                [p |-> Nth(chosen, i),
                                 n |-> node[Nth(chosen, i)]]]
           /\ emerging' = emerging \cup found.emerge
           /\ nearest_unsent_d' = NextNearest(found)
    /\ UNCHANGED <<valid, node, edit_queue, sent, sight, ch0, up, clientVars,
                   nedits, nunloads, crossed>>

\* SendBlocks when the client takes no more: only the timer goes on.
SendNothing ==
    /\ Cardinality(sending) >= MaxSending
    /\ passes < RestartAfter
    /\ passes' = passes + 1
    /\ UNCHANGED <<valid, node, emerging, edit_queue, sent, sending,
                   nearest_unsent_d, sight, ch0, ch1, up, clientVars, bounds,
                   crossed>>

(***************************************************************************)
(* An emerge thread is done with a block. It generates a block that was    *)
(* asked for within GenDist, and sets it not sent; beyond that there is    *)
(* nothing to load.                                                        *)
(***************************************************************************)
Emerged(b) ==
    /\ b \in emerging
    /\ emerging' = emerging \ {b}
    /\ IF b <= GenDist
       THEN /\ valid' = valid \cup {b}
            /\ SetBlocksNotSent({b})
       ELSE UNCHANGED <<valid, sent, sending, nearest_unsent_d>>
    /\ UNCHANGED <<node, edit_queue, passes, sight, ch0, ch1, up, clientVars,
                   bounds, crossed>>

\* The player turns.
Turn ==
    /\ nmoves < MaxMoves /\ EventsLeft
    /\ nmoves' = nmoves + 1
    /\ sight' \in SUBSET Blocks
    /\ UNCHANGED <<valid, node, emerging, edit_queue, sent, sending,
                   nearest_unsent_d, passes, ch0, ch1, up, clientVars,
                   nedits, nunloads, crossed>>

-----------------------------------------------------------------------------
(* The server: messages of the client. *)

\* Mutant: the block stays in m_blocks_sending.
GotBlockKeepSending(p) ==
    /\ sent' = sent \cup {p}
    /\ UNCHANGED <<sending, nearest_unsent_d>>

GotBlock(p) ==
    /\ sending' = sending \ {p}
    /\ sent' = sent \cup {p}
    /\ UNCHANGED nearest_unsent_d

\* ProcessData on GOTBLOCKS and DELETEDBLOCKS.
ServerReceive ==
    /\ up # <<>>
    /\ up' = Tail(up)
    /\ IF Head(up).type = "GOTBLOCKS" THEN GotBlock(Head(up).p)
                                      ELSE SetBlocksNotSent({Head(up).p})
    /\ UNCHANGED <<valid, node, emerging, edit_queue, passes, sight, ch0, ch1,
                   clientVars, bounds, crossed>>

-----------------------------------------------------------------------------
(* The client. *)

\* ADDNODE or REMOVENODE: no effect on a block the client does not have.
ReceiveNode ==
    /\ ch0 # <<>>
    /\ ch0' = Tail(ch0)
    /\ copy' = IF Head(ch0).p \in have
               THEN [copy EXCEPT ![Head(ch0).p] = Head(ch0).n]
               ELSE copy
    /\ UNCHANGED <<serverVars, ch1, up, have, mesh_in, mesh_out, bounds,
                   crossed>>

\* BLOCKDATA: the block is stored and queued for a mesh, to be acknowledged.
ReceiveBlockData ==
    /\ ch1 # <<>>
    /\ ch1' = Tail(ch1)
    /\ have' = have \cup {Head(ch1).p}
    /\ copy' = [copy EXCEPT ![Head(ch1).p] = Head(ch1).n]
    /\ mesh_in' = mesh_in \cup {Head(ch1).p}
    /\ UNCHANGED <<serverVars, ch0, up, mesh_out, bounds, crossed>>

\* The mesh thread is done with a block.
MeshMade(b) ==
    /\ b \in mesh_in
    /\ mesh_in' = mesh_in \ {b}
    /\ mesh_out' = Append(mesh_out, b)
    /\ UNCHANGED <<serverVars, ch0, ch1, up, have, copy, bounds, crossed>>

\* Mutant: a block that was unloaded is not acknowledged.
ReplaceMeshesOfBlocks ==
    /\ mesh_out # <<>>
    /\ mesh_out' = <<>>
    /\ LET there == SelectSeq(mesh_out, LAMBDA b : b \in have)
       IN  up' = up \o [i \in DOMAIN there |->
                            [type |-> "GOTBLOCKS", p |-> there[i]]]
    /\ UNCHANGED <<serverVars, ch0, ch1, have, copy, mesh_in, bounds, crossed>>

\* Client::step takes all the mesh results, and acknowledges the blocks.
ReplaceMeshes ==
    /\ mesh_out # <<>>
    /\ mesh_out' = <<>>
    /\ up' = up \o [i \in DOMAIN mesh_out |->
                        [type |-> "GOTBLOCKS", p |-> mesh_out[i]]]
    /\ UNCHANGED <<serverVars, ch0, ch1, have, copy, mesh_in, bounds, crossed>>

\* Client::step unloads a block that was not used for long.
Unload(b) ==
    /\ b \in have
    /\ nunloads < MaxUnloads /\ EventsLeft
    /\ nunloads' = nunloads + 1
    /\ have' = have \ {b}
    /\ up' = Append(up, [type |-> "DELETEDBLOCKS", p |-> b])
    /\ crossed' = IF InTransit(b) THEN crossed \cup {b} ELSE crossed
    /\ UNCHANGED <<serverVars, ch0, ch1, copy, mesh_in, mesh_out, nedits,
                   nmoves>>

-----------------------------------------------------------------------------
Next ==
    \/ \E b \in Blocks : Edit(b)
    \/ \E far \in SUBSET DOMAIN edit_queue : SendMapEdits(far)
    \/ \E building, moved \in BOOLEAN, cut \in -1 .. MaxDist :
            SendBlocks(building, moved, cut)
    \/ SendNothing
    \/ \E b \in Blocks : Emerged(b)
    \/ Turn
    \/ ServerReceive
    \/ ReceiveNode
    \/ ReceiveBlockData
    \/ \E b \in Blocks : MeshMade(b)
    \/ ReplaceMeshes
    \/ \E b \in Blocks : Unload(b)

Spec == Init /\ [][Next]_vars

(***************************************************************************)
(* The server steps again and again, the emerge threads, the mesh thread   *)
(* and the client's loop keep running, and the channels deliver. Edits,    *)
(* moves, turns and unloads just happen.                                   *)
(***************************************************************************)
Fairness ==
    /\ WF_vars(SendBlocks(FALSE, FALSE, MaxDist))
    /\ WF_vars(\E far \in SUBSET DOMAIN edit_queue : SendMapEdits(far))
    /\ \A b \in Blocks : WF_vars(Emerged(b)) /\ WF_vars(MeshMade(b))
    /\ WF_vars(ServerReceive)
    /\ WF_vars(ReceiveNode)
    /\ WF_vars(ReceiveBlockData)
    /\ WF_vars(ReplaceMeshes)

FairSpec == Spec /\ Fairness

-----------------------------------------------------------------------------
(* Properties. *)

Message == [p : Blocks, n : Nat]

\* What each variable has. The search starts at a distance there is, also after
\* m_nearest_unsent_d has gone past the last one.
TypeOK ==
    /\ valid \subseteq Blocks
    /\ node \in [Blocks -> Nat]
    /\ emerging \subseteq Blocks
    /\ edit_queue \in Seq(Message)
    /\ sent \subseteq Blocks
    /\ sending \subseteq Blocks
    /\ nearest_unsent_d \in Blocks
    /\ passes \in 0 .. RestartAfter
    /\ sight \subseteq Blocks
    /\ ch0 \in Seq(Message)
    /\ ch1 \in Seq(Message)
    /\ up \in Seq([type : {"GOTBLOCKS", "DELETEDBLOCKS"}, p : Blocks])
    /\ have \subseteq Blocks
    /\ copy \in [Blocks -> Nat]
    /\ mesh_in \subseteq Blocks
    /\ mesh_out \in Seq(Blocks)
    /\ {nedits, nunloads, nmoves} \subseteq Nat
    /\ crossed \subseteq Blocks

(***************************************************************************)
(* The throttle of m_blocks_sending holds: never more than the limit, and  *)
(* none that is known to have arrived, through resends, late and excess    *)
(* GOTBLOCKS and blocks set not sent in between.                           *)
(***************************************************************************)
Throttled == Cardinality(sending) <= MaxSending /\ sending \cap sent = {}

(***************************************************************************)
(* A block in m_blocks_sending, which takes a place of the throttle and is *)
(* not sent again, has its data or its GOTBLOCKS under way: it cannot stay *)
(* there for ever. This needs the client to acknowledge a block it has     *)
(* unloaded before its mesh was done.                                      *)
(***************************************************************************)
SendingOnItsWay == \A b \in sending : InTransit(b)

\* Nothing that tells of b is on its way to the client or to the server.
Settled(b) ==
    /\ ~Changing(b)
    /\ \A i \in DOMAIN edit_queue : edit_queue[i].p # b
    /\ \A i \in DOMAIN ch1 : ch1[i].p # b
    /\ \A i \in DOMAIN up : up[i].p # b

UpToDate(b) == b \in have /\ copy[b] = node[b]

(***************************************************************************)
(* "Blocks that have been sent to client. These don't have to be sent      *)
(* again" (server.h, m_blocks_sent): the client has them as they are, once *)
(* what is on its way has arrived.                                         *)
(***************************************************************************)
SentNeedNotBeResent == \A b \in sent : Settled(b) => UpToDate(b)

(***************************************************************************)
(* The same, for the blocks that were not changed or unloaded while a copy *)
(* of them was under way, nor set not sent while an ADDNODE of them was.   *)
(***************************************************************************)
SentUnlessCrossed == \A b \in sent \ crossed : Settled(b) => UpToDate(b)

\* The block exists or may be generated.
Available(b) == b <= GenDist \/ b \in OnDisk

(***************************************************************************)
(* The block is available, not too far from the ground, and so are those   *)
(* nearer than it: a block in sight that does not exist and may not be     *)
(* generated is enqueued again by every search, and holds it where it is.  *)
(***************************************************************************)
Wanted(b) ==
    /\ b \notin OverLimit
    /\ b < FarD \/ b \in Ground
    /\ \A c \in 0 .. b : Available(c) \/ c \in OverLimit

Converges(b) == <>[](b \in sight) => <>[](UpToDate(b) \/ b \in crossed)

(***************************************************************************)
(* The client's copy converges: a wanted block that the player keeps       *)
(* looking at gets to the client, and gets there again after it was        *)
(* unloaded or changed, wherever the search of GetNextBlocks is and        *)
(* whatever other blocks compete for the throttle; the blocks of           *)
(* SentUnlessCrossed excepted, and those higher than half of the distance  *)
(* that a search from the player goes.                                     *)
(***************************************************************************)
BlocksConverge ==
    \A b \in Blocks :
        Wanted(b) /\ Height(b) <= LastOf(0) \div 2 => Converges(b)

(***************************************************************************)
(* "Limit the send area vertically to 1/2" (GetNextBlocks, of d_max, which *)
(* is max_block_send_distance until it is cut to where the search ends):   *)
(* all blocks up to half of that distance above the player converge.       *)
(***************************************************************************)
UpperBlocksConverge ==
    \A b \in Blocks :
        Wanted(b) /\ Height(b) <= MaxDist \div 2 => Converges(b)
=============================================================================
