# Formal models of worldcraft

worldcraft is a Minetest 0.4.7 game (server and client in one binary) packaged
for Android. Its own core is the C++ code in `src/gamesrc/`; Irrlicht, Lua,
SQLite, JsonCpp and utf8 are vendored, and `assets/` holds Lua game content.
This directory has TLA+ modules of the concurrent core of that code, TLC
configurations that check them, and TLAPS proofs about them.

## 1. Inventory

| Component | State | Operations | Interacts with |
|---|---|---|---|
| Connection, reliable channels (`connection.cpp`) | per channel: next sequence numbers, `outgoing_reliables`, `incoming_reliables`; `m_outgoing_queue` | Send, rawSendAsPacket, resend and ping timers, ACK and RELIABLE handling, early packet buffer | its own thread; users through two queues; the network |
| Connection, peers (`connection.cpp`) | `m_peers`, `m_peer_id`, command and event queues | connect, SET_PEER_ID, DISCO, timeouts, deletePeer | Server and Client through events (peerAdded, deletingPeer, data) and commands |
| Connection, split packets | `IncomingSplitBuffer` per channel | insert, removal of unreliable chunks on a timeout | channels |
| Emerge (`emerge.cpp`) | `blocks_enqueued`, `peer_queue_count`, a block queue and a semaphore per thread | enqueueBlockEmerge, popBlockEmerge, load or generate, announce, shutdown | server thread enqueues; threads take `m_env_mutex` and `m_con_mutex`, change the map and the clients' sets |
| Server block transfer (`server.cpp`, RemoteClient) | `m_blocks_sent`, `m_blocks_sending`, `m_nearest_unsent_d`, queue of map edit events | GetNextBlocks, SendBlocks, SetBlocksNotSent, GotBlock, map edits | emerge queue, channels 0 and 1, the client's GOTBLOCKS and DELETEDBLOCKS |
| Client block handling (`client.cpp`) | map, `MeshUpdateQueue`, mesh results | BLOCKDATA, ADDNODE, REMOVENODE, unloading, mesh thread, acknowledgement | channels, mesh thread |
| Server, rest | clients, players, detached inventories, media | join, interact, inventory actions, chat, active object messages | environment, scripts |
| Map and storage (`map.cpp`, `database*.cpp`) | sectors, blocks, modified flags, SQLite | load, save, unload, addNode, removeNode | everything on the server |
| Liquids (`Map::transformLiquids`) | queue of positions | transform within a loop limit, requeue | map edits |
| Lighting (`map.cpp`, `voxelalgorithms.cpp`) | light of each node | spread and unspread | map edits, map generators |
| Environment, active objects (`environment.cpp`) | active objects, static objects in blocks | activate, deactivate, step, ABMs, save | map blocks, server |
| Inventory (`inventorymanager.cpp`) | lists of item stacks | move, drop, craft, with script callbacks | server, scripts |
| Rollback (`rollback.cpp`) | action log | report, revert | map, inventory |
| Threads (`util/thread.h`, `jthread/`) | queues, semaphores | RequestQueue, MutexedQueue, Event | all threads |
| Players, collision, map generators, node definitions, settings, scripts, rendering, sound, platform | local | sequential or numeric code, input and output | |

Behaviours that are hard, and what is correct for each component:

- *Channels.* Datagrams are lost, duplicated and reordered, sequence numbers are
  16 bits and start at 65500, ACKs free the sender's only copy. Packets must be
  processed in order, once, without a gap; whatever was acknowledged must not be
  lost; while both ends stay, everything must arrive; the window must hold.
- *Peers.* Ids are given again at once, events and commands are queued. A message
  must reach the peer it was meant for, and the server's client list must follow
  the connection's.
- *Emerge.* One server thread and several emerge threads share a map of enqueued
  blocks, per-thread queues, per-peer counts and semaphores; generating takes the
  environment lock only before and after. Map, queues and counts must agree; no
  block may wait for a sleeping thread; shutdown must end; a chunk must not be
  generated over what players did or clients have.
- *Block transfer.* Server sets, messages on two channels and the client's copy
  race with edits, unloading and generation. Blocks counted as sent must be
  current at the client; the throttle must hold and must not clog; every block
  in sight must arrive.
- *Meshes.* Tasks merge while others are made. No acknowledgement and no change
  may be lost; an urgent task must not stop the queue.
- *Storage and active objects.* An object lives in `m_active_objects`, in a list of
  the block its static data is in, on disk and in what clients know, and each of
  these changes on its own clock: every half second, every two seconds, on unload,
  on save. Objects must be neither lost nor doubled nor come back when removed, an
  id must stay with the object clients know, and a block that save skips must be
  on disk as it is.
- *Inventory and rollback.* Moves take before they know what fits, scripts answer
  and interfere in between, the client predicts what the server may refuse. Items
  must be neither made nor lost, limits must hold, the copy at the client must
  follow, and undoing the log must give back the chest.
- *Liquids, split packets, request queues.* Requeueing under a loop limit; chunks
  of several packets in one map; callers that wait a second at most for a worker.

`PROJECT.json` lists the components with their status and every hazard at its
line, with the properties that cover it.

## 2. Modules

| Module | What it is |
|---|---|
| `MessageStream` | abstract specification: what a channel promises to its users |
| `ReliableChannel` | one direction of a channel, both ends and the network |
| `ReliableChannelProofs` | theorems about it, and that it implements `MessageStream` |
| `Emerge` | emerge queue, emerge threads, chunk generation, shutdown |
| `EmergeProofs` | theorems about `Emerge` |
| `BlockTransfer` | one client's blocks: RemoteClient, two channels, the client |
| `BlockTransferProofs` | theorems about `BlockTransfer` |
| `MeshUpdateQueue` | the client's mesh queue and thread |
| `MeshUpdateQueueProofs` | theorems about `MeshUpdateQueue` |
| `PeerTable` | the connection's peers and the server's clients, joining and leaving |
| `PeerTableProofs` | theorems about `PeerTable` |
| `ActiveObjects` | objects, their static data in blocks, loading and saving of blocks, restarts and crashes |
| `ActiveObjectsProofs` | theorems about `ActiveObjects` |
| `Inventories` | inventory actions between client, server, scripts and rollback log |
| `InventoriesProofs` | theorems about `Inventories` |
| `Loops` | lemmas about loops over finite sets, cited by three of the proof modules |

`ReliableChannel` implements `MessageStream` (property `Refinement`).
`BlockTransfer` uses channels as FIFO queues, which is what `MessageStream`
promises; it reduces an emerge thread to its visible effect (`Emerged`), which
`Emerge` models in full, and the mesh thread to `MeshMade`, which
`MeshUpdateQueue` models in full. `Inventories` uses a channel each way as a FIFO
queue, for the same reason. `ActiveObjects` and `Emerge` look at the same blocks:
the one at the objects in them and at saving, the other at generation.

### ReliableChannel

The code's variables keep their names. `net` and `acks` are sets of datagrams, a
receive step may leave the datagram there (duplication), `LoseData` and `LoseAck`
take it away. `wire` and `accepted` are history: bodies in the order of
`rawSendAsPacket`, and positions in the order in which the receiver processed
them. A packet carries its sequence number, which is all the receiver's steps
look at, and its position, which is what the properties are stated with.
`mistaken` is history too: the packets dropped as old that were never
processed, each with the position the receiver waited for then.
Actions: `Send` (the command), `SendQueued` (an iteration of the loop in
`send(dtime)`, with the window test), `Ping`, `Resend`, `ReceiveAck`,
`ReceiveReliable` (the RELIABLE branch of `processPacket`, with the ACK),
`CheckIncomingBuffers` (old packets dropped, the due one processed),
`SenderDeletesPeer` and `ReceiverDeletesPeer`. `InsertPacket` is
`ReliablePacketBuffer::insert`, `WithoutOld` the loop that clears old packets,
`seqnum_higher` the comparison of `connection.h`. As in `receive()`, the socket is
read only when the buffers have nothing to do. The congestion control may stop
the loop of `send` after any packet, so `SendQueued` is one packet.

Abstracted: split packets, unreliable packets, contents, round trip times.

### Emerge

Blocks lie on a line, a chunk is `CHUNK` of them, the extra border is one block on
each side. `blocks_enqueued` maps positions to their `BlockEmergeData`. The
server thread's steps are `EnqueueBlockEmerge` (all of it under `queuemutex`),
`Signal` (`qevent.signal()` after the mutex is released), `Trigger`, `SendBlock`,
`Edit`, and the destructor (`BeginShutdown`, `StopThread`, in its three steps for
each thread). A thread's program counter has the places where it holds no lock:
`loop`, `wait` (about to wait on its semaphore), `fetch`, `make` (makeChunk runs
without a lock), `announce`. `FinishBlockMake` copies the area back as it was
copied out, so it undoes edits made since: `edited` has the blocks that differ
from what generation gives. `outdated` has the blocks changed by a generation
after they were sent. Memory and disk are one map: loading leaves content alone.

Abstracted: the generator itself; lighting; the order of locks, since each step
is a section under its mutex.

### BlockTransfer

The player stands still, one block is at each distance, straight above the
player (`Above`) or at its height, and it looks at the
blocks in `sight`. `Search` is the loop of `GetNextBlocks` over distances with the
throttle, the early stop, the emerge limit and `max_d_increment_at_time`;
`PassedOver` has what makes it go on to the next block (`continue` in the code):
sent or being sent, beyond the map, too high for half of the distance this
search goes to, not in sight, far and not near ground. Dummy blocks, which
the code passes over too (`server.cpp:482-486`), are left out: nothing makes a block
a dummy in this version.
`NextNearest` is where the next search starts. `SendBlocks` also takes
whether the player is building, whether it moved (both restart or restrain the
search), and how many of the selected blocks other clients leave room for.
`SendMapEdits` sends the queued events, near ones as ADDNODE or REMOVENODE on
channel 0, others by `SetBlocksNotSent`, any of them either way: a batch may tell
one change of a block and resend the block for another. `ReplaceMeshes` sends GOTBLOCKS,
`Unload` sends DELETEDBLOCKS, `ServerReceive` handles both. `crossed` is history:
blocks that changed or were unloaded while a copy was under way, or were set not
sent while an ADDNODE was.

Abstracted: frustum geometry is the set `sight`; several blocks at one distance,
and so heights between 0 and the distance; that a block is near ground (day and
night differ in it) does not change; timers are numbers of passes; the
nothing-to-send counter only spaces the passes.

### MeshUpdateQueue

Blocks on a line, each mesh made from a snapshot of its block and its
neighbours. `AddBlock` is `MeshUpdateQueue::addBlock` with its merging, `Pop` is
`pop` with the urgent set; the main thread's steps are whole handlers with all the
tasks they add, in order. `owed` is history: blocks received and not
acknowledged.

Abstracted: the mesh itself is its snapshot. One row of blocks means that the
edge neighbours of `addUpdateMeshTaskWithEdge` are all the neighbours that
`fill` reads; in space `fill` reads 26 neighbours and the edge update covers 6, so
meshes may lack a change in a diagonal neighbour. `IdleMeshIsCurrent` says nothing
of these.

### PeerTable

The server's two threads and the games at `Addresses`. The Connection thread's
steps are `ReceiveDatagram` (the part of `receive()` that finds or makes the peer,
with what `processPacket` then does: nothing, a DISCO, or data for the user),
`TimeoutPeer` and `ProcessCommand`, all of which end in `DeletePeer` when they
remove somebody. The Server thread goes round: `AsyncRunStep`
(which goes on to the peer changes, or returns early when no time has passed),
`ReceiveEvent` (an iteration of the loop in `Connection::Receive`, with the
callbacks `peerAdded` and `deletingPeer`), `HandlePeerChanges` (an iteration of
the loop over the queued changes, which `AsyncRunStep` and `Server::Receive` both
run) and `ChangesHandled` (its end),
`ProcessData` (its checks of the peer, the ban and the client, and `DenyAccess`).
A game does `SendDatagram`, `ReceiveSetPeerId` and `Disconnect`.
`net` and `ids_sent` only grow: what was sent may be received at any later time,
many times or never. The address in a data event is history; the code has only
the peer id there.

Abstracted: what channels keep (see `ReliableChannel`), commands that send, the
content of messages, and the game's own peer table, which has the server only.
`has_sent_with_id` is left out because nothing sets it.

### ActiveObjects

One lock, `m_env_mutex`, covers every action, so the interleavings are those of
whole functions: `ManageActiveBlocks` (every 2 seconds: `deactivateFarObjects`,
then `activateBlock` for what came into range), `RemoveRemovedObjects` (every
half second), `Move` and `Kill` (what an object's step, a player or a script
does), `AddActiveObject`, `SendObjects` (a client is told what came and went),
`Leave`, `Load`, `Unload` (`timerUpdate`), `Save`, `Restart` (the destructors
and the next start) and `Crash`. The functions of `environment.cpp` are
operators on a record of the state: `FreeId`, `AddActiveObjectRaw`,
`ActivateObjects`, `DeactivateObject` with its two branches `Resave` and
`MoveToStatic`, and `RemoveObject`. A position is a block or `Outside`, beyond
the limit of the map, where `emergeBlock` gives no block: there `Resave` does
nothing, and `MoveToStatic` has taken the old data out and goes on to the next
object. `ActivateObject` is one pass of the loop of `activateObjects`: the
object cannot be created and stays stored, or `on_activate` moves it, before its
position is read, or it does not. `ManageActiveBlocks` applies
`DeactivateObject` to the objects in the order of their ids, as the loop does,
with `force_delete` carried from one object to the next. A block has `m_stored`,
`m_active` and its modified flag; `disk` is what the database has of each.

Which blocks are near players and which objects are near a client are chosen
freely, as is whether an object moved enough for its data to count as changed
(`changed`, for the objects whose block does not change), and what `on_activate`
does with each object (`spot`). `born`, `killed`, `exempt` and `forced` are
history, and so is the `ghost` flag of an object.

Abstracted: an object is its static data, so data that differs only by time is
the same; positions are blocks; players are left out (they have no static data);
objects for which `isStaticAllowed` is false too. `clearAllObjects` is not modelled.

Blocks are numbered, `0 .. LastBlock`, and `ForEach` runs the loop of a function over
a set of ids or blocks in increasing order, as `std::map` does. `OneHome` is stated
with positions: there is a place that has the object, and no other.

What the code does that the properties except, each by a named set:

- *Full block* (`exempt`, and `forced` for the ids): `deactivateFarObjects`
  drops an object whose block has `max_objects_per_block` stored ones, and sets
  its own parameter `force_delete` (`environment.cpp:1956`), so that all the
  objects after it in the loop are deactivated and deleted, near players and
  known to clients or not. `activateObjects` drops all the objects of a block
  with too many. `forced` has the ids that clients knew when they were freed so.
  A client that still knows one is not counted when the id is given to another
  object, yet takes from its count when it forgets the id; with two clients the
  new object can then be freed while the other client knows it, so
  `KnownIdsAreKept` excepts the id until the next start, and not only the
  client's old knowledge of it. The run has one client (two take too long); the
  theorem is about any number.
- *No id* (`exempt`): the object is deleted.
- *Early unload* (`exempt`): `timerUpdate` does not look at `m_active`. A block that
  is inactive and unused is unloaded while objects that left it and are alive
  elsewhere have their data there; loaded and activated again, it makes them a
  second time.
- *Ghosts* (not `exempt`): an object that is pending deactivation, and only waits
  for clients to forget it, may have its block unloaded too. Its data is then on
  disk and no longer its own, and activation gives the data another id. `OneHome`
  holds of it; `LiveOnce` counts the new object, not the ghost.
- *Beyond the map* (`exempt`): an object far from players and outside the limit of
  the map loses its data (`environment.cpp:1926` before `1985`) and stays active.
- *Moved in on_activate* (`exempt`): its data leaves the block for another one and
  neither is marked, so a save writes both, one or none of them. The comment at the
  end of `activateObjects`, "Block hasn't really been modified here", is not so then.
- *Deactivated before removal* (`exempt`): `deactivateFarObjects` does not look at
  `m_removed`. An object that was killed is stored if its block becomes inactive
  before it was swept.
- *Crash* (`exempt`): an object whose home in memory is not its home on disk.

### Inventories

One player, with a main list, a craft slot, its result and preview, and two
chests (inventories of nodes, or detached ones: both kinds are asked
`allow_take`, `allow_put` or `allow_move`). A move between the two asks both,
each for itself. Slots are pairs of list and index, `inv` has all of them. The
client's `Move`, `Drop` and `CraftItems` send the action and apply `clientApply`
to `local`; `ReceiveInventory` replaces `local` and `from_server`;
`RevertPrediction` is the ten-second return. The server takes the next action:
`Mark` (`setInventoryModified`, which comes first) and then `Refuse` or
`ReceiveMove`, `ReceiveDrop`, `ReceiveCraft`, each the whole of `apply`, with
the answers of the scripts (`take`, `put`; -1 is infinite), what they dropped,
and whether they emptied the source meanwhile. `MoveItem` is
`InventoryList::moveItem` with its way back and its exchange; `ResetSource` and
`ResetDestination` put infinite stacks back. `SendInventory` is `UpdateCrafting`
and `SendInventory` in `AsyncRunStep`. `Change` is a script or another player.
`made`, `ground` and `inexact` are history.

Abstracted: wear and metadata of items; one recipe; the player's lists are not
limited by scripts; a slot that the client names exists.

What the code does that the properties except:

- A move onto a stack of another kind exchanges the two *whole* stacks, however
  few items were asked for or allowed, and nobody is asked about the stack that
  comes back. `LimitsRespected` speaks of moves onto a slot with room
  (`MoveWithinRoom`).
- The log and the callbacks get the number that was allowed, not the number that
  fitted, and a move between two infinite chests is not logged (`inexact`).
- An infinite source that is exchanged for another stack puts that stack into a
  free slot of the destination; without one it is lost. Within one infinite chest
  an exchange loses both stacks (accounted for in `made`).
- Between two chests that are both infinite, the destination is put back as it
  was, and the source is not (`inventorymanager.cpp:330-356`): it loses what was
  moved. `LimitsRespected` names this exception (`MayLose`).

## 3. Runs

| Run | Question | Bounds |
|---|---|---|
| `channel_wrap` | Across the wrap, is the order kept, the window respected and `MessageStream` implemented, and is nothing lost, and does everything arrive, but for the mistake of `seqnum_higher`? | 6 numbers, the first is 4, window 2, 3 payloads, a ping, 3 packets in all |
| `channel_stall` | Does every payload arrive across the wrap? **violated** | 5 numbers, the first is 4, the last one; 2 payloads and a ping |
| `emerge_queue` | Do queues, map and counts agree, is no wakeup lost, is every block popped, does the shutdown end? | 3 blocks, 2 threads, 2 peers, limits 3, 2 and 1 |
| `emerge_map` | Is a chunk generated once, before anybody has it, and announced? | 2 chunks of 2 blocks, 1 thread |
| `emerge_threads` | The same with two threads: **violated** | 1 chunk of 2 blocks |
| `blocks` | Do throttle, sets and copies stay consistent under races, and does the copy converge? | 4 distances, with one block to be generated straight above the player, one beyond the map and one far; any 2 of: 2 edits, 1 unload, 1 turn, move or building pass |
| `blocks_above` | Are blocks sent up to half of the send distance above the player? **violated** | 5 distances, all on disk, the block at 2 straight above |
| `blocks_edits` | Is a sent block current after a change? **violated** | 1 block, 1 edit |
| `peers` | Do clients follow peers, is data taken for who sent it, is who left forgotten? | 2 addresses, 2 ids, 2 joins, 1 data event |
| `mesh` | Are tasks, acknowledgements, urgency and meshes consistent, and all tasks made? | 3 blocks, 4 changes, 1 unload |
| `objects` | Is every object in one place, through moves, saves, unloads, restarts and crashes? | 2 objects, 2 blocks, 1 client, 2 ids, 1 object to a block, any 2 of: births, moves (also beyond the map), deaths, what `on_activate` does, leaves, crashes, restarts, unloads of blocks with active data |
| `inventory` | Are items kept, limits respected, logs reversible, predictions corrected? | 1 own slot, 2 of a chest and 1 of another, stacks of 2, 2 actions, 1 change |

What is checked in each:

- `InOrder`, `Refinement`: the receiver processes positions 1, 2, 3, ... and
  hands over payloads as `MessageStream` allows. `WindowRespected`: at most
  WINDOW payloads are unacknowledged; pings come on top.
- `AckedIsKept`: a packet the sender forgot was processed or is buffered, unless
  the receiver dropped it as old while it waited for an earlier one; and
  that happens only with the wrap, or more than half of the numbers, between the
  two, which says how far the mistake of `seqnum_higher` goes.
- `AllDelivered`: payloads arrive unless an end gives the peer up. The code does not
  keep it; `DeliveredUnlessLost` is what it keeps: with the same exceptions, and but
  for packets lost so, all payloads asked for have arrived again and again.
- `QueuesInSync`, `PeerCountsExact`, `NoLostWakeup`, `EveryBlockPopped`,
  `ShutdownCompletes`: the emerge queue.
- `ChangesAnnounced`: a sent block that a generation changed is about to be set
  not sent. `ChunkNotSentBefore`: no client has a block of a chunk that is
  being written. `OnlyBordersLoseEdits`: edits are lost only in the border of a
  chunk under generation. (They are lost there: a player may edit a block of a
  chunk next to the one being made, and `blitBackAll` puts the old copy back.)
- `Throttled`, `SendingOnItsWay`, `SentUnlessCrossed`: block transfer.
  `BlocksConverge`: a block the player keeps looking at is at the client as it is in
  the map, for ever from some time on, if it is wanted (inside the map, near or near
  ground, with no block that does not exist and may not be generated between it
  and the player) and not higher than half of where a search from the player ends.
  `UpperBlocksConverge` is the comment of the vertical limit, half of
  `max_block_send_distance`; the code does not keep it.
  `SentNeedNotBeResent` is the comment of
  `m_blocks_sent`; the code does not keep it, `SentUnlessCrossed` is what it does keep.
- `ClientsFollowPeers`: with the queued changes handled, every client is a peer at
  its own address, and a peer without a client is about to be deleted.
  `AddedIsNew`: the assertion in `handlePeerChange`, foreseen over both queues.
  `DataIsFromItsClient`: the client found by the id of a data event sent it, even
  when the peer with that id has become another. `GoneIsForgotten`: a game that
  left is not a client for ever, although its first datagrams carry no id and may
  make a new peer when it is gone.
- `UrgentsAreQueued`, `OwedIsPending`, `IdleMeshIsCurrent`, `EveryTaskIsMade`: the
  mesh queue.
- `OneHome`: the static data of an object is in one block, once. `ActivesMatch`:
  the `m_active` lists have the data of active objects that know it is there,
  with no exception. The comment at "hack #83274" (`environment.cpp:1959-1965`)
  says that an entry was found in another block than the object's, "rarely for
  some unknown reason": the module has no step that leads there, so the reason
  may be in what is abstracted (`clearAllObjects`, objects that scripts add or
  remove in the middle of a loop) or be gone since the comment was written. `LiveOnce`: no object
  is active under two ids, ghosts not counted. `UnmodifiedIsSaved`: what `save`
  would skip is on disk. All but `ActivesMatch` with the exceptions named in
  section 2. `KnownIdsAreKept`: the comment of `m_known_by_count`.
  `RemovedStaysRemoved`: what was removed does not come back.
- `ItemsKept`: the items there are, and those on the ground, are those there
  were and those made on purpose. `LimitsRespected`: a chest gains and loses no
  more than its own script answered, also when two chests answer differently,
  and an infinite stack keeps what it has, except to another infinite one.
  `RollbackRestores`: undoing the log gives back the chest. `CopyIsCurrent`:
  with nothing under way the client sees the server's inventory.

Why the bounds are enough. In `channel_wrap` three packets in flight, two before
the wrap and one after it, show both tests of `seqnum_higher` and every place of
the sorted insert; the two before the wrap come early and in turn as they do
where there is no wrap. (Packets that are more than half of the numbers apart,
which takes a burst of pings beside the window, are in the theorem and not in
the run.) In `channel_stall` two payloads and a ping are the smallest number
where one packet is early, one late and one in turn. In `emerge_queue` three
blocks make one thread's queue two long while the other works, and only one
block goes through fetching (the others are over the limit and end at once, the
shorter of the two ways through the loop); `emerge_map` has the ways through
generation, with overlapping borders of two chunks. Two peers make the count of
one differ from who asks. In `blocks` each race has two parties and one block;
the other blocks are there for the throttle and the emerge limit to hold
something back and for each reason to pass a block over, and four distances with
an increment of two make the search move on, wrap and start again. In
`blocks_above` a search that starts at 0 ends at 2, one that starts at 3 at 4.
`peers` has two joins: the same id for two games, or two ids for one game that
comes back by an old datagram, and a data event between them. `mesh` has a
middle block with two neighbours, and enough changes for a task in the queue,
one being made, one among the results and a fourth. In `objects` one object to a
block makes the second one meet a full block, two ids run out and wrap, and two
events are what the hardest cases take (an object moves, and moves back or dies
or the server crashes; a block is unloaded while an object waits to be
forgotten, and the object is killed); activation, deactivation, sweeping,
telling clients, loading, unloading and saving are not bounded. In `inventory`
stacks of two make a move fit whole, in part or not at all, the second chest
makes two scripts answer, two actions are enough to have one under way while
another is refused, and the second to undo or spoil what the first did; the
single change falls before, between or after them.

CHECK_DEADLOCK is off: the counters that bound a run stop it, and a closed
channel, a finished shutdown and an idle queue are legitimate ends.

Every module has one type invariant at most; those of `MeshUpdateQueue` and
`PeerTable` say nothing that the other properties do not, and are left out. What is
needed of types in their proofs (`Typed`, `QueuesTyped`) is proved with them.

### Fairness

- Channel: the Connection thread loops for ever (`SendQueued`,
  `CheckIncomingBuffers`, `Resend` weakly fair), and a datagram that is sent again
  and again arrives in the end (strong fairness of receiving a packet of a given
  position, and an ACK of a packet at a given position), while one that is not sent
  any more does not stay in the network for ever. Nothing is assumed of `Send`,
  `Ping`, deletions and other losses.
- Emerge: threads run, `enqueueBlockEmerge` gets to its signal, the server thread
  triggers the threads every two seconds, the destructor goes on. That a thread
  waiting on its semaphore wakes is fairness of `Wake`, enabled only when there is
  a count. `LoadFails` is not fair: it need not happen.
- Block transfer: the server steps (`SendBlocks` without building, moving or
  contention, as these need not stop it), channels deliver, emerge and mesh threads
  finish. The emerge queue may be assumed to serve every block because of
  `EveryBlockPopped`, a mesh to be made because of `EveryTaskIsMade`.
- Peers: both threads of the server loop, `AsyncRunStep` gets to
  `handlePeerChanges` again and again as time passes, and a peer whose game is
  gone times out. Nothing is assumed of games and network: an old datagram only
  makes a new peer, which times out again, and `MaxJoins` bounds how often.
- Meshes: the mesh thread and the client's main loop keep running.

## 4. Findings

1. `channel_stall`: `seqnum_higher` says yes both ways for two numbers on
   different sides of the wrap. A packet numbered 0 that comes early while 65535
   is awaited is acknowledged, then dropped as old; the sender has let it go, and
   the channel stalls until the peer times out. It takes reordering at the one
   wrap, 36 packets after a peer joins.
2. `emerge_threads`: with more than one emerge thread the same chunk can be
   generated twice, the second time over blocks a client has.
3. `blocks_above`: the comment at the vertical limit of `GetNextBlocks` says half of
   the send area, but its `d_max` was cut to two beyond the start of this search. A
   block straight above at height 2 is let through only by a search that starts at 2,
   and none may (it may still arrive if other blocks make one start there); from
   height 3 on no search lets it through.
4. `blocks_edits`: `GotBlock` marks as sent a block that was set not sent in between.
   The same end is reached near the player, where ADDNODE on channel 0 overtakes
   BLOCKDATA on channel 1 and is lost at a client that does not have the block yet
   (`EditKinds = {"near"}` shows it alone).

What the code does to objects and items that the properties of `ActiveObjects` and
`Inventories` except is listed with these modules in section 2.

## 5. Proofs

The argument is the same everywhere: an invariant that implies the property, that
the initial states have and that every action keeps, one step of the proof for
each action. What is told here is why the property is not such an invariant by
itself, and what has to be added.

`ReliableChannelProofs` proves, for all values of the constants that satisfy
`ChannelConstants`:

- `TypeCorrect`: `Spec => []TypeOK`.
- `DeliveredInOrder`: `FewPackets /\ Spec => []InOrder`, where `FewPackets` is
  `MaxPackets <= SEQNUM_MAX`: no two packets share a number. It holds across the
  wrap and for every initial number.
- `AckedPacketsAreKept`: `FewPackets /\ Spec => []AckedIsKept`, across the wrap too,
  for every initial number.

`InOrder` is not inductive: a step compares sequence numbers, not positions. The
strengthening `Numbered` says that in every header under way, in
`outgoing_reliables` and in the receiver's buffer, the number is the one of the
packet's position (`SeqOf`, injective under `FewPackets`), and that both ends'
next numbers are those of the next positions. A packet whose number equals
`next_incoming_seqnum` is then the next position, whatever `seqnum_higher` says
of the others: neither comparison being true means equal numbers
(`NeitherIsEqual`), which is why order survives the wrap although delivery
does not.

`AckedIsKept` needs more conjuncts (`KeepInv`): every ACK under way is of a
packet that was sent (`AcksKnown`) and that the receiver holds (`AcksHonest`), every
packet is with the sender or the receiver (`SomeoneHolds`), where "held" is
processed, buffered or once dropped by mistake; and every mistake is where
`seqnum_higher` may be wrong (`MistakesConfused`): it puts a position before an
earlier one only across the wrap or over more than half of the numbers
(`HigherIsLaterOrConfused`). Insertion keeps everything
(`InsertPacketProperties`), and clearing drops from the front what compares as old
(`WithoutOldProperties`): processed, or remembered as a mistake (`MistakeRemembers`).

- `ImplementsMessageStream`: `FewPackets /\ Spec => Refinement`. `Refinement` maps
  payloads asked for, payloads handed over and "both ends have the peer" to
  `MessageStream`. A step that processes a data packet is its `Receive`, `Send` and
  the deletions are its `Send` and `Close`, every other step stutters. That
  the processed packet has the next payload is not visible in the state, so the
  proof has `StreamInv`: packets carry payloads 1, 2, 3, ... with pings in between
  (`BodiesCount`), what waits in `m_outgoing_queue` are the payloads after those
  (`QueueFollows`), and the number handed over is that of the packets processed
  (`DeliveredCount`). `NextIsProcessed` takes from `Numbered` and `InOrder` that a
  receiver's step processes the next position or none.
- `WindowHolds`: `Spec => []WindowRespected`, with no assumption on the number of
  packets. The code compares the size of the whole buffer, pings included, with
  the window before a payload leaves the queue; the proof shows that only
  `SendQueued` adds a payload and that it adds one at most.

`EmergeProofs` proves, for any number of blocks, threads and peers that satisfies
`EmergeConstants`:

- `TypeCorrect`, `MapAndQueuesAgree` (`QueuesInSync`) and `CountsAreExact`
  (`PeerCountsExact`), from one invariant `QueueInv == TypeOK /\ InSync /\
  PeerCountsExact`. They need each other: `popBlockEmerge` decrements the
  count of a peer, which stays a natural number (the code's `u16` does not wrap)
  only because the counts are exact, and the popped block is in the count only
  because queues and map agree. `InSync` states the
  agreement by positions in the queues, `InSyncIsQueuesInSync` shows that it is the
  property the run checks.
- `NoWakeupIsLost` (`NoLostWakeup`), given `QueueInv`: a block reaches a queue only
  together with `to_signal`, and a thread goes on to `wait` only when
  `popBlockEmerge` gave it nothing, which, as map and queues agree, means that its
  queue is empty.
- `ClientsAreTold` (`ChangesAnnounced`), from `AnnounceInv`: only a thread in
  `announce` has changed blocks to tell of.
- `OneThreadChunksAreNew` (`ChunkNotSentBefore`) and `OneThreadKeepsEdits`
  (`OnlyBordersLoseEdits`), for `NThreads = 1`, from `ChunksInv`: blocks are generated
  by whole chunks, only generated blocks are sent or edited, and while the
  thread makes a chunk no block of it is generated. With two threads the last
  part is false (finding 2), so the assumption is needed.

`BlockTransferProofs` proves, for any number of blocks, edits and unloads and any
limits:

- `NothingSendsForEver` (`SendingOnItsWay`), from `SendingInv == QueuesTyped /\
  SendingOnItsWay`. The property is inductive once the queues have their types:
  what enters m_blocks_sending goes down channel 1 in the same step, whatever the
  search chose (`SendBlocksSends`), each further place (client, mesh thread,
  results, GOTBLOCKS) hands it on, and the server takes it out on arrival. The
  code passes the blocks to send in the order of their distance, so the proof
  needs that this order leaves none out (`NthIsOnto`: counting the nearer ones is a
  bijection, and keeps the order).
- `SentIsUpToDate` (`SentUnlessCrossed`), from `CopyInv`. The property speaks of the
  moment when nothing is under way; the invariant says what each thing under way
  is worth, for the blocks that are not `crossed`. Of a block with an event in the
  queue the last event is its content (`LastEventIsCurrent`); of one with none, the
  last ADDNODE under way is (`LastChangeIsCurrent`) and every BLOCKDATA is
  (`DataIsCurrent`); the client has every block that it tells of, or told of and
  did not take back (`ToldIsThere`), and has it as it is unless an ADDNODE is
  still to come (`ToldIsCurrent`). `LastSays` is "the last message of this block in
  this queue says this"; its lemmas say that appending, filtering
  (`EventsButKeepsOrder`) and receiving keep it. The steps that carry neither event nor
  change are instances of one lemma (`CopyKept`). `crossed` cannot be left out:
  `blocks_edits` shows the counterexample.
- `Typed` (`TypeOK`) and `ThrottleHolds` (`Throttled`), from `ThrottleInv == TypeOK /\
  Throttled`. The search of `GetNextBlocks` is a loop over distances; what it
  has found at each distance stays within the free places it started with
  (`Within`, `SearchFinds`), and the blocks that are sent are those it found. The
  server thread holds the environment from the search to the sets, so the free
  places are those of the same state; the other steps only move blocks out.

`MeshUpdateQueueProofs` proves, for any number of blocks, changes and unloads:

- `PopFindsUrgents` (`UrgentsAreQueued`) and `ReceivedIsAcknowledged`
  (`OwedIsPending`), from `QueueInv`. All additions go through `AddBlock`, and the
  handlers chain up to five of them, so the proof has a relation between a queue
  and a later one (`Keeps`: its positions, its wishes for an ACK and its urgent
  positions are kept). `AddBlockKeeps` proves it for one addition, the handlers
  by transitivity. `Pop` removes from the middle of the queue; `RemoveAtKeeps`
  shows that the others stay.
- `NoMeshStaysStale` (`IdleMeshIsCurrent`), from `MeshInv`: of a block, the last
  task there is, in the queue, being made or among the results in this order,
  has the block and its neighbours as they are, and with no task the mesh shows
  them (`LastIsCurrent`). A change adds a task for the block and each neighbour;
  a queue has one task for a block at most, so a merge makes the last one
  current.

`InventoriesProofs` proves, for any sizes, kinds of items and bounds:

- `AllTyped` (`TypeOK`).
- `ClientCatchesUp` (`CopyIsCurrent`), from `CopyInv`: with nothing to send, the
  last inventory sent is the one the server has, with the preview of its craft
  slot (`ServerSent`), and a prediction that differs from the last inventory is of an
  action under way that will mark the inventory, or of a marked one, or of one
  on its way (`PredictionsAreAnswered`). Every handler of an action is shown to be
  an instance of one relation (`TakesAction`): what marks the inventory does so
  before anything else, also when the action is refused. This is the comment in
  `server.cpp` ("Always set inventory not sent, to repair cases where the client
  made a bad prediction") made precise.
- `NoItemIsLost` (`ItemsKept`), from `KeptInv == CopyInv /\ Accounted`. The property is
  about sums over all slots. Each branch of `MoveItem`, `ResetSource`,
  `ResetDestination` and the crafting changes one slot or two, so the proof computes
  the difference of two sums from those slots (`OneSlotChanges`,
  `TwoSlotsChange`), and the handlers are chains of such changes: every step of the
  chain is shown to be explained by what `ground` and `made` get. The counts
  need the types of the slots, which are part of `CopyInv`.
- `RollbackHolds` (`RollbackRestores`), from `RollbackInv`: undoing the log from
  the last entry on, in the slots of the chest, gives the chest of the start. A
  step puts at most two entries at the end of the log, and undoing these first
  gives back the chest that was there before the step (`Reverts`), from where
  the invariant goes on. That undoing depends on the chest alone is a lemma of
  its own, since the other slots differ.
- `LimitsHold` (`LimitsRespected`), an action property, from the types of
  `CopyInv`: what a move or a drop does to the sum over each chest comes from
  one slot of it or from two, by the least of what was asked for, answered and
  there (`MoveRespects`, `DropRespects`); infinite stacks are put back as they
  were, but for the source of a move between two infinite chests.

`PeerTableProofs` proves, for any number of addresses, ids, joins and data:

- `ListsAgree` (`ClientsFollowPeers`), `AddedWasUnknown` (`AddedIsNew`) and
  `DataFindsItsClient` (`DataIsFromItsClient`), all from `PeerInv`. The three
  properties look at the end of the event queue, at its additions and at its data;
  the invariant says of every place in the queue what the Server thread will
  know of an id when it comes there: that of the last change of this id
  before the place, or, with none, what it knows now (`KnownAt`, `Unknown`). Before a
  data event the id is known at the address of the sender, before an addition it
  is not known, and at the end of the queue exactly the peers are known. A deletion
  and a new peer with the same id only append, and handling a change takes the first
  place away (`ChangesHandled` before `ProcessData` is what the third property needs).

`ActiveObjectsProofs` proves, for any number of objects, blocks, clients and ids and
any limit of objects in a block:

- `Typed` (`TypeOK`), `EntriesAreOwned` (`ActivesMatch`), `SkippedIsSaved`
  (`UnmodifiedIsSaved`) and `KnownIdsKept` (`KnownIdsAreKept`), from `Inv ==
  TypeInv /\ WorldInv /\ KnownInv /\ HomeInv`, whose first three parts are
  enough for them. A handler is a loop over objects or blocks, and each pass
  calls functions that disturb the first two properties for a moment: an
  object's entry is in two blocks or in none, a block has changed and its flag
  is not yet raised. So the invariant has an exception, the id the function has
  in its hands (`Good(s, X)`) and the block it works on (`Synced(s, n)`), and
  each function is shown to end with no exception. That it finds the one entry
  of its id again (`Entered`) means that "hack #83274" finds nothing to do in
  the module. The loops are done with the lemmas of `Loops`.
- `KnownInv` says that `known_by_count` is the number of clients that know the id,
  and that a free id is known to none. Both ends keep this count
  (`SendObjects`, `Leave`), and removal and deactivation look at nothing else. Ids in
  `forced` are excepted, for the reason given with the module.
- `ObjectsHaveOneHome` (`OneHome`), `ObjectsLiveOnce` (`LiveOnce`) and
  `RemovedAreGone` (`RemovedStaysRemoved`), from `HomeInv`. The place of an
  object is none of the variables: it is in a list of a block in memory, in a
  list on disk, or active with an entry in a block. The invariant says that of
  these each object that is not exempt has at most one, ghosts not counted, and
  one that was born and not removed has one (`HomeOf`, `Homes`). A ghost has no
  entry anywhere and waits to be forgotten; that it has none is part of
  `WorldInv`. Each function for one object *settles* it (`Settles`): it stays
  active with its entry, it is gone, for it was removed or is lost, or it is
  appended to the list of one block; the others stay where they are, and so all
  the homes are kept (`SettlesKeeps`). Two handlers do more. `activateObjects`
  takes a whole list out of a block and gives its objects ids one by one
  (`InHand`, `Seated`). Saving turns active entries into a list on disk:
  `Serialize` writes once what the block has once (`SerializeIs`), and the lists
  of the disk have nothing twice (`DiskOnce`), which a clean block that is
  unloaded, and the next start, rely on. A crash leaves the disk alone: an
  object that the memory and the disk have in the same one block keeps it
  (`HomeIs`), the others are the exempt.

`Loops` has what these proofs need of loops. Induction over data is out of the
provers' reach, but the loops here run over finite sets of numbers, and for
these a least counterexample does: a run, a function from the subsets of the set
to the states of the loop, exists (`RunExistsBy`), and what the start has and
each pass keeps, all of the run has (`RunKeeps`, `LoopKeeps`). A fold of the
community modules is such a run.

Only model-checked, and why:

- Liveness (`DeliveredUnlessLost`, `EveryBlockPopped`, `ShutdownCompletes`,
  `BlocksConverge`, `EveryTaskIsMade`, `GoneIsForgotten`) needs fairness and
  ENABLED, which the provers do not reach.

Every safety property of the passing runs is stated by a theorem.

## 6. Plan

Next modules, most important first:

1. `SplitBuffer`, then sending over `MessageStream` with split packets.
2. `Liquid`: the queue of `transformLiquids` with its loop limit, in a row of nodes.
3. `RequestQueue`: callers, the worker and their result queues.
4. `clearAllObjects` and players in `ActiveObjects`; joining and authentication.

Next proofs: those of the modules above; for `Emerge`, what holds of the chunks
with several threads, beside the finding.

## 7. Not modelled

Rendering, sound, user interface, camera, platform code: output and input only.
Planned and not written yet: split packets, liquids, request queues (section 6).
Collision, path finding, noise and the map generators: numeric procedures on one
thread. Serialization, settings, bans, mods, chat, node definitions: sequential
text and table code. Script bindings: they call the components above. Vendored
libraries and Lua content are not this program's core.
