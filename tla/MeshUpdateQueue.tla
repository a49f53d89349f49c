-------------------------- MODULE MeshUpdateQueue --------------------------
(***************************************************************************)
(* The meshes of the client's map blocks: the main thread of client.cpp    *)
(* changes the map and adds update tasks, the MeshUpdateThread pops tasks  *)
(* and makes meshes, and the main thread puts the results into the map and *)
(* acknowledges to the server the blocks it received.                      *)
(*                                                                         *)
(* Blocks lie on a line. A mesh is made from a snapshot of its block and   *)
(* of the blocks on both sides, taken when the task is added. What a block *)
(* contains is the number of the change that gave it its content.          *)
(***************************************************************************)
EXTENDS Integers, Sequences, FiniteSets, FiniteSetsExt, SequencesExt

CONSTANTS
    NBlocks,        \* blocks 1 .. NBlocks in a row
    MaxChanges,     \* bound: blocks received and nodes changed
    MaxUnloads      \* bound: blocks unloaded

ASSUME MeshConstants ==
    NBlocks \in Nat \ {0} /\ {MaxChanges, MaxUnloads} \subseteq Nat

Blocks == 1 .. NBlocks

VARIABLES
    \* the main thread
    version,        \* content of each block of the map, 0 if it is not there
    mesh,           \* block->mesh: the snapshot it was made from
    \* m_queue_in, under its mutex
    m_queue,
    m_urgents,
    \* the MeshUpdateThread
    making,         \* the task it works on, in a sequence of length 0 or 1
    m_queue_out,
    \* history
    owed,           \* blocks received and not acknowledged since
    nchanges, nunloads

queueVars == <<m_queue, m_urgents>>
vars == <<version, mesh, queueVars, making, m_queue_out, owed, nchanges,
          nunloads>>

NoMesh == [b \in Blocks |-> 0]

Near(p) == {q \in Blocks : q - p \in -1 .. 1}

Init ==
    /\ version = [b \in Blocks |-> 0]
    /\ mesh = [b \in Blocks |-> NoMesh]
    /\ m_queue = <<>>
    /\ m_urgents = {}
    /\ making = <<>>
    /\ m_queue_out = <<>>
    /\ owed = {}
    /\ nchanges = 0
    /\ nunloads = 0

-----------------------------------------------------------------------------
(* Adding tasks. *)

\* MeshMakeData::fill.
Fill(map, p) == [q \in Blocks |-> IF q \in Near(p) THEN map[q] ELSE 0]

\* Mutant: the ACK flag is overwritten with the rest of the task.
MergeOverwrite(old, new) == new

\* Mutant: the data of the queued task is kept.
MergeKeepData(old, new) == [old EXCEPT !.ack = @ \/ new.ack]

\* A queued task gets the new data, and keeps the wish for an ACK.
Merge(old, new) == [new EXCEPT !.ack = @ \/ old.ack]

\* MeshUpdateQueue::addBlock: at most one task of a block is in the queue.
AddBlock(q, task, urgent) ==
    LET same == {i \in DOMAIN q.queue : q.queue[i].p = task.p}
    IN  [queue |-> IF same = {}
                   THEN Append(q.queue, task)
                   ELSE [i \in DOMAIN q.queue |->
                            IF i \in same
                            THEN Merge(q.queue[i], task)
                            ELSE q.queue[i]],
         urgents |-> IF urgent THEN q.urgents \cup {task.p} ELSE q.urgents]

\* addUpdateMeshTask: nothing is added for a block that is not in the map.
AddUpdateMeshTask(q, map, p, ack, urgent) ==
    IF p \in Blocks /\ map[p] # 0
    THEN AddBlock(q, [p |-> p, data |-> Fill(map, p), ack |-> ack], urgent)
    ELSE q

\* addUpdateMeshTaskWithEdge: the block, then the ones on its sides.
AddWithEdge(q, map, p, ack) ==
    LET q1 == AddUpdateMeshTask(q, map, p, ack, FALSE)
        q2 == AddUpdateMeshTask(q1, map, p + 1, FALSE, FALSE)
    IN  AddUpdateMeshTask(q2, map, p - 1, FALSE, FALSE)

Queue == [queue |-> m_queue, urgents |-> m_urgents]

SetQueue(q) == m_queue' = q.queue /\ m_urgents' = q.urgents

-----------------------------------------------------------------------------
(* The main thread. *)

NewContent(p) ==
    /\ nchanges < MaxChanges
    /\ nchanges' = nchanges + 1
    /\ version' = [version EXCEPT ![p] = nchanges + 1]

\* ProcessData on a BLOCKDATA, for a new block or one that is there.
ReceiveBlockData(p) ==
    /\ NewContent(p)
    /\ owed' = owed \cup {p}
    /\ SetQueue(AddWithEdge(Queue, version', p, TRUE))
    /\ UNCHANGED <<mesh, making, m_queue_out, nunloads>>

\* addNode: every block it modified, with its edges.
AddNode(p) ==
    /\ version[p] # 0
    /\ NewContent(p)
    /\ SetQueue(AddWithEdge(Queue, version', p, FALSE))
    /\ UNCHANGED <<mesh, making, m_queue_out, owed, nunloads>>

(***************************************************************************)
(* removeNode: first the urgent task of addUpdateMeshTaskForNode, for the  *)
(* block and, if the node is on its lower side, the block below.           *)
(***************************************************************************)
RemoveNode(p, onSide) ==
    /\ version[p] # 0
    /\ NewContent(p)
    /\ LET q1 == AddUpdateMeshTask(Queue, version', p, FALSE, TRUE)
           q2 == IF onSide
                 THEN AddUpdateMeshTask(q1, version', p - 1, FALSE, TRUE)
                 ELSE q1
       IN  SetQueue(AddWithEdge(q2, version', p, FALSE))
    /\ UNCHANGED <<mesh, making, m_queue_out, owed, nunloads>>

\* Client::step takes all the results, in order: the last one of a block stays.
ReplaceMeshes ==
    /\ m_queue_out # <<>>
    /\ m_queue_out' = <<>>
    /\ mesh' = [p \in Blocks |->
                   LET of == {i \in DOMAIN m_queue_out : m_queue_out[i].p = p}
                   IN  IF version[p] = 0 \/ of = {} THEN mesh[p]
                       ELSE m_queue_out[Max(of)].data]
    /\ owed' = owed \ {m_queue_out[i].p : i \in {j \in DOMAIN m_queue_out :
                                                      m_queue_out[j].ack}}
    /\ UNCHANGED <<version, queueVars, making, nchanges, nunloads>>

\* Client::step unloads a block, and its mesh with it.
Unload(p) ==
    /\ version[p] # 0
    /\ nunloads < MaxUnloads
    /\ nunloads' = nunloads + 1
    /\ version' = [version EXCEPT ![p] = 0]
    /\ mesh' = [mesh EXCEPT ![p] = NoMesh]
    /\ UNCHANGED <<queueVars, making, m_queue_out, owed, nchanges>>

-----------------------------------------------------------------------------
(* The MeshUpdateThread. *)

\* pop: the first task, or the first urgent one if there are any urgents.
Eligible == {i \in DOMAIN m_queue :
                 m_urgents = {} \/ m_queue[i].p \in m_urgents}

\* Mutant: the position stays in m_urgents.
PopKeepUrgent ==
    /\ making = <<>>
    /\ Eligible # {}
    /\ LET i == CHOOSE j \in Eligible : \A k \in Eligible : j <= k
       IN  /\ making' = <<m_queue[i]>>
           /\ m_queue' = RemoveAt(m_queue, i)
    /\ UNCHANGED <<version, mesh, m_urgents, m_queue_out, owed, nchanges,
                   nunloads>>

Pop ==
    /\ making = <<>>
    /\ Eligible # {}
    /\ LET i == CHOOSE j \in Eligible : \A k \in Eligible : j <= k
       IN  /\ making' = <<m_queue[i]>>
           /\ m_queue' = RemoveAt(m_queue, i)
           /\ m_urgents' = m_urgents \ {m_queue[i].p}
    /\ UNCHANGED <<version, mesh, m_queue_out, owed, nchanges, nunloads>>

MakeMesh ==
    /\ making # <<>>
    /\ m_queue_out' = m_queue_out \o making
    /\ making' = <<>>
    /\ UNCHANGED <<version, mesh, queueVars, owed, nchanges, nunloads>>

-----------------------------------------------------------------------------
Next ==
    \/ \E p \in Blocks : ReceiveBlockData(p) \/ AddNode(p) \/ Unload(p)
    \/ \E p \in Blocks, onSide \in BOOLEAN : RemoveNode(p, onSide)
    \/ ReplaceMeshes
    \/ Pop
    \/ MakeMesh

Spec == Init /\ [][Next]_vars

\* The thread keeps popping, and the main loop keeps stepping.
Fairness == WF_vars(Pop) /\ WF_vars(MakeMesh) /\ WF_vars(ReplaceMeshes)

FairSpec == Spec /\ Fairness

-----------------------------------------------------------------------------
(* Properties. *)

\* The tasks that are not done, oldest first.
Pending == m_queue_out \o making \o m_queue

(***************************************************************************)
(* Every urgent position is in the queue. While one is not, pop finds      *)
(* nothing to do however long the queue is, and no mesh is made any more.  *)
(***************************************************************************)
UrgentsAreQueued == m_urgents \subseteq {m_queue[i].p : i \in DOMAIN m_queue}

(***************************************************************************)
(* A block that was received will be acknowledged: merging a task with one *)
(* that is queued keeps the wish for an ACK, whichever of them had it, and *)
(* unloading the block does not lose it.                                   *)
(***************************************************************************)
OwedIsPending ==
    \A p \in owed :
        \E i \in DOMAIN Pending : Pending[i].p = p /\ Pending[i].ack

(***************************************************************************)
(* A block with no task under way shows what it and its neighbours in the  *)
(* map contain now: no change goes without a task, and no older mesh comes *)
(* after a newer one, through urgent tasks, merges, unloading and loading  *)
(* again.                                                                  *)
(***************************************************************************)
IdleMeshIsCurrent ==
    \A p \in Blocks :
        version[p] # 0 /\ (\A i \in DOMAIN Pending : Pending[i].p # p) =>
            \A q \in Near(p) : version[q] # 0 => mesh[p][q] = version[q]

\* Every queued task is made, urgent or not, once changes stop coming.
EveryTaskIsMade == (m_queue # <<>>) ~> (m_queue = <<>>)
=============================================================================
