----------------------- MODULE MeshUpdateQueueProofs -----------------------
(***************************************************************************)
(* Proofs about MeshUpdateQueue, for any number of blocks and changes: pop *)
(* is never stuck on an urgent position that is not queued, a block that   *)
(* was received is acknowledged in the end if the threads go on, and no    *)
(* mesh stays stale.                                                       *)
(***************************************************************************)
EXTENDS MeshUpdateQueue, SequenceTheorems, WellFoundedInduction, TLAPS

Snapshots == [Blocks -> 0 .. MaxChanges]
Task == [p : Blocks, data : Snapshots, ack : BOOLEAN]

\* What addBlock and pop look at.
Typed ==
    /\ version \in Snapshots
    /\ m_queue \in Seq(Task)
    /\ m_urgents \subseteq Blocks
    /\ making \in Seq(Task)
    /\ m_queue_out \in Seq(Task)
    /\ owed \subseteq Blocks
    /\ nchanges \in Nat

Queues == [queue : Seq(Task), urgents : SUBSET Blocks]

\* A task of p that is to be acknowledged.
Acks(q, p) == \E i \in DOMAIN q : q[i].p = p /\ q[i].ack

UrgentsIn(q) == q.urgents \subseteq {q.queue[i].p : i \in DOMAIN q.queue}

QueueInv ==
    /\ Typed
    /\ UrgentsAreQueued
    /\ \A p \in owed : \/ Acks(m_queue_out, p) \/ Acks(making, p)
                       \/ Acks(m_queue, p)

(***************************************************************************)
(* One queue keeps what another one has: the positions in it, the wishes   *)
(* for an ACK, and that urgent positions are queued.                       *)
(***************************************************************************)
Keeps(q, r) ==
    /\ r \in Queues
    /\ UrgentsIn(q) => UrgentsIn(r)
    /\ \A p : Acks(q.queue, p) => Acks(r.queue, p)

-----------------------------------------------------------------------------
(* Adding tasks. *)

LEMMA FillIsSnapshot ==
    ASSUME NEW map \in Snapshots, NEW p PROVE Fill(map, p) \in Snapshots
  BY MeshConstants DEF Fill, Snapshots

\* addBlock adds the task, or merges it without losing a wish for an ACK.
LEMMA AddBlockKeeps ==
    ASSUME NEW q \in Queues, NEW task \in Task, NEW urgent \in BOOLEAN
    PROVE  /\ Keeps(q, AddBlock(q, task, urgent))
           /\ task.ack => Acks(AddBlock(q, task, urgent).queue, task.p)
  <1> DEFINE same == {i \in DOMAIN q.queue : q.queue[i].p = task.p}
             r == AddBlock(q, task, urgent)
  <1>1. /\ q.queue \in Seq(Task) /\ q.urgents \subseteq Blocks
        /\ task.p \in Blocks /\ task.ack \in BOOLEAN
    BY DEF Queues, Task
  <1>2. r.urgents \subseteq q.urgents \cup {task.p}
    BY DEF AddBlock
  <1>3. CASE same = {}
    <2>1. r.queue = Append(q.queue, task)
      BY <1>3 DEF AddBlock
    <2>2. /\ r.queue \in Seq(Task)
          /\ \A i \in DOMAIN q.queue : i \in DOMAIN r.queue
                                       /\ r.queue[i] = q.queue[i]
          /\ Len(q.queue) + 1 \in DOMAIN r.queue
          /\ r.queue[Len(q.queue) + 1] = task
      BY <1>1, <2>1
    <2>3. r \in Queues
      BY <1>1, <1>2, <2>2 DEF AddBlock, Queues
    <2> HIDE DEF r
    <2>4. \A p : Acks(q.queue, p) => Acks(r.queue, p)
      BY <2>2 DEF Acks
    <2>5. UrgentsIn(q) => UrgentsIn(r)
      <3> SUFFICES ASSUME UrgentsIn(q), NEW p \in r.urgents
                   PROVE  p \in {r.queue[i].p : i \in DOMAIN r.queue}
        BY DEF UrgentsIn
      <3>1. CASE p = task.p
        BY <2>2, <3>1
      <3>2. CASE p \in q.urgents
        <4>1. PICK i \in DOMAIN q.queue : q.queue[i].p = p
          BY <3>2 DEF UrgentsIn
        <4> QED BY <2>2, <4>1
      <3> QED BY <1>2, <3>1, <3>2
    <2>6. task.ack => Acks(r.queue, task.p)
      BY <2>2 DEF Acks
    <2> QED BY <2>3, <2>4, <2>5, <2>6 DEF Keeps, r
  <1>4. CASE same # {}
    <2>1. r.queue = [i \in DOMAIN q.queue |->
                        IF i \in same THEN Merge(q.queue[i], task)
                                      ELSE q.queue[i]]
      BY <1>4 DEF AddBlock
    <2>2. \A i \in DOMAIN q.queue : q.queue[i] \in Task
      BY <1>1
    <2>3. \A i \in same : /\ Merge(q.queue[i], task) \in Task
                          /\ Merge(q.queue[i], task).p = task.p
                          /\ q.queue[i].ack \/ task.ack =>
                                 Merge(q.queue[i], task).ack
      BY <2>2 DEF Merge, Task
    <2> HIDE DEF r
    <2>4. /\ DOMAIN r.queue = DOMAIN q.queue
          /\ \A i \in DOMAIN q.queue :
                 /\ r.queue[i] \in Task
                 /\ r.queue[i].p = q.queue[i].p
                 /\ q.queue[i].ack => r.queue[i].ack
          /\ \A i \in same : r.queue[i].p = task.p
                             /\ (task.ack => r.queue[i].ack)
      BY <2>1, <2>2, <2>3
    <2>5. r.queue \in Seq(Task)
      <3>1. Len(q.queue) \in Nat /\ DOMAIN q.queue = 1 .. Len(q.queue)
        BY <1>1
      <3>2. r.queue \in [1 .. Len(q.queue) -> Task]
        BY <2>1, <2>4, <3>1
      <3> QED BY <3>1, <3>2, SeqDef
    <2>6. r \in Queues
      BY <1>1, <1>2, <2>5 DEF r, AddBlock, Queues
    <2> QED BY <1>2, <1>4, <2>4, <2>6 DEF Keeps, Acks, UrgentsIn, r
  <1> QED BY <1>3, <1>4

LEMMA AddTaskKeeps ==
    ASSUME NEW q \in Queues, NEW map \in Snapshots, NEW p,
           NEW ack \in BOOLEAN, NEW urgent \in BOOLEAN
    PROVE  /\ Keeps(q, AddUpdateMeshTask(q, map, p, ack, urgent))
           /\ ack /\ p \in Blocks /\ map[p] # 0 =>
                  Acks(AddUpdateMeshTask(q, map, p, ack, urgent).queue, p)
  <1> DEFINE task == [p |-> p, data |-> Fill(map, p), ack |-> ack]
  <1>1. CASE p \in Blocks /\ map[p] # 0
    <2>1. task \in Task /\ task.p = p /\ task.ack = ack
      BY <1>1, FillIsSnapshot DEF Task
    <2>2. AddUpdateMeshTask(q, map, p, ack, urgent) = AddBlock(q, task, urgent)
      BY <1>1 DEF AddUpdateMeshTask
    <2> HIDE DEF task
    <2> QED BY <2>1, <2>2, AddBlockKeeps
  <1>2. CASE ~(p \in Blocks /\ map[p] # 0)
    BY <1>2 DEF AddUpdateMeshTask, Keeps
  <1> QED BY <1>1, <1>2

LEMMA AddWithEdgeKeeps ==
    ASSUME NEW q \in Queues, NEW map \in Snapshots, NEW p \in Blocks,
           NEW ack \in BOOLEAN
    PROVE  /\ Keeps(q, AddWithEdge(q, map, p, ack))
           /\ ack /\ map[p] # 0 => Acks(AddWithEdge(q, map, p, ack).queue, p)
  <1> DEFINE q1 == AddUpdateMeshTask(q, map, p, ack, FALSE)
             q2 == AddUpdateMeshTask(q1, map, p + 1, FALSE, FALSE)
             q3 == AddUpdateMeshTask(q2, map, p - 1, FALSE, FALSE)
  <1>1. Keeps(q, q1) /\ (ack /\ map[p] # 0 => Acks(q1.queue, p))
    BY AddTaskKeeps
  <1> HIDE DEF q1
  <1>2. Keeps(q1, q2)
    BY <1>1, AddTaskKeeps DEF Keeps
  <1> HIDE DEF q2
  <1>3. Keeps(q2, q3)
    BY <1>2, AddTaskKeeps DEF Keeps
  <1>4. AddWithEdge(q, map, p, ack) = q3
    BY DEF AddWithEdge, q1, q2
  <1> HIDE DEF q3
  <1> QED BY <1>1, <1>2, <1>3, <1>4 DEF Keeps

-----------------------------------------------------------------------------
(* About numbers and sequences. *)

LEMMA SmallestOfNats ==
    ASSUME NEW S \in SUBSET Nat, S # {}
    PROVE  (CHOOSE j \in S : \A k \in S : j <= k) \in S
  <1>1. \E j \in S : \A k \in S : j <= k
    <2>1. PICK n \in S : TRUE
      OBVIOUS
    <2>2. PICK j \in S : \A k \in S : <<k, j>> \notin OpToRel(<, Nat)
      BY WFMin, NatLessThanWellFounded
    <2>3. \A k \in S : k < j => <<k, j>> \in OpToRel(<, Nat)
      BY Zenon DEF OpToRel
    <2>4. \A k \in S : ~(k < j)
      BY <2>2, <2>3
    <2> QED BY <2>4
  <1> QED BY <1>1

\* What one of two sequences has, both together have.
LEMMA ConcatAcks ==
    ASSUME NEW s \in Seq(Task), NEW t \in Seq(Task), NEW p,
           Acks(s, p) \/ Acks(t, p)
    PROVE  Acks(s \o t, p)
  <1>1. /\ DOMAIN (s \o t) = 1 .. Len(s) + Len(t)
        /\ \A i \in 1 .. Len(s) + Len(t) :
               (s \o t)[i] = IF i <= Len(s) THEN s[i] ELSE t[i - Len(s)]
    BY ConcatProperties
  <1>2. /\ Len(s) \in Nat /\ DOMAIN s = 1 .. Len(s)
        /\ Len(t) \in Nat /\ DOMAIN t = 1 .. Len(t)
    OBVIOUS
  <1>3. CASE Acks(s, p)
    <2>1. PICK i \in DOMAIN s : s[i].p = p /\ s[i].ack
      BY <1>3 DEF Acks
    <2>2. i \in DOMAIN (s \o t) /\ (s \o t)[i] = s[i]
      BY <1>1, <1>2
    <2> QED BY <2>1, <2>2 DEF Acks
  <1>4. CASE Acks(t, p)
    <2>1. PICK i \in DOMAIN t : t[i].p = p /\ t[i].ack
      BY <1>4 DEF Acks
    <2> DEFINE j == i + Len(s)
    <2>2. /\ j \in 1 .. Len(s) + Len(t) /\ ~(j <= Len(s)) /\ j - Len(s) = i
      BY <1>2
    <2> HIDE DEF j
    <2>3. j \in DOMAIN (s \o t) /\ (s \o t)[j] = t[i]
      BY <1>1, <2>2
    <2> QED BY <2>1, <2>3 DEF Acks
  <1> QED BY <1>3, <1>4

-----------------------------------------------------------------------------
(* The steps. *)

LEMMA NewContentType ==
    ASSUME Typed, NEW p \in Blocks, NewContent(p)
    PROVE  version' \in Snapshots /\ version'[p] # 0 /\ nchanges' \in Nat
  <1>1. nchanges + 1 \in 0 .. MaxChanges /\ nchanges + 1 # 0
    BY MeshConstants DEF Typed, NewContent
  <1> QED BY <1>1, MeshConstants DEF Typed, NewContent, Snapshots

LEMMA QueueType ==
    ASSUME Typed PROVE Queue \in Queues /\ Queue.queue = m_queue
                       /\ Queue.urgents = m_urgents
  BY DEF Typed, Queue, Queues

\* Tasks are added and nothing else changes but the map.
LEMMA AddingKeeps ==
    ASSUME QueueInv, NEW r, Keeps(Queue, r), SetQueue(r),
           version' \in Snapshots, nchanges' \in Nat, owed' \subseteq Blocks,
           UNCHANGED <<making, m_queue_out>>,
           \A p \in owed' \ owed : Acks(r.queue, p)
    PROVE  QueueInv'
  <1>1. m_queue' = r.queue /\ m_urgents' = r.urgents
    BY DEF SetQueue
  <1>2. /\ r \in Queues /\ UrgentsIn(r)
        /\ \A p : Acks(m_queue, p) => Acks(r.queue, p)
    BY QueueType DEF QueueInv, Keeps, UrgentsIn, UrgentsAreQueued
  <1>3. Typed'
    BY <1>1, <1>2 DEF QueueInv, Typed, Queues
  <1>4. UrgentsAreQueued'
    BY <1>1, <1>2 DEF UrgentsIn, UrgentsAreQueued
  <1>5. \A p \in owed' : \/ Acks(m_queue_out', p) \/ Acks(making', p)
                         \/ Acks(m_queue', p)
    BY <1>1, <1>2 DEF QueueInv
  <1> QED BY <1>3, <1>4, <1>5 DEF QueueInv, Acks

LEMMA ReceiveBlockDataKeeps ==
    ASSUME QueueInv, NEW p \in Blocks, ReceiveBlockData(p) PROVE QueueInv'
  <1> DEFINE r == AddWithEdge(Queue, version', p, TRUE)
  <1>1. version' \in Snapshots /\ version'[p] # 0 /\ nchanges' \in Nat
    BY NewContentType DEF QueueInv, ReceiveBlockData
  <1>2. Keeps(Queue, r) /\ Acks(r.queue, p)
    BY <1>1, QueueType, AddWithEdgeKeeps DEF QueueInv
  <1>3. /\ SetQueue(r) /\ owed' = owed \cup {p}
        /\ UNCHANGED <<making, m_queue_out>>
    BY DEF ReceiveBlockData
  <1> HIDE DEF r
  <1> QED BY <1>1, <1>2, <1>3, AddingKeeps DEF QueueInv, Typed

LEMMA AddNodeKeeps ==
    ASSUME QueueInv, NEW p \in Blocks, AddNode(p) PROVE QueueInv'
  <1> DEFINE r == AddWithEdge(Queue, version', p, FALSE)
  <1>1. version' \in Snapshots /\ nchanges' \in Nat
    BY NewContentType DEF QueueInv, AddNode
  <1>2. Keeps(Queue, r)
    BY <1>1, QueueType, AddWithEdgeKeeps DEF QueueInv
  <1>3. SetQueue(r) /\ UNCHANGED <<owed, making, m_queue_out>>
    BY DEF AddNode
  <1> HIDE DEF r
  <1> QED BY <1>1, <1>2, <1>3, AddingKeeps DEF QueueInv, Typed

LEMMA RemoveNodeKeeps ==
    ASSUME QueueInv, NEW p \in Blocks, NEW onSide \in BOOLEAN,
           RemoveNode(p, onSide)
    PROVE  QueueInv'
  <1> DEFINE q1 == AddUpdateMeshTask(Queue, version', p, FALSE, TRUE)
             below == AddUpdateMeshTask(q1, version', p - 1, FALSE, TRUE)
             q2 == IF onSide THEN below ELSE q1
             r == AddWithEdge(q2, version', p, FALSE)
  <1>1. version' \in Snapshots /\ nchanges' \in Nat
    BY NewContentType DEF QueueInv, RemoveNode
  <1>2. SetQueue(r) /\ UNCHANGED <<owed, making, m_queue_out>>
    BY DEF RemoveNode
  <1>3. Keeps(Queue, q1)
    BY <1>1, QueueType, AddTaskKeeps DEF QueueInv
  <1> HIDE DEF q1
  <1>4. Keeps(q1, below)
    BY <1>1, <1>3, AddTaskKeeps DEF Keeps
  <1> HIDE DEF below
  <1>5. Keeps(Queue, q2)
    BY <1>3, <1>4 DEF Keeps
  <1> HIDE DEF q2
  <1>6. Keeps(q2, r)
    BY <1>1, <1>5, AddWithEdgeKeeps DEF Keeps
  <1> HIDE DEF r
  <1>7. Keeps(Queue, r)
    BY <1>5, <1>6 DEF Keeps
  <1> QED BY <1>1, <1>2, <1>7, AddingKeeps DEF QueueInv, Typed

\* What has come out is acknowledged and owed no more.
LEMMA ReplaceMeshesKeeps ==
    ASSUME QueueInv, ReplaceMeshes PROVE QueueInv'
  <1>1. /\ m_queue_out' = <<>>
        /\ UNCHANGED <<version, m_queue, m_urgents, making, nchanges>>
        /\ owed' = owed \ {m_queue_out[i].p : i \in {j \in DOMAIN m_queue_out :
                                                         m_queue_out[j].ack}}
    BY DEF ReplaceMeshes, queueVars
  <1>2. Typed' /\ UrgentsAreQueued'
    BY <1>1 DEF QueueInv, Typed, UrgentsAreQueued
  <1>3. ASSUME NEW p \in owed' PROVE Acks(making', p) \/ Acks(m_queue', p)
    <2>1. p \in owed /\ ~Acks(m_queue_out, p)
      BY <1>1 DEF Acks
    <2> QED BY <1>1, <2>1 DEF QueueInv, Acks
  <1> QED BY <1>2, <1>3 DEF QueueInv, Acks

LEMMA UnloadKeeps ==
    ASSUME QueueInv, NEW p \in Blocks, Unload(p) PROVE QueueInv'
  <1>1. version' \in Snapshots
    BY MeshConstants DEF QueueInv, Typed, Unload, Snapshots
  <1>2. UNCHANGED <<m_queue, m_urgents, making, m_queue_out, owed, nchanges>>
    BY DEF Unload, queueVars
  <1> QED BY <1>1, <1>2 DEF QueueInv, Typed, UrgentsAreQueued, Acks

\* The elements after the one that is removed come one nearer.
LEMMA RemoveAtPlaces ==
    ASSUME NEW q \in Seq(Task), NEW i \in DOMAIN q
    PROVE  /\ RemoveAt(q, i) \in Seq(Task)
           /\ DOMAIN RemoveAt(q, i) = 1 .. Len(q) - 1
           /\ \A k \in 1 .. Len(q) - 1 :
                  RemoveAt(q, i)[k] = IF k < i THEN q[k] ELSE q[k + 1]
  <1> DEFINE a == SubSeq(q, 1, i - 1)
             b == SubSeq(q, i + 1, Len(q))
             n == Len(q)
  <1>1. /\ n \in Nat /\ DOMAIN q = 1 .. n /\ i \in 1 .. n
        /\ \A j \in 1 .. n : q[j] \in Task
    OBVIOUS
  <1>2. /\ a \in Seq(Task) /\ Len(a) = i - 1
        /\ \A j \in 1 .. i - 1 : a[j] = q[j]
    <2>1. \A j \in 1 .. i - 1 : q[j] \in Task
      BY <1>1
    <2> QED BY <1>1, <2>1, SubSeqProperties
  <1>3. /\ b \in Seq(Task) /\ Len(b) = n - i
        /\ \A j \in 1 .. n - i : b[j] = q[i + j]
    <2>1. \A j \in i + 1 .. n : q[j] \in Task
      BY <1>1
    <2> HIDE DEF n
    <2>2. /\ SubSeq(q, i + 1, n) \in Seq(Task)
          /\ Len(SubSeq(q, i + 1, n)) =
                 IF i + 1 <= n THEN n - (i + 1) + 1 ELSE 0
          /\ \A j \in 1 .. n - (i + 1) + 1 :
                 SubSeq(q, i + 1, n)[j] = q[i + 1 + j - 1]
      BY <1>1, <2>1, SubSeqProperties
    <2>3. b = SubSeq(q, i + 1, n)
      BY DEF n
    <2> HIDE DEF b
    <2>4. /\ (IF i + 1 <= n THEN n - (i + 1) + 1 ELSE 0) = n - i
          /\ n - (i + 1) + 1 = n - i
          /\ \A j \in 1 .. n - i : i + 1 + j - 1 = i + j
      BY <1>1
    <2> QED BY <2>2, <2>3, <2>4
  <1>4. RemoveAt(q, i) = a \o b
    BY DEF RemoveAt
  <1> HIDE DEF a, b, n
  <1> DEFINE c == a \o b
  <1>5. /\ c \in Seq(Task) /\ DOMAIN c = 1 .. n - 1
        /\ \A j \in 1 .. n - 1 : c[j] = IF j <= i - 1 THEN a[j]
                                                     ELSE b[j - (i - 1)]
    BY <1>1, <1>2, <1>3, ConcatProperties
  <1> HIDE DEF c
  <1>6. ASSUME NEW k \in 1 .. n - 1
        PROVE  c[k] = IF k < i THEN q[k] ELSE q[k + 1]
    <2>1. CASE k < i
      BY <1>1, <1>2, <1>5, <2>1
    <2>2. CASE ~(k < i)
      <3>1. /\ ~(k <= i - 1) /\ k - (i - 1) \in 1 .. n - i
            /\ i + (k - (i - 1)) = k + 1
        BY <1>1, <2>2
      <3>2. c[k] = b[k - (i - 1)]
        BY <1>5, <3>1
      <3>3. b[k - (i - 1)] = q[k + 1]
        BY <1>3, <3>1
      <3> QED BY <2>2, <3>2, <3>3
    <2> QED BY <2>1, <2>2
  <1> QED BY <1>4, <1>5, <1>6 DEF c, n

\* Without one element, the others are still there.
LEMMA RemoveAtKeeps ==
    ASSUME NEW q \in Seq(Task), NEW i \in DOMAIN q
    PROVE  /\ RemoveAt(q, i) \in Seq(Task)
           /\ \A j \in DOMAIN q \ {i} :
                  \E k \in DOMAIN RemoveAt(q, i) : RemoveAt(q, i)[k] = q[j]
  <1> DEFINE c == RemoveAt(q, i)
             n == Len(q)
  <1>1. /\ n \in Nat /\ DOMAIN q = 1 .. n /\ i \in 1 .. n
    OBVIOUS
  <1>2. /\ c \in Seq(Task) /\ DOMAIN c = 1 .. n - 1
        /\ \A k \in 1 .. n - 1 : c[k] = IF k < i THEN q[k] ELSE q[k + 1]
    BY RemoveAtPlaces
  <1> HIDE DEF c, n
  <1>3. ASSUME NEW j \in DOMAIN q \ {i} PROVE \E k \in DOMAIN c : c[k] = q[j]
    <2>1. CASE j < i
      BY <1>1, <1>2, <2>1
    <2>2. CASE j > i
      <3>1. j - 1 \in 1 .. n - 1 /\ ~(j - 1 < i) /\ (j - 1) + 1 = j
        BY <1>1, <2>2
      <3> QED BY <1>2, <3>1
    <2> QED BY <1>1, <2>1, <2>2
  <1> QED BY <1>2, <1>3 DEF c

\* The popped task goes to making; if its position was urgent it is no more.
LEMMA PopKeeps ==
    ASSUME QueueInv, Pop PROVE QueueInv'
  <1>1. PICK i \in DOMAIN m_queue :
            /\ making' = <<m_queue[i]>>
            /\ m_queue' = RemoveAt(m_queue, i)
            /\ m_urgents' = m_urgents \ {m_queue[i].p}
    <2> DEFINE i == CHOOSE j \in Eligible : \A k \in Eligible : j <= k
    <2>1. i \in Eligible
      <3>1. Eligible \in SUBSET Nat /\ Eligible # {}
        BY DEF Eligible, QueueInv, Typed, Pop
      <3> QED BY <3>1, SmallestOfNats
    <2> QED BY <2>1 DEF Eligible, Pop
  <1>2. making = <<>> /\ UNCHANGED <<version, m_queue_out, owed, nchanges>>
    BY DEF Pop
  <1>3. /\ m_queue \in Seq(Task) /\ m_queue[i] \in Task
        /\ m_queue' \in Seq(Task)
        /\ \A j \in DOMAIN m_queue \ {i} :
               \E k \in DOMAIN m_queue' : m_queue'[k] = m_queue[j]
    BY <1>1, RemoveAtKeeps DEF QueueInv, Typed
  <1>4. Typed'
    BY <1>1, <1>2, <1>3 DEF QueueInv, Typed
  <1>5. UrgentsAreQueued'
    BY <1>1, <1>3 DEF QueueInv, UrgentsAreQueued
  <1>6. ASSUME NEW p \in owed'
        PROVE  Acks(m_queue_out', p) \/ Acks(making', p) \/ Acks(m_queue', p)
    <2>1. CASE Acks(m_queue_out, p)
      BY <1>2, <2>1
    <2>2. CASE Acks(m_queue, p)
      <3>1. PICK j \in DOMAIN m_queue : m_queue[j].p = p /\ m_queue[j].ack
        BY <2>2 DEF Acks
      <3>2. CASE j = i
        BY <1>1, <3>1, <3>2 DEF Acks
      <3>3. CASE j # i
        BY <1>3, <3>1, <3>3 DEF Acks
      <3> QED BY <3>2, <3>3
    <2>3. ~Acks(making, p)
      BY <1>2 DEF Acks
    <2> QED BY <1>2, <2>1, <2>2, <2>3 DEF QueueInv
  <1> QED BY <1>4, <1>5, <1>6 DEF QueueInv

LEMMA MakeMeshKeeps ==
    ASSUME QueueInv, MakeMesh PROVE QueueInv'
  <1>1. /\ m_queue_out' = m_queue_out \o making /\ making' = <<>>
        /\ UNCHANGED <<version, m_queue, m_urgents, owed, nchanges>>
    BY DEF MakeMesh, queueVars
  <1>2. m_queue_out \in Seq(Task) /\ making \in Seq(Task)
    BY DEF QueueInv, Typed
  <1>3. \A p : Acks(m_queue_out, p) \/ Acks(making, p) =>
            Acks(m_queue_out \o making, p)
    BY <1>2, ConcatAcks
  <1>4. Typed' /\ UrgentsAreQueued'
    BY <1>1, <1>2 DEF QueueInv, Typed, UrgentsAreQueued
  <1> QED BY <1>1, <1>3, <1>4 DEF QueueInv, Acks

-----------------------------------------------------------------------------
(* The theorems. *)

LEMMA QueueInvInit == Init => QueueInv
  <1> SUFFICES ASSUME Init PROVE QueueInv
    OBVIOUS
  <1>1. version \in Snapshots
    BY MeshConstants DEF Init, Snapshots
  <1> QED BY <1>1 DEF Init, QueueInv, Typed, UrgentsAreQueued

LEMMA QueueInvNext == QueueInv /\ [Next]_vars => QueueInv'
  <1> SUFFICES ASSUME QueueInv, [Next]_vars PROVE QueueInv'
    OBVIOUS
  <1>1. CASE \E p \in Blocks : ReceiveBlockData(p) \/ AddNode(p) \/ Unload(p)
    BY <1>1, ReceiveBlockDataKeeps, AddNodeKeeps, UnloadKeeps
  <1>2. CASE \E p \in Blocks, onSide \in BOOLEAN : RemoveNode(p, onSide)
    BY <1>2, RemoveNodeKeeps
  <1>3. CASE ReplaceMeshes
    BY <1>3, ReplaceMeshesKeeps
  <1>4. CASE Pop
    BY <1>4, PopKeeps
  <1>5. CASE MakeMesh
    BY <1>5, MakeMeshKeeps
  <1>6. CASE UNCHANGED vars
    BY <1>6 DEF QueueInv, Typed, UrgentsAreQueued, Acks, vars, queueVars
  <1> QED BY <1>1, <1>2, <1>3, <1>4, <1>5, <1>6 DEF Next

\* The queue part of the state is always what QueueInv says.
LEMMA QueueInvHolds == Spec => []QueueInv
  BY QueueInvInit, QueueInvNext, PTL DEF Spec

(***************************************************************************)
(* pop is never stuck: whatever the main thread adds and the mesh thread   *)
(* takes, an urgent position always has its task in the queue.             *)
(***************************************************************************)
THEOREM PopFindsUrgents == Spec => []UrgentsAreQueued
  <1>1. QueueInv => UrgentsAreQueued
    BY DEF QueueInv
  <1> QED BY <1>1, QueueInvHolds, PTL

(***************************************************************************)
(* The client never forgets to acknowledge: from its BLOCKDATA on, a block *)
(* has a task with a wish for an ACK in one of the queues, or in the hands *)
(* of the mesh thread, until the server is told.                           *)
(***************************************************************************)
THEOREM ReceivedIsAcknowledged == Spec => []OwedIsPending
  <1>1. ASSUME QueueInv PROVE OwedIsPending
    <2> SUFFICES ASSUME NEW p \in owed PROVE Acks(Pending, p)
      BY DEF OwedIsPending, Acks
    <2>1. /\ m_queue_out \in Seq(Task) /\ making \in Seq(Task)
          /\ m_queue \in Seq(Task)
      BY <1>1 DEF QueueInv, Typed
    <2>2. m_queue_out \o making \in Seq(Task)
      BY <2>1
    <2>3. \/ Acks(m_queue_out \o making, p)
          \/ Acks(m_queue, p)
      BY <1>1, <2>1, ConcatAcks DEF QueueInv
    <2>4. Acks((m_queue_out \o making) \o m_queue, p)
      BY <2>1, <2>2, <2>3, ConcatAcks
    <2> QED BY <2>4 DEF Pending
  <1> QED BY <1>1, QueueInvHolds, PTL

-----------------------------------------------------------------------------
(* What is shown at last: the invariant. *)

\* data has what p and its neighbours contain in the map.
Current(data, map, p) == \A q \in Near(p) : map[q] # 0 => data[q] = map[q]

\* A task of p has data.
Has(s, p, data) == \E i \in DOMAIN s : s[i].p = p /\ s[i].data = data

NoneOf(s, p) == \A data : ~Has(s, p, data)

OneEach(s) == \A i, j \in DOMAIN s : s[i].p = s[j].p => i = j

LastOf(s, p, i) ==
    /\ i \in DOMAIN s /\ s[i].p = p
    /\ \A j \in DOMAIN s : s[j].p = p => j <= i

(***************************************************************************)
(* The last task of p is current, wherever it is, and the mesh is if there *)
(* is none.                                                                *)
(***************************************************************************)
LastIsCurrent(queue, task, out, shown, map, p) ==
    /\ \A data : Has(queue, p, data) => Current(data, map, p)
    /\ NoneOf(queue, p) =>
           \A data : Has(task, p, data) => Current(data, map, p)
    /\ NoneOf(queue, p) /\ NoneOf(task, p) =>
           \A i \in DOMAIN out : LastOf(out, p, i) =>
                                     Current(out[i].data, map, p)
    /\ NoneOf(queue, p) /\ NoneOf(task, p) /\ NoneOf(out, p) =>
           Current(shown, map, p)

MeshInv ==
    /\ mesh \in [Blocks -> Snapshots]
    /\ making = <<>> \/ \E task \in Task : making = <<task>>
    /\ OneEach(m_queue)
    /\ \A p \in Blocks :
           version[p] # 0 => LastIsCurrent(m_queue, making, m_queue_out,
                                           mesh[p], version, p)

-----------------------------------------------------------------------------
(* What adding tasks does to what the queue has. *)

LEMMA AddBlockHas ==
    ASSUME NEW q \in Queues, NEW task \in Task, NEW urgent, OneEach(q.queue)
    PROVE  LET r == AddBlock(q, task, urgent).queue
           IN  /\ OneEach(r)
               /\ \A b, data : Has(r, b, data) <=> IF b = task.p
                                                   THEN data = task.data
                                                   ELSE Has(q.queue, b, data)
  <1> DEFINE s == q.queue
             same == {i \in DOMAIN s : s[i].p = task.p}
             r == AddBlock(q, task, urgent).queue
  <1>1. s \in Seq(Task)
    BY DEF Queues
  <1>2. CASE same = {}
    <2>1. r = Append(s, task)
      BY <1>2 DEF AddBlock
    <2>2. /\ Len(s) \in Nat /\ DOMAIN s = 1 .. Len(s)
          /\ DOMAIN r = 1 .. Len(s) + 1
          /\ \A i \in DOMAIN s : r[i] = s[i]
          /\ r[Len(s) + 1] = task
      BY <1>1, <2>1
    <2>3. \A i \in DOMAIN s : s[i].p # task.p
      BY <1>2
    <2> HIDE DEF r, s, same
    <2>4. \A i \in DOMAIN r : i \in DOMAIN s \/ i = Len(s) + 1
      BY <2>2
    <2>5. /\ \A i \in DOMAIN s : i \in DOMAIN r
          /\ Len(s) + 1 \in DOMAIN r
      BY <2>2
    <2>6. OneEach(r)
      BY <2>2, <2>3, <2>4, <2>5 DEF OneEach, s
    <2>7. \A b, data : Has(r, b, data) <=> IF b = task.p THEN data = task.data
                                           ELSE Has(s, b, data)
      BY <2>2, <2>3, <2>4, <2>5 DEF Has
    <2> QED BY <2>6, <2>7 DEF r, s
  <1>3. CASE same # {}
    <2>1. r = [i \in DOMAIN s |-> IF i \in same THEN Merge(s[i], task)
                                                ELSE s[i]]
      BY <1>3 DEF AddBlock
    <2>2. \A i \in DOMAIN s : s[i] \in Task
      BY <1>1
    <2>3. \A i \in same : /\ Merge(s[i], task).p = task.p
                          /\ Merge(s[i], task).data = task.data
      BY <2>2 DEF Merge, Task
    <2> HIDE DEF r, s
    <2>4. /\ DOMAIN r = DOMAIN s
          /\ \A i \in DOMAIN s : IF i \in same
                                 THEN r[i].p = s[i].p /\ r[i].data = task.data
                                 ELSE r[i] = s[i]
      BY <2>1, <2>3
    <2>5. OneEach(r)
      BY <2>4 DEF OneEach, s
    <2>6. \A b, data : Has(r, b, data) <=> IF b = task.p THEN data = task.data
                                           ELSE Has(s, b, data)
      BY <1>3, <2>4 DEF Has
    <2> QED BY <2>5, <2>6 DEF r, s
  <1> QED BY <1>2, <1>3

LEMMA AddTaskHas ==
    ASSUME NEW q \in Queues, NEW map \in Snapshots, NEW p,
           NEW ack \in BOOLEAN, NEW urgent, OneEach(q.queue)
    PROVE  LET r == AddUpdateMeshTask(q, map, p, ack, urgent).queue
           IN  /\ OneEach(r)
               /\ \A b, data :
                      Has(r, b, data) <=> IF b = p /\ p \in Blocks /\ map[p] # 0
                                          THEN data = Fill(map, p)
                                          ELSE Has(q.queue, b, data)
  <1> DEFINE task == [p |-> p, data |-> Fill(map, p), ack |-> ack]
  <1>1. CASE p \in Blocks /\ map[p] # 0
    <2>1. task \in Task /\ task.p = p /\ task.data = Fill(map, p)
      BY <1>1, FillIsSnapshot DEF Task
    <2>2. AddUpdateMeshTask(q, map, p, ack, urgent) = AddBlock(q, task, urgent)
      BY <1>1 DEF AddUpdateMeshTask
    <2> HIDE DEF task
    <2>3. LET r == AddBlock(q, task, urgent).queue
          IN  /\ OneEach(r)
              /\ \A b, data : Has(r, b, data) <=> IF b = task.p
                                                  THEN data = task.data
                                                  ELSE Has(q.queue, b, data)
      BY <2>1, AddBlockHas
    <2> QED BY <1>1, <2>1, <2>2, <2>3
  <1>2. CASE ~(p \in Blocks /\ map[p] # 0)
    <2>1. AddUpdateMeshTask(q, map, p, ack, urgent) = q
      BY <1>2 DEF AddUpdateMeshTask
    <2> QED BY <1>2, <2>1
  <1> QED BY <1>1, <1>2

\* With the edge, all that a change of p is seen in.
LEMMA AddWithEdgeHas ==
    ASSUME NEW q \in Queues, NEW map \in Snapshots, NEW p \in Blocks,
           NEW ack \in BOOLEAN, OneEach(q.queue)
    PROVE  LET r == AddWithEdge(q, map, p, ack).queue
           IN  /\ OneEach(r)
               /\ \A b, data :
                      Has(r, b, data) <=> IF b \in Near(p) /\ map[b] # 0
                                          THEN data = Fill(map, b)
                                          ELSE Has(q.queue, b, data)
  <1> DEFINE q1 == AddUpdateMeshTask(q, map, p, ack, FALSE)
             q2 == AddUpdateMeshTask(q1, map, p + 1, FALSE, FALSE)
             q3 == AddUpdateMeshTask(q2, map, p - 1, FALSE, FALSE)
  <1>1. /\ q1 \in Queues /\ OneEach(q1.queue)
        /\ \A b, data :
               Has(q1.queue, b, data) <=> IF b = p /\ p \in Blocks /\ map[p] # 0
                                          THEN data = Fill(map, p)
                                          ELSE Has(q.queue, b, data)
    BY AddTaskKeeps, AddTaskHas DEF Keeps
  <1> HIDE DEF q1
  <1>2. /\ q2 \in Queues /\ OneEach(q2.queue)
        /\ \A b, data :
               Has(q2.queue, b, data) <=>
                   IF b = p + 1 /\ p + 1 \in Blocks /\ map[p + 1] # 0
                   THEN data = Fill(map, p + 1)
                   ELSE Has(q1.queue, b, data)
    BY <1>1, AddTaskKeeps, AddTaskHas DEF Keeps
  <1> HIDE DEF q2
  <1>3. /\ OneEach(q3.queue)
        /\ \A b, data :
               Has(q3.queue, b, data) <=>
                   IF b = p - 1 /\ p - 1 \in Blocks /\ map[p - 1] # 0
                   THEN data = Fill(map, p - 1)
                   ELSE Has(q2.queue, b, data)
    BY <1>2, AddTaskHas
  <1>4. AddWithEdge(q, map, p, ack) = q3
    BY DEF AddWithEdge, q1, q2
  <1>5. \A b : b \in Near(p) <=> b \in Blocks /\ b \in {p, p + 1, p - 1}
    BY MeshConstants DEF Near, Blocks
  <1> HIDE DEF q3
  <1>6. \A b, data : Has(q3.queue, b, data) <=>
                         IF b \in Near(p) /\ map[b] # 0
                         THEN data = Fill(map, b)
                         ELSE Has(q.queue, b, data)
    BY <1>1, <1>2, <1>3, <1>5
  <1> QED BY <1>3, <1>4, <1>6

-----------------------------------------------------------------------------
(* What the steps do to what is shown at last. *)

\* p changes, and the tasks of all that shows it are added.
LEMMA AddingIsCurrent ==
    ASSUME QueueInv, MeshInv, NEW p \in Blocks, NewContent(p),
           OneEach(m_queue'),
           \A b, data : Has(m_queue', b, data) <=>
                            IF b \in Near(p) /\ version'[b] # 0
                            THEN data = Fill(version', b)
                            ELSE Has(m_queue, b, data),
           UNCHANGED <<mesh, making, m_queue_out>>
    PROVE  MeshInv'
  <1> SUFFICES ASSUME NEW b \in Blocks, version'[b] # 0
               PROVE  LastIsCurrent(m_queue', making', m_queue_out',
                                    mesh'[b], version', b)
    BY DEF MeshInv, OneEach
  <1>1. \A q \in Blocks \ {p} : version'[q] = version[q]
    BY DEF NewContent, QueueInv, Typed, Snapshots
  <1>2. CASE b \in Near(p)
    <2>1. \A data : Has(m_queue', b, data) <=> data = Fill(version', b)
      BY <1>2
    <2>2. Current(Fill(version', b), version', b)
      BY DEF Current, Fill, Near
    <2>3. ~NoneOf(m_queue', b)
      BY <2>1 DEF NoneOf
    <2> QED BY <2>1, <2>2, <2>3 DEF LastIsCurrent
  <1>3. CASE b \notin Near(p)
    <2>1. p \notin Near(b) /\ Near(b) \subseteq Blocks
      BY <1>3, MeshConstants DEF Near, Blocks
    <2>2. \A data : Current(data, version, b) => Current(data, version', b)
      BY <1>1, <2>1 DEF Current
    <2>3. version[b] # 0
      <3>1. b # p
        BY <1>3, MeshConstants DEF Near, Blocks
      <3> QED BY <1>1, <3>1
    <2>4. LastIsCurrent(m_queue, making, m_queue_out, mesh[b], version, b)
      BY <2>3 DEF MeshInv
    <2>5. \A data : Has(m_queue', b, data) <=> Has(m_queue, b, data)
      BY <1>3
    <2>6. NoneOf(m_queue', b) <=> NoneOf(m_queue, b)
      BY <2>5 DEF NoneOf
    <2> QED BY <2>2, <2>4, <2>5, <2>6 DEF LastIsCurrent
  <1> QED BY <1>2, <1>3

LEMMA ReceiveBlockDataIsCurrent ==
    ASSUME QueueInv, MeshInv, NEW p \in Blocks, ReceiveBlockData(p)
    PROVE  MeshInv'
  <1> DEFINE r == AddWithEdge(Queue, version', p, TRUE)
  <1>1. /\ version' \in Snapshots /\ NewContent(p) /\ m_queue' = r.queue
        /\ UNCHANGED <<mesh, making, m_queue_out>>
    BY NewContentType DEF QueueInv, ReceiveBlockData, SetQueue
  <1>2. /\ OneEach(r.queue)
        /\ \A b, data : Has(r.queue, b, data) <=>
                            IF b \in Near(p) /\ version'[b] # 0
                            THEN data = Fill(version', b)
                            ELSE Has(m_queue, b, data)
    <2>1. /\ Queue \in Queues /\ Queue.queue = m_queue /\ OneEach(m_queue)
      BY QueueType DEF QueueInv, MeshInv
    <2>2. /\ OneEach(r.queue)
          /\ \A b, data : Has(r.queue, b, data) <=>
                              IF b \in Near(p) /\ version'[b] # 0
                              THEN data = Fill(version', b)
                              ELSE Has(Queue.queue, b, data)
      BY <1>1, <2>1, AddWithEdgeHas
    <2> QED BY <2>1, <2>2
  <1> HIDE DEF r
  <1> QED BY <1>1, <1>2, AddingIsCurrent

LEMMA AddNodeIsCurrent ==
    ASSUME QueueInv, MeshInv, NEW p \in Blocks, AddNode(p)
    PROVE  MeshInv'
  <1> DEFINE r == AddWithEdge(Queue, version', p, FALSE)
  <1>1. /\ version' \in Snapshots /\ NewContent(p) /\ m_queue' = r.queue
        /\ UNCHANGED <<mesh, making, m_queue_out>>
    BY NewContentType DEF QueueInv, AddNode, SetQueue
  <1>2. /\ OneEach(r.queue)
        /\ \A b, data : Has(r.queue, b, data) <=>
                            IF b \in Near(p) /\ version'[b] # 0
                            THEN data = Fill(version', b)
                            ELSE Has(m_queue, b, data)
    <2>1. /\ Queue \in Queues /\ Queue.queue = m_queue /\ OneEach(m_queue)
      BY QueueType DEF QueueInv, MeshInv
    <2>2. /\ OneEach(r.queue)
          /\ \A b, data : Has(r.queue, b, data) <=>
                              IF b \in Near(p) /\ version'[b] # 0
                              THEN data = Fill(version', b)
                              ELSE Has(Queue.queue, b, data)
      BY <1>1, <2>1, AddWithEdgeHas
    <2> QED BY <2>1, <2>2
  <1> HIDE DEF r
  <1> QED BY <1>1, <1>2, AddingIsCurrent

\* The urgent tasks are of blocks that are added with the edge as well.
LEMMA RemoveNodeIsCurrent ==
    ASSUME QueueInv, MeshInv, NEW p \in Blocks, NEW onSide \in BOOLEAN,
           RemoveNode(p, onSide)
    PROVE  MeshInv'
  <1> DEFINE q1 == AddUpdateMeshTask(Queue, version', p, FALSE, TRUE)
             below == AddUpdateMeshTask(q1, version', p - 1, FALSE, TRUE)
             q2 == IF onSide THEN below ELSE q1
             r == AddWithEdge(q2, version', p, FALSE)
  <1>1. /\ version' \in Snapshots /\ NewContent(p) /\ m_queue' = r.queue
        /\ UNCHANGED <<mesh, making, m_queue_out>>
    BY NewContentType DEF QueueInv, RemoveNode, SetQueue
  <1>2. /\ Queue \in Queues /\ Queue.queue = m_queue /\ OneEach(m_queue)
    BY QueueType DEF QueueInv, MeshInv
  <1>3. /\ q1 \in Queues /\ OneEach(q1.queue)
        /\ \A b, data : Has(q1.queue, b, data) <=>
                            IF b = p /\ p \in Blocks /\ version'[p] # 0
                            THEN data = Fill(version', p)
                            ELSE Has(m_queue, b, data)
    BY <1>1, <1>2, AddTaskKeeps, AddTaskHas DEF Keeps
  <1> HIDE DEF q1
  <1>4. /\ below \in Queues /\ OneEach(below.queue)
        /\ \A b, data :
               Has(below.queue, b, data) <=>
                   IF b = p - 1 /\ p - 1 \in Blocks /\ version'[p - 1] # 0
                   THEN data = Fill(version', p - 1)
                   ELSE Has(q1.queue, b, data)
    BY <1>1, <1>3, AddTaskKeeps, AddTaskHas DEF Keeps
  <1> HIDE DEF below
  <1>5. \A b : b \in Blocks /\ b \in {p, p - 1} => b \in Near(p)
    BY MeshConstants DEF Near, Blocks
  <1>6. /\ q2 \in Queues /\ OneEach(q2.queue)
        /\ \A b, data :
               b \notin Near(p) \/ version'[b] = 0 =>
                   (Has(q2.queue, b, data) <=> Has(m_queue, b, data))
    BY <1>3, <1>4, <1>5
  <1> HIDE DEF q2
  <1>7. /\ OneEach(r.queue)
        /\ \A b, data : Has(r.queue, b, data) <=>
                            IF b \in Near(p) /\ version'[b] # 0
                            THEN data = Fill(version', b)
                            ELSE Has(q2.queue, b, data)
    BY <1>1, <1>6, AddWithEdgeHas
  <1> HIDE DEF r
  <1>8. \A b, data : Has(r.queue, b, data) <=>
                         IF b \in Near(p) /\ version'[b] # 0
                         THEN data = Fill(version', b)
                         ELSE Has(m_queue, b, data)
    BY <1>6, <1>7
  <1> QED BY <1>1, <1>7, <1>8, AddingIsCurrent

LEMMA UnloadIsCurrent ==
    ASSUME QueueInv, MeshInv, NEW p \in Blocks, Unload(p)
    PROVE  MeshInv'
  <1>1. /\ version' = [version EXCEPT ![p] = 0]
        /\ mesh' = [mesh EXCEPT ![p] = NoMesh]
        /\ UNCHANGED <<m_queue, making, m_queue_out>>
    BY DEF Unload, queueVars
  <1>2. /\ \A q \in Blocks : version'[q] = IF q = p THEN 0 ELSE version[q]
        /\ \A q \in Blocks : q # p => mesh'[q] = mesh[q]
        /\ mesh' \in [Blocks -> Snapshots]
    BY <1>1, MeshConstants DEF QueueInv, Typed, MeshInv, Snapshots, NoMesh
  <1> SUFFICES ASSUME NEW b \in Blocks, version'[b] # 0
               PROVE  LastIsCurrent(m_queue', making', m_queue_out',
                                    mesh'[b], version', b)
    BY <1>1, <1>2 DEF MeshInv, OneEach
  <1>3. /\ b # p /\ mesh'[b] = mesh[b]
        /\ LastIsCurrent(m_queue, making, m_queue_out, mesh[b], version, b)
    BY <1>2 DEF MeshInv
  <1>4. \A data : Current(data, version, b) => Current(data, version', b)
    BY <1>2 DEF Current, Near
  <1> QED BY <1>1, <1>3, <1>4 DEF LastIsCurrent

\* The least upper bound of the places.
LEMMA LastPlace ==
    ASSUME NEW s \in Seq(Task), NEW p, ~NoneOf(s, p)
    PROVE  LET of == {i \in DOMAIN s : s[i].p = p}
           IN  of # {} /\ LastOf(s, p, Max(of))
  <1> DEFINE of == {i \in DOMAIN s : s[i].p = p}
  <1>1. of # {}
    BY DEF NoneOf, Has
  <1>2. /\ Len(s) \in Nat /\ \A i \in of : i \in 1 .. Len(s)
    OBVIOUS
  <1> DEFINE D == {d \in Nat : Len(s) - d \in of}
  <1>3. D \in SUBSET Nat /\ D # {}
    <2>1. PICK i \in of : TRUE
      BY <1>1
    <2>2. Len(s) - i \in Nat /\ Len(s) - (Len(s) - i) = i
      BY <1>2, <2>1
    <2> QED BY <2>2
  <1>4. PICK d \in D : \A e \in D : d <= e
    <2>1. PICK d \in D : \A e \in D : <<e, d>> \notin OpToRel(<, Nat)
      BY <1>3, WFMin, NatLessThanWellFounded
    <2>2. \A e \in D : e < d => <<e, d>> \in OpToRel(<, Nat)
      BY <1>3, Zenon DEF OpToRel
    <2>3. \A e \in D : ~(e < d)
      BY <2>1, <2>2
    <2> QED BY <1>3, <2>3
  <1>5. Len(s) - d \in of
    BY <1>4
  <1>6. \A i \in of : Len(s) - d >= i
    <2> SUFFICES ASSUME NEW i \in of PROVE Len(s) - d >= i
      OBVIOUS
    <2>1. Len(s) - i \in Nat /\ Len(s) - (Len(s) - i) = i
      BY <1>2
    <2>2. d <= Len(s) - i /\ d \in Nat
      BY <1>3, <1>4, <2>1
    <2> QED BY <1>2, <2>1, <2>2
  <1> HIDE DEF of, D
  <1>7. Max(of) \in of /\ \A i \in of : Max(of) >= i
    BY <1>5, <1>6 DEF Max
  <1>8. LastOf(s, p, Max(of))
    <2> DEFINE m == Max(of)
    <2>1. m \in of /\ \A i \in of : m >= i
      BY <1>7
    <2> HIDE DEF m
    <2>2. LastOf(s, p, m)
      BY <1>2, <2>1 DEF LastOf, of
    <2> QED BY <2>2 DEF m
  <1> QED BY <1>1, <1>8 DEF of

LEMMA ReplaceMeshesIsCurrent ==
    ASSUME QueueInv, MeshInv, ReplaceMeshes
    PROVE  MeshInv'
  <1> DEFINE of(p) == {i \in DOMAIN m_queue_out : m_queue_out[i].p = p}
             out == m_queue_out
  <1>1. /\ m_queue_out' = <<>>
        /\ mesh' = [p \in Blocks |->
                       IF version[p] = 0 \/ of(p) = {} THEN mesh[p]
                       ELSE out[Max(of(p))].data]
        /\ UNCHANGED <<version, m_queue, making>>
        /\ out \in Seq(Task)
    BY DEF ReplaceMeshes, queueVars, QueueInv, Typed
  <1>2. \A p \in Blocks : of(p) = {} <=> NoneOf(out, p)
    BY DEF NoneOf, Has
  <1>3. \A p \in Blocks : of(p) # {} => LastOf(out, p, Max(of(p)))
    BY <1>1, <1>2, LastPlace
  <1> HIDE DEF of, out
  <1>4. mesh' \in [Blocks -> Snapshots]
    <2>1. \A p \in Blocks : of(p) # {} => out[Max(of(p))].data \in Snapshots
      <3> SUFFICES ASSUME NEW p \in Blocks, of(p) # {}
                   PROVE  out[Max(of(p))].data \in Snapshots
        OBVIOUS
      <3>1. Max(of(p)) \in DOMAIN out
        BY <1>3 DEF LastOf
      <3>2. out[Max(of(p))] \in Task
        BY <1>1, <3>1
      <3> QED BY <3>2 DEF Task
    <2>2. \A p \in Blocks : mesh[p] \in Snapshots
      BY DEF MeshInv
    <2> QED BY <1>1, <2>1, <2>2
  <1> SUFFICES ASSUME NEW p \in Blocks, version[p] # 0
               PROVE  LastIsCurrent(m_queue', making', m_queue_out',
                                    mesh'[p], version', p)
    BY <1>1, <1>4 DEF MeshInv, OneEach
  <1>5. LastIsCurrent(m_queue, making, m_queue_out, mesh[p], version, p)
    BY DEF MeshInv
  <1>6. ASSUME NoneOf(m_queue, p), NoneOf(making, p)
        PROVE  Current(mesh'[p], version, p)
    <2>1. CASE NoneOf(out, p)
      <3>1. mesh'[p] = mesh[p]
        BY <1>1, <1>2, <2>1
      <3> QED BY <1>5, <1>6, <2>1, <3>1 DEF LastIsCurrent, out
    <2>2. CASE ~NoneOf(out, p)
      <3>1. /\ LastOf(out, p, Max(of(p)))
            /\ mesh'[p] = out[Max(of(p))].data
        BY <1>1, <1>2, <1>3, <2>2
      <3>2. Max(of(p)) \in DOMAIN out
        BY <3>1 DEF LastOf
      <3> DEFINE m == Max(of(p))
      <3>3. m \in DOMAIN out /\ LastOf(out, p, m) /\ mesh'[p] = out[m].data
        BY <3>1, <3>2
      <3> HIDE DEF m
      <3> QED BY <1>5, <1>6, <3>3 DEF LastIsCurrent, out
    <2> QED BY <2>1, <2>2
  <1> QED BY <1>1, <1>5, <1>6 DEF LastIsCurrent

\* The only task of its block in the queue becomes the one that is made.
LEMMA PopIsCurrent ==
    ASSUME QueueInv, MeshInv, Pop
    PROVE  MeshInv'
  <1>1. PICK i \in DOMAIN m_queue : /\ making' = <<m_queue[i]>>
                                    /\ m_queue' = RemoveAt(m_queue, i)
    <2> DEFINE i == CHOOSE j \in Eligible : \A k \in Eligible : j <= k
    <2>1. i \in Eligible
      <3>1. Eligible \in SUBSET Nat /\ Eligible # {}
        BY DEF Eligible, QueueInv, Typed, Pop
      <3> QED BY <3>1, SmallestOfNats
    <2> QED BY <2>1 DEF Eligible, Pop
  <1>2. making = <<>> /\ UNCHANGED <<version, mesh, m_queue_out>>
    BY DEF Pop
  <1> DEFINE n == Len(m_queue)
             t == m_queue[i]
  <1>3. /\ n \in Nat /\ DOMAIN m_queue = 1 .. n /\ i \in 1 .. n
        /\ t \in Task
        /\ DOMAIN m_queue' = 1 .. n - 1
        /\ \A k \in 1 .. n - 1 : m_queue'[k] = IF k < i THEN m_queue[k]
                                               ELSE m_queue[k + 1]
    BY <1>1, RemoveAtPlaces DEF QueueInv, Typed
  <1>4. OneEach(m_queue) /\ making' = <<t>> /\ t = m_queue[i]
    BY <1>1 DEF MeshInv
  <1>10. /\ \A data : Has(making', t.p, data) <=> data = t.data
         /\ \A b : b # t.p => NoneOf(making', b)
         /\ \A b : NoneOf(making, b)
    BY <1>2, <1>4 DEF Has, NoneOf
  <1> HIDE DEF n, t
  <1>5. \A k \in DOMAIN m_queue' :
            \E j \in DOMAIN m_queue \ {i} :
                m_queue'[k] = m_queue[j] /\ j = IF k < i THEN k ELSE k + 1
    BY <1>3
  <1>6. \A j \in DOMAIN m_queue \ {i} :
            \E k \in DOMAIN m_queue' : m_queue'[k] = m_queue[j]
    <2> SUFFICES ASSUME NEW j \in DOMAIN m_queue \ {i}
                 PROVE  \E k \in DOMAIN m_queue' : m_queue'[k] = m_queue[j]
      OBVIOUS
    <2>1. CASE j < i
      BY <1>3, <2>1
    <2>2. CASE j > i
      <3>1. j - 1 \in 1 .. n - 1 /\ ~(j - 1 < i) /\ (j - 1) + 1 = j
        BY <1>3, <2>2
      <3> QED BY <1>3, <3>1
    <2> QED BY <1>3, <2>1, <2>2
  <1>7. OneEach(m_queue')
    <2> SUFFICES ASSUME NEW k \in DOMAIN m_queue', NEW l \in DOMAIN m_queue',
                        m_queue'[k].p = m_queue'[l].p
                 PROVE  k = l
      BY DEF OneEach
    <2>1. PICK j \in DOMAIN m_queue : /\ m_queue'[k] = m_queue[j]
                                      /\ j = IF k < i THEN k ELSE k + 1
      BY <1>5
    <2>2. PICK h \in DOMAIN m_queue : /\ m_queue'[l] = m_queue[h]
                                      /\ h = IF l < i THEN l ELSE l + 1
      BY <1>5
    <2>3. j = h
      BY <1>4, <2>1, <2>2 DEF OneEach
    <2> QED BY <1>3, <2>1, <2>2, <2>3
  <1>8. NoneOf(m_queue', t.p)
    BY <1>3, <1>4, <1>5 DEF NoneOf, Has, OneEach
  <1>9. \A b, data : b # t.p => (Has(m_queue', b, data)
                                     <=> Has(m_queue, b, data))
    BY <1>4, <1>5, <1>6 DEF Has
  <1>11. Has(m_queue, t.p, t.data)
    BY <1>3, <1>4 DEF Has
  <1> SUFFICES ASSUME NEW b \in Blocks, version[b] # 0
               PROVE  LastIsCurrent(m_queue', making', m_queue_out',
                                    mesh'[b], version', b)
    BY <1>2, <1>3, <1>4, <1>7 DEF MeshInv, OneEach
  <1>12. LastIsCurrent(m_queue, making, m_queue_out, mesh[b], version, b)
    BY DEF MeshInv
  <1>13. CASE b = t.p
    <2>1. Current(t.data, version, b)
      BY <1>11, <1>12, <1>13 DEF LastIsCurrent
    <2>2. /\ \A data : ~Has(m_queue', b, data)
          /\ \A data : Has(making', b, data) => Current(data, version, b)
          /\ ~NoneOf(making', b)
      BY <1>8, <1>10, <1>13, <2>1 DEF NoneOf
    <2> QED BY <1>2, <2>2 DEF LastIsCurrent
  <1>14. CASE b # t.p
    <2>1. /\ \A data : Has(m_queue', b, data) <=> Has(m_queue, b, data)
          /\ NoneOf(m_queue', b) <=> NoneOf(m_queue, b)
          /\ NoneOf(making, b) /\ NoneOf(making', b)
      BY <1>9, <1>10, <1>14 DEF NoneOf
    <2>2. \A data : ~Has(making', b, data)
      BY <2>1 DEF NoneOf
    <2> QED BY <1>2, <1>12, <2>1, <2>2 DEF LastIsCurrent
  <1> QED BY <1>13, <1>14

\* What was made comes last out of the queue of results.
LEMMA MakeMeshIsCurrent ==
    ASSUME QueueInv, MeshInv, MakeMesh
    PROVE  MeshInv'
  <1> DEFINE n == Len(m_queue_out)
             out == m_queue_out'
  <1>1. /\ making # <<>> /\ making' = <<>>
        /\ out = m_queue_out \o making
        /\ UNCHANGED <<version, mesh, m_queue>>
    BY DEF MakeMesh, queueVars
  <1>2. PICK t \in Task : making = <<t>>
    BY <1>1 DEF MeshInv
  <1>3. /\ n \in Nat /\ DOMAIN m_queue_out = 1 .. n
        /\ DOMAIN out = 1 .. n + 1
        /\ \A i \in 1 .. n : out[i] = m_queue_out[i]
        /\ out[n + 1] = t
    BY <1>1, <1>2 DEF QueueInv, Typed
  <1>4. /\ \A b, data : Has(making, b, data) <=> b = t.p /\ data = t.data
        /\ \A b, data : ~Has(making', b, data)
    BY <1>1, <1>2 DEF Has
  <1> HIDE DEF n, out
  <1> SUFFICES ASSUME NEW b \in Blocks, version[b] # 0
               PROVE  LastIsCurrent(m_queue', making', m_queue_out',
                                    mesh'[b], version', b)
    BY <1>1 DEF MeshInv, OneEach
  <1>5. LastIsCurrent(m_queue, making, m_queue_out, mesh[b], version, b)
    BY DEF MeshInv
  <1>6. ASSUME NoneOf(m_queue, b), NEW i \in DOMAIN out, LastOf(out, b, i)
        PROVE  Current(out[i].data, version, b)
    <2>1. CASE b = t.p
      <3>1. i = n + 1
        BY <1>3, <1>6, <2>1 DEF LastOf
      <3> QED BY <1>3, <1>4, <1>5, <1>6, <2>1, <3>1 DEF LastIsCurrent
    <2>2. CASE b # t.p
      <3>1. i \in 1 .. n /\ LastOf(m_queue_out, b, i)
        BY <1>3, <1>6, <2>2 DEF LastOf
      <3> QED BY <1>3, <1>4, <1>5, <1>6, <2>2, <3>1 DEF LastIsCurrent, NoneOf
    <2> QED BY <2>1, <2>2
  <1>7. ASSUME NoneOf(m_queue, b), NoneOf(out, b)
        PROVE  Current(mesh[b], version, b)
    <2>1. \A i \in DOMAIN out : out[i].p # b
      BY <1>7 DEF NoneOf, Has
    <2>2. b # t.p /\ \A i \in 1 .. n : m_queue_out[i].p # b
      BY <1>3, <2>1
    <2>3. NoneOf(making, b) /\ NoneOf(m_queue_out, b)
      BY <1>3, <1>4, <2>2 DEF NoneOf, Has
    <2> QED BY <1>5, <1>7, <2>3 DEF LastIsCurrent
  <1> QED BY <1>1, <1>4, <1>5, <1>6, <1>7
          DEF LastIsCurrent, out

LEMMA MeshInvInit == Init => MeshInv
  <1> SUFFICES ASSUME Init PROVE MeshInv
    OBVIOUS
  <1>1. mesh \in [Blocks -> Snapshots] /\ \A p \in Blocks : version[p] = 0
    BY MeshConstants DEF Init, NoMesh, Snapshots
  <1> QED BY <1>1 DEF Init, MeshInv, OneEach

LEMMA MeshInvNext == QueueInv /\ MeshInv /\ [Next]_vars => MeshInv'
  <1> SUFFICES ASSUME QueueInv, MeshInv, [Next]_vars PROVE MeshInv'
    OBVIOUS
  <1>1. CASE \E p \in Blocks : ReceiveBlockData(p) \/ AddNode(p) \/ Unload(p)
    BY <1>1, ReceiveBlockDataIsCurrent, AddNodeIsCurrent, UnloadIsCurrent
  <1>2. CASE \E p \in Blocks, onSide \in BOOLEAN : RemoveNode(p, onSide)
    BY <1>2, RemoveNodeIsCurrent
  <1>3. CASE ReplaceMeshes
    BY <1>3, ReplaceMeshesIsCurrent
  <1>4. CASE Pop
    BY <1>4, PopIsCurrent
  <1>5. CASE MakeMesh
    BY <1>5, MakeMeshIsCurrent
  <1>6. CASE UNCHANGED vars
    BY <1>6 DEF MeshInv, LastIsCurrent, NoneOf, Current, Has, LastOf, OneEach,
                vars, queueVars
  <1> QED BY <1>1, <1>2, <1>3, <1>4, <1>5, <1>6 DEF Next

\* Nothing is under way for p in the three queues together.
LEMMA IdleHasNone ==
    ASSUME QueueInv, NEW p, \A i \in DOMAIN Pending : Pending[i].p # p
    PROVE  NoneOf(m_queue_out, p) /\ NoneOf(making, p) /\ NoneOf(m_queue, p)
  <1>1. ASSUME NEW s \in Seq(Task), NEW t \in Seq(Task),
               \A i \in DOMAIN (s \o t) : (s \o t)[i].p # p
        PROVE  /\ \A i \in DOMAIN s : s[i].p # p
               /\ \A i \in DOMAIN t : t[i].p # p
    <2>1. /\ Len(s) \in Nat /\ DOMAIN s = 1 .. Len(s)
          /\ Len(t) \in Nat /\ DOMAIN t = 1 .. Len(t)
          /\ DOMAIN (s \o t) = 1 .. Len(s) + Len(t)
          /\ \A i \in 1 .. Len(s) + Len(t) :
                 (s \o t)[i] = IF i <= Len(s) THEN s[i] ELSE t[i - Len(s)]
      BY ConcatProperties
    <2>2. ASSUME NEW i \in DOMAIN s PROVE s[i].p # p
      <3>1. i \in DOMAIN (s \o t) /\ (s \o t)[i] = s[i]
        BY <2>1
      <3> QED BY <1>1, <3>1
    <2>3. ASSUME NEW i \in DOMAIN t PROVE t[i].p # p
      <3>1. /\ i + Len(s) \in 1 .. Len(s) + Len(t) /\ ~(i + Len(s) <= Len(s))
            /\ (i + Len(s)) - Len(s) = i
        BY <2>1
      <3>2. (s \o t)[i + Len(s)] = t[i] /\ i + Len(s) \in DOMAIN (s \o t)
        BY <2>1, <3>1
      <3> QED BY <1>1, <3>2
    <2> QED BY <2>2, <2>3
  <1>2. /\ m_queue_out \in Seq(Task) /\ making \in Seq(Task)
        /\ m_queue \in Seq(Task) /\ m_queue_out \o making \in Seq(Task)
    BY DEF QueueInv, Typed
  <1>3. /\ \A i \in DOMAIN (m_queue_out \o making) :
               (m_queue_out \o making)[i].p # p
        /\ \A i \in DOMAIN m_queue : m_queue[i].p # p
    BY <1>1, <1>2 DEF Pending
  <1>4. /\ \A i \in DOMAIN m_queue_out : m_queue_out[i].p # p
        /\ \A i \in DOMAIN making : making[i].p # p
    BY <1>1, <1>2, <1>3
  <1> QED BY <1>3, <1>4 DEF NoneOf, Has

(***************************************************************************)
(* A mesh is not stale for good: when nothing is under way for a block, it *)
(* shows what the block and its neighbours contain, whatever tasks were    *)
(* merged, made urgent or left over from before the block was unloaded.    *)
(***************************************************************************)
THEOREM NoMeshStaysStale == Spec => []IdleMeshIsCurrent
  <1>1. ASSUME QueueInv, MeshInv PROVE IdleMeshIsCurrent
    <2> SUFFICES ASSUME NEW p \in Blocks, version[p] # 0,
                        \A i \in DOMAIN Pending : Pending[i].p # p
                 PROVE  Current(mesh[p], version, p)
      BY DEF IdleMeshIsCurrent, Current
    <2>1. NoneOf(m_queue_out, p) /\ NoneOf(making, p) /\ NoneOf(m_queue, p)
      BY <1>1, IdleHasNone
    <2>2. LastIsCurrent(m_queue, making, m_queue_out, mesh[p], version, p)
      BY <1>1 DEF MeshInv
    <2> QED BY <2>1, <2>2 DEF LastIsCurrent
  <1> QED BY <1>1, MeshInvInit, MeshInvNext, QueueInvHolds, PTL DEF Spec
=============================================================================
