---------------------------- MODULE EmergeProofs ----------------------------
(***************************************************************************)
(* Proofs about Emerge, for any number of blocks, threads and peers. That  *)
(* a chunk is not generated over blocks that were sent or edited is proved *)
(* for one thread: with more it is false.                                  *)
(***************************************************************************)
EXTENDS Emerge, FiniteSetTheorems, SequenceTheorems, TLAPS

\* Every position in a queue is enqueued.
QueuedAreEnqueued ==
    \A t \in Threads : \A i \in 1 .. Len(blockqueue[t]) :
        blockqueue[t][i] \in Enqueued

\* Every enqueued block is in a queue.
EnqueuedAreQueued ==
    \A p \in Enqueued : \E t \in Threads : \E i \in 1 .. Len(blockqueue[t]) :
        blockqueue[t][i] = p

\* No block is in two places.
QueuedOnce ==
    \A t, u \in Threads :
        \A i \in 1 .. Len(blockqueue[t]), j \in 1 .. Len(blockqueue[u]) :
            blockqueue[t][i] = blockqueue[u][j] => t = u /\ i = j

InSync == QueuedAreEnqueued /\ EnqueuedAreQueued /\ QueuedOnce

\* The blocks enqueued for a peer.
BlocksOf(q) == {p \in Enqueued : blocks_enqueued[p].peer_requested = q}

(***************************************************************************)
(* TypeOK is not inductive without PeerCountsExact: a count could drop     *)
(* below zero.                                                             *)
(***************************************************************************)
QueueInv == TypeOK /\ InSync /\ PeerCountsExact

-----------------------------------------------------------------------------
(* Facts about the operators. *)

\* There is a shortest queue, so there is a thread to give the block to.
LEMMA EmptiestIsThread ==
    ASSUME blockqueue \in [Threads -> Seq(Blocks)]
    PROVE  EmptiestThread \in Threads
  <1> DEFINE L == {Len(blockqueue[t]) : t \in Threads}
             S == {t \in Threads : \A u \in Threads :
                        Len(blockqueue[t]) <= Len(blockqueue[u])}
  <1>1. \A t \in Threads : Len(blockqueue[t]) \in Nat
    BY LenProperties
  <1>2. L \subseteq Nat /\ L # {}
    <2>1. 1 \in Threads
      BY EmergeConstants DEF Threads
    <2>2. L \subseteq Nat
      BY <1>1
    <2> QED BY <2>1, <2>2
  <1>3. \A T \in SUBSET Nat : T # {} => \E m \in T : \A x \in T : m <= x
    <2> SUFFICES ASSUME NEW T \in SUBSET Nat, T # {}
                 PROVE  \E m \in T : \A x \in T : m <= x
      OBVIOUS
    <2>1. PICK m \in T : \A x \in T : ~(<<x, m>> \in OpToRel(<, Nat))
      <3>1. T \subseteq Nat
        OBVIOUS
      <3> QED BY <3>1, NatLessThanWellFounded, WFMin, Zenon
    <2>2. ASSUME NEW x \in T PROVE m <= x
      <3>1. x \in Nat /\ m \in Nat
        OBVIOUS
      <3>2. ~(x < m)
        BY <2>1, <3>1, Zenon DEF OpToRel
      <3> QED BY <3>1, <3>2
    <2> QED BY <2>2
  <1>4. S # {}
    <2>1. PICK m \in L : \A x \in L : m <= x
      BY <1>2, <1>3
    <2>2. PICK t \in Threads : Len(blockqueue[t]) = m
      OBVIOUS
    <2>3. t \in S
      BY <2>1, <2>2
    <2> QED BY <2>3
  <1>5. S \in SUBSET Nat
    BY EmergeConstants DEF Threads
  <1>6. PICK m \in S : \A x \in S : m <= x
    BY <1>3, <1>4, <1>5
  <1>7. Min(S) \in S
    BY <1>6 DEF Min
  <1> QED BY <1>7 DEF EmptiestThread

\* The map of enqueued blocks is finite.
LEMMA EnqueuedIsFinite ==
    ASSUME TypeOK
    PROVE  /\ IsFiniteSet(Enqueued)
           /\ \A q : IsFiniteSet(BlocksOf(q))
           /\ \A q : Cardinality(BlocksOf(q)) \in Nat
  <1>1. IsFiniteSet(Blocks)
    BY FS_Interval, EmergeConstants DEF Blocks
  <1>2. IsFiniteSet(Enqueued)
    BY <1>1, FS_Subset DEF TypeOK
  <1>3. \A q : BlocksOf(q) \in SUBSET Enqueued
    BY DEF BlocksOf
  <1>4. \A q : IsFiniteSet(BlocksOf(q))
    BY <1>2, <1>3, FS_Subset
  <1> QED BY <1>2, <1>4, FS_CardinalityType

\* What it means to be in sync, for the property.
LEMMA InSyncIsQueuesInSync ==
    ASSUME InSync PROVE QueuesInSync
  <1> SUFFICES ASSUME NEW p \in Blocks
               PROVE  Cardinality(Places(p)) = IF p \in Enqueued THEN 1 ELSE 0
    BY DEF QueuesInSync
  <1>1. CASE p \notin Enqueued
    <2>1. Places(p) = {}
      BY <1>1 DEF InSync, QueuedAreEnqueued, Places
    <2> QED BY <1>1, <2>1, FS_EmptySet
  <1>2. CASE p \in Enqueued
    <2>0. PICK t \in Threads : \E i \in 1 .. Len(blockqueue[t]) :
             blockqueue[t][i] = p
      BY <1>2 DEF InSync, EnqueuedAreQueued
    <2>1. PICK i \in 1 .. Len(blockqueue[t]) : blockqueue[t][i] = p
      BY <2>0
    <2>2. Places(p) = {<<t, i>>}
      <3>1. <<t, i>> \in Places(p)
        BY <2>1 DEF Places
      <3>2. ASSUME NEW x \in Places(p) PROVE x = <<t, i>>
        <4>1. PICK u \in Threads : \E j \in 1 .. Len(blockqueue[u]) :
                 x = <<u, j>> /\ blockqueue[u][j] = p
          BY DEF Places
        <4> QED BY <2>1, <4>1 DEF InSync, QueuedOnce
      <3> QED BY <3>1, <3>2
    <2> QED BY <1>2, <2>2, FS_Singleton
  <1> QED BY <1>1, <1>2

-----------------------------------------------------------------------------
(* The queues. *)

\* Only two actions touch the queues and the map of enqueued blocks.
LEMMA QueueSteps ==
    ASSUME [Next]_vars
    PROVE  \/ UNCHANGED queueVars
           \/ \E q \in Peers, p \in Blocks, g \in BOOLEAN :
                  EnqueueBlockEmerge(q, p, g)
           \/ \E t \in Threads : PopBlockEmerge(t)
  BY DEF Next, vars, queueVars, Signal, Trigger, SendBlock, Edit, BeginShutdown,
         StopThread, ThreadStep, LoadFails, Wake, Exit, GetBlockOrStartGen,
         FinishBlockMake, SetBlocksNotSent

\* In sync, a popped position is enqueued: popBlockEmerge finds it.
LEMMA HeadIsEnqueued ==
    ASSUME TypeOK, InSync, NEW t \in Threads, blockqueue[t] # <<>>
    PROVE  /\ Len(blockqueue[t]) \in Nat \ {0}
           /\ Head(blockqueue[t]) = blockqueue[t][1]
           /\ Head(blockqueue[t]) \in Enqueued
           /\ Tail(blockqueue[t]) \in Seq(Blocks)
           /\ Len(Tail(blockqueue[t])) = Len(blockqueue[t]) - 1
           /\ \A i \in 1 .. Len(blockqueue[t]) - 1 :
                  Tail(blockqueue[t])[i] = blockqueue[t][i + 1]
  <1>1. blockqueue[t] \in Seq(Blocks)
    BY DEF TypeOK
  <1>2. /\ Len(blockqueue[t]) \in Nat \ {0}
        /\ Head(blockqueue[t]) = blockqueue[t][1]
        /\ Tail(blockqueue[t]) \in Seq(Blocks)
        /\ Len(Tail(blockqueue[t])) = Len(blockqueue[t]) - 1
        /\ \A i \in 1 .. Len(blockqueue[t]) - 1 :
               Tail(blockqueue[t])[i] = blockqueue[t][i + 1]
    BY <1>1
  <1>3. blockqueue[t][1] \in Enqueued
    BY <1>2 DEF InSync, QueuedAreEnqueued
  <1> QED BY <1>2, <1>3

\* What a pop does to the queues when they are in sync.
LEMMA PopEffect ==
    ASSUME TypeOK, InSync, NEW t \in Threads, PopBlockEmerge(t)
    PROVE  \/ UNCHANGED queueVars
           \/ LET p == Head(blockqueue[t])
              IN  /\ blockqueue[t] # <<>>
                  /\ p \in Enqueued
                  /\ blockqueue' = [blockqueue EXCEPT ![t] = Tail(@)]
                  /\ Enqueued' = Enqueued \ {p}
                  /\ blocks_enqueued' =
                         [b \in Enqueued \ {p} |-> blocks_enqueued[b]]
                  /\ UncountPeer(p)
  <1>1. CASE blockqueue[t] = <<>>
    BY <1>1 DEF PopBlockEmerge
  <1>2. CASE blockqueue[t] # <<>>
    <2>1. Head(blockqueue[t]) \in Enqueued
      BY <1>2, HeadIsEnqueued
    <2>2. /\ blockqueue' = [blockqueue EXCEPT ![t] = Tail(@)]
          /\ blocks_enqueued' = Restrict(blocks_enqueued,
                                    Enqueued \ {Head(blockqueue[t])})
          /\ UncountPeer(Head(blockqueue[t]))
      BY <1>2, <2>1 DEF PopBlockEmerge
    <2>3. blocks_enqueued' = [b \in Enqueued \ {Head(blockqueue[t])} |->
                                 blocks_enqueued[b]]
      BY <2>2 DEF Restrict
    <2>4. Enqueued' = Enqueued \ {Head(blockqueue[t])}
      BY <2>3 DEF Enqueued
    <2> QED BY <1>2, <2>1, <2>2, <2>3, <2>4
  <1> QED BY <1>1, <1>2

\* What enqueueing does to the queues.
LEMMA EnqueueEffect ==
    ASSUME TypeOK, NEW q \in Peers, NEW p \in Blocks, NEW g \in BOOLEAN,
           EnqueueBlockEmerge(q, p, g)
    PROVE  /\ \A b \in Enqueued : blocks_enqueued'[b].peer_requested =
                                     blocks_enqueued[b].peer_requested
           /\ \/ /\ Enqueued' = Enqueued
                 /\ UNCHANGED peer_queue_count
                 /\ UNCHANGED blockqueue
                 /\ UNCHANGED to_signal
              \/ /\ p \notin Enqueued
                 /\ Enqueued' = Enqueued \cup {p}
                 /\ blocks_enqueued'[p].peer_requested = q
                 /\ peer_queue_count' = [peer_queue_count EXCEPT ![q] = @ + 1]
                 /\ EmptiestThread \in Threads
                 /\ blockqueue' = [blockqueue EXCEPT ![EmptiestThread]
                                       = Append(@, p)]
                 /\ to_signal' = EmptiestThread
           /\ blocks_enqueued' \in [Enqueued' -> BlockEmergeData]
  <1>1. EmptiestThread \in Threads
    BY EmptiestIsThread DEF TypeOK
  <1>2. blocks_enqueued \in [Enqueued -> BlockEmergeData]
    BY DEF TypeOK
  <1>3. CASE p \in Enqueued
    <2>1. /\ blocks_enqueued' = [blocks_enqueued EXCEPT ![p].gen = @ \/ g]
          /\ UNCHANGED peer_queue_count
          /\ UNCHANGED blockqueue
          /\ UNCHANGED to_signal
      BY <1>3 DEF EnqueueBlockEmerge, AlreadyEnqueued
    <2>2. Enqueued' = Enqueued
      BY <2>1 DEF Enqueued
    <2>3. \A b \in Enqueued : blocks_enqueued'[b].peer_requested =
                                 blocks_enqueued[b].peer_requested
      BY <1>2, <2>1 DEF BlockEmergeData
    <2>4. blocks_enqueued' \in [Enqueued -> BlockEmergeData]
      BY <1>2, <1>3, <2>1 DEF BlockEmergeData
    <2> QED BY <2>1, <2>2, <2>3, <2>4
  <1>4. CASE p \notin Enqueued
    <2>1. blocks_enqueued' =
              [b \in Enqueued \cup {p} |->
                  IF b = p THEN [peer_requested |-> q, gen |-> g]
                           ELSE blocks_enqueued[b]]
      BY <1>4 DEF EnqueueBlockEmerge, AlreadyEnqueued
    <2>2. Enqueued' = Enqueued \cup {p}
      BY <2>1 DEF Enqueued
    <2>3. /\ \A b \in Enqueued : blocks_enqueued'[b].peer_requested =
                                     blocks_enqueued[b].peer_requested
          /\ blocks_enqueued'[p].peer_requested = q
      BY <1>4, <2>1
    <2>4. blocks_enqueued' \in [Enqueued' -> BlockEmergeData]
      BY <1>2, <2>1, <2>2 DEF BlockEmergeData
    <2> QED BY <1>1, <1>4, <2>2, <2>3, <2>4
            DEF EnqueueBlockEmerge, AlreadyEnqueued
  <1> QED BY <1>3, <1>4

(***************************************************************************)
(* Enqueueing puts a new position at the end of one queue and in the map;  *)
(* a pop takes it off the front and out of the map.                        *)
(***************************************************************************)
LEMMA SyncStep ==
    ASSUME TypeOK, InSync, [Next]_vars PROVE InSync'
  <1>0. /\ blockqueue \in [Threads -> Seq(Blocks)]
        /\ \A t \in Threads : Len(blockqueue[t]) \in Nat
    BY DEF TypeOK
  <1>1. CASE UNCHANGED queueVars
    BY <1>1 DEF InSync, QueuedAreEnqueued, EnqueuedAreQueued, QueuedOnce,
                queueVars, Enqueued
  <1>2. ASSUME NEW peer \in Peers, NEW p \in Blocks, NEW g \in BOOLEAN,
               EnqueueBlockEmerge(peer, p, g)
        PROVE  InSync'
    <2>1. CASE Enqueued' = Enqueued /\ UNCHANGED blockqueue
      BY <2>1 DEF InSync, QueuedAreEnqueued, EnqueuedAreQueued, QueuedOnce
    <2>2. CASE /\ p \notin Enqueued
               /\ Enqueued' = Enqueued \cup {p}
               /\ EmptiestThread \in Threads
               /\ blockqueue' = [blockqueue EXCEPT ![EmptiestThread]
                                     = Append(@, p)]
      <3>0. PICK e \in Threads : e = EmptiestThread
        BY <2>2
      <3>1. /\ blockqueue'[e] = Append(blockqueue[e], p)
            /\ Len(blockqueue'[e]) = Len(blockqueue[e]) + 1
            /\ blockqueue'[e][Len(blockqueue[e]) + 1] = p
            /\ \A i \in 1 .. Len(blockqueue[e]) :
                    blockqueue'[e][i] = blockqueue[e][i]
        BY <1>0, <2>2, <3>0
      <3>2. \A t \in Threads : t # e => blockqueue'[t] = blockqueue[t]
        BY <1>0, <2>2, <3>0
      \* A place is old, or the last one of e.
      <3>4. \A t \in Threads : \A i \in 1 .. Len(blockqueue'[t]) :
               \/ i \in 1 .. Len(blockqueue[t])
                       /\ blockqueue'[t][i] = blockqueue[t][i]
               \/ t = e /\ i = Len(blockqueue[e]) + 1 /\ blockqueue'[t][i] = p
        <4>1. ASSUME NEW i \in 1 .. Len(blockqueue'[e])
              PROVE  \/ i \in 1 .. Len(blockqueue[e])
                     \/ i = Len(blockqueue[e]) + 1
          BY <1>0, <3>1
        <4> QED BY <3>1, <3>2, <4>1
      <3>5. QueuedAreEnqueued'
        BY <2>2, <3>4 DEF InSync, QueuedAreEnqueued
      <3>6. EnqueuedAreQueued'
        <4>1. ASSUME NEW b \in Enqueued
              PROVE  \E t \in Threads : \E i \in 1 .. Len(blockqueue'[t]) :
                      blockqueue'[t][i] = b
          <5>1. PICK t \in Threads : \E i \in 1 .. Len(blockqueue[t]) :
                  blockqueue[t][i] = b
            BY DEF InSync, EnqueuedAreQueued
          <5>2. PICK i \in 1 .. Len(blockqueue[t]) : blockqueue[t][i] = b
            BY <5>1
          <5>3. i \in 1 .. Len(blockqueue'[t]) /\ blockqueue'[t][i] = b
            BY <1>0, <3>1, <3>2, <5>2
          <5> QED BY <5>3
        <4>2. \E t \in Threads : \E i \in 1 .. Len(blockqueue'[t]) :
                blockqueue'[t][i] = p
          <5>1. Len(blockqueue[e]) + 1 \in 1 .. Len(blockqueue'[e])
            BY <1>0, <3>1
          <5> QED BY <3>1, <5>1
        <4> QED BY <2>2, <4>1, <4>2 DEF EnqueuedAreQueued
      <3>7. QueuedOnce'
        <4>1. ASSUME NEW t \in Threads, NEW i \in 1 .. Len(blockqueue[t])
              PROVE  blockqueue[t][i] # p
          BY <2>2 DEF InSync, QueuedAreEnqueued
        <4>2. ASSUME NEW t \in Threads, NEW u \in Threads,
                     NEW i \in 1 .. Len(blockqueue'[t]),
                     NEW j \in 1 .. Len(blockqueue'[u]),
                     blockqueue'[t][i] = blockqueue'[u][j]
              PROVE  t = u /\ i = j
          <5>1. CASE i \in 1 .. Len(blockqueue[t])
                  /\ blockqueue'[t][i] = blockqueue[t][i]
            <6>1. j \in 1 .. Len(blockqueue[u])
                    /\ blockqueue'[u][j] = blockqueue[u][j]
              BY <3>4, <4>1, <4>2, <5>1
            <6>2. /\ i \in 1 .. Len(blockqueue[t])
                  /\ j \in 1 .. Len(blockqueue[u])
                  /\ blockqueue[t][i] = blockqueue[u][j]
              BY <4>2, <5>1, <6>1
            <6>3. QueuedOnce
              BY DEF InSync
            <6> QED BY <6>2, <6>3, ZenonT(30) DEF QueuedOnce
          <5>2. CASE t = e /\ i = Len(blockqueue[e]) + 1
                  /\ blockqueue'[t][i] = p
            <6>1. u = e /\ j = Len(blockqueue[e]) + 1
              BY <3>4, <4>1, <4>2, <5>2
            <6> QED BY <5>2, <6>1
          <5> QED BY <3>4, <5>1, <5>2
        <4> QED BY <4>2 DEF QueuedOnce
      <3> QED BY <3>5, <3>6, <3>7 DEF InSync
    <2> QED BY <1>2, <2>1, <2>2, EnqueueEffect
  <1>3. ASSUME NEW s \in Threads, PopBlockEmerge(s) PROVE InSync'
    <2>0. PICK p : p = Head(blockqueue[s])
      OBVIOUS
    <2>1. CASE /\ blockqueue[s] # <<>>
               /\ Enqueued' = Enqueued \ {p}
               /\ blockqueue' = [blockqueue EXCEPT ![s] = Tail(@)]
      <3>1. /\ Len(blockqueue[s]) \in Nat \ {0}
            /\ p = blockqueue[s][1]
            /\ blockqueue'[s] = Tail(blockqueue[s])
            /\ Len(blockqueue'[s]) = Len(blockqueue[s]) - 1
            /\ \A i \in 1 .. Len(blockqueue[s]) - 1 :
                    blockqueue'[s][i] = blockqueue[s][i + 1]
        BY <1>0, <2>0, <2>1, HeadIsEnqueued
      <3>2. \A t \in Threads : t # s => blockqueue'[t] = blockqueue[t]
        BY <1>0, <2>1
      <3>3. 1 \in 1 .. Len(blockqueue[s])
        BY <3>1
      \* A place was there before, one further back in s.
      <3> DEFINE old(t, i) == IF t = s THEN i + 1 ELSE i
      <3>4. \A t \in Threads : \A i \in 1 .. Len(blockqueue'[t]) :
               /\ old(t, i) \in 1 .. Len(blockqueue[t])
               /\ blockqueue'[t][i] = blockqueue[t][old(t, i)]
               /\ t = s => old(t, i) # 1
        <4> SUFFICES ASSUME NEW t \in Threads,
                            NEW i \in 1 .. Len(blockqueue'[t])
                     PROVE  /\ old(t, i) \in 1 .. Len(blockqueue[t])
                            /\ blockqueue'[t][i] = blockqueue[t][old(t, i)]
                            /\ t = s => old(t, i) # 1
          OBVIOUS
        <4>1. CASE t = s
          <5>1. old(t, i) = i + 1
            BY <4>1
          <5>2. i \in 1 .. Len(blockqueue[s]) - 1
            BY <3>1, <4>1
          <5>3. i + 1 \in 1 .. Len(blockqueue[s]) /\ i + 1 # 1
            BY <3>1, <5>2
          <5>4. blockqueue'[s][i] = blockqueue[s][i + 1]
            BY <3>1, <5>2
          <5> HIDE DEF old
          <5> QED BY <4>1, <5>1, <5>3, <5>4
        <4>2. CASE t # s
          BY <3>2, <4>2
        <4> QED BY <4>1, <4>2
      <3>5. \A t \in Threads : \A i \in 1 .. Len(blockqueue[t]) :
               blockqueue[t][i] = p => t = s /\ i = 1
        BY <3>1, <3>3 DEF InSync, QueuedOnce
      <3>6. QueuedAreEnqueued'
        <4>1. ASSUME NEW t \in Threads, NEW i \in 1 .. Len(blockqueue'[t])
              PROVE  blockqueue'[t][i] \in Enqueued'
          <5>1. blockqueue[t][old(t, i)] \in Enqueued
            BY <3>4 DEF InSync, QueuedAreEnqueued
          <5>2. blockqueue[t][old(t, i)] # p
            BY <3>4, <3>5
          <5> QED BY <2>1, <3>4, <5>1, <5>2
        <4> QED BY <4>1 DEF QueuedAreEnqueued
      <3>7. EnqueuedAreQueued'
        <4>1. ASSUME NEW b \in Enqueued, b # p
              PROVE  \E t \in Threads : \E i \in 1 .. Len(blockqueue'[t]) :
                      blockqueue'[t][i] = b
          <5>1. PICK t \in Threads : \E i \in 1 .. Len(blockqueue[t]) :
                  blockqueue[t][i] = b
            BY DEF InSync, EnqueuedAreQueued
          <5>2. PICK i \in 1 .. Len(blockqueue[t]) : blockqueue[t][i] = b
            BY <5>1
          <5>3. CASE t = s
            <6>1. i # 1
              BY <3>1, <4>1, <5>2, <5>3
            <6>2. i - 1 \in 1 .. Len(blockqueue[s]) - 1
                    /\ blockqueue'[s][i - 1] = b
              BY <3>1, <5>2, <5>3, <6>1
            <6> QED BY <3>1, <6>2
          <5>4. CASE t # s
            BY <3>2, <5>2, <5>4
          <5> QED BY <5>3, <5>4
        <4> QED BY <2>1, <4>1 DEF EnqueuedAreQueued
      <3>8. QueuedOnce'
        <4>1. ASSUME NEW t \in Threads, NEW u \in Threads,
                     NEW i \in 1 .. Len(blockqueue'[t]),
                     NEW j \in 1 .. Len(blockqueue'[u]),
                     blockqueue'[t][i] = blockqueue'[u][j]
              PROVE  t = u /\ i = j
          <5>1. t = u /\ old(t, i) = old(u, j)
            <6>1. /\ old(t, i) \in 1 .. Len(blockqueue[t])
                  /\ old(u, j) \in 1 .. Len(blockqueue[u])
                  /\ blockqueue[t][old(t, i)] = blockqueue[u][old(u, j)]
              BY <3>4, <4>1
            <6> HIDE DEF old
            <6> QED BY <6>1, Zenon DEF InSync, QueuedOnce
          <5> QED BY <5>1
        <4> QED BY <4>1 DEF QueuedOnce
      <3> QED BY <3>6, <3>7, <3>8 DEF InSync
    <2> QED BY <1>1, <1>3, <2>0, <2>1, PopEffect
  <1> QED BY <1>1, <1>2, <1>3, QueueSteps

\* One more block enqueued for a peer counts one more, one less counts less.
LEMMA CountsStep ==
    ASSUME TypeOK, InSync, PeerCountsExact, [Next]_vars
    PROVE  PeerCountsExact' /\ peer_queue_count' \in [Peers -> Nat]
  <1>0. /\ peer_queue_count \in [Peers -> Nat]
        /\ blocks_enqueued \in [Enqueued -> BlockEmergeData]
    BY DEF TypeOK
  <1>1. \A r \in Peers : peer_queue_count[r] = Cardinality(BlocksOf(r))
    BY DEF PeerCountsExact, BlocksOf
  <1>2. SUFFICES /\ peer_queue_count' \in [Peers -> Nat]
                 /\ \A r \in Peers : peer_queue_count'[r] =
                                        Cardinality(BlocksOf(r)')
    BY DEF PeerCountsExact, BlocksOf
  <1>3. CASE UNCHANGED queueVars
    <2>1. \A r \in Peers : BlocksOf(r)' = BlocksOf(r)
      BY <1>3 DEF queueVars, BlocksOf, Enqueued
    <2> QED BY <1>0, <1>1, <1>3, <2>1 DEF queueVars
  <1>4. ASSUME NEW q \in Peers, NEW p \in Blocks, NEW g \in BOOLEAN,
               EnqueueBlockEmerge(q, p, g)
        PROVE  /\ peer_queue_count' \in [Peers -> Nat]
               /\ \A r \in Peers : peer_queue_count'[r] =
                                      Cardinality(BlocksOf(r)')
    <2>0. \A b \in Enqueued : blocks_enqueued'[b].peer_requested =
                                 blocks_enqueued[b].peer_requested
      BY <1>4, EnqueueEffect
    <2>1. CASE Enqueued' = Enqueued /\ UNCHANGED peer_queue_count
      <3>1. \A r \in Peers : BlocksOf(r)' = BlocksOf(r)
        BY <2>0, <2>1 DEF BlocksOf
      <3> QED BY <1>0, <1>1, <2>1, <3>1
    <2>2. CASE /\ p \notin Enqueued
               /\ Enqueued' = Enqueued \cup {p}
               /\ blocks_enqueued'[p].peer_requested = q
               /\ peer_queue_count' = [peer_queue_count EXCEPT ![q] = @ + 1]
      <3>1. BlocksOf(q)' = BlocksOf(q) \cup {p}
        BY <2>0, <2>2 DEF BlocksOf
      <3>2. \A r \in Peers : r # q => BlocksOf(r)' = BlocksOf(r)
        BY <2>0, <2>2 DEF BlocksOf
      <3>3. p \notin BlocksOf(q)
        BY <2>2 DEF BlocksOf
      <3>4. Cardinality(BlocksOf(q)') = Cardinality(BlocksOf(q)) + 1
        BY <3>1, <3>3, EnqueuedIsFinite, FS_AddElement
      <3> QED BY <1>0, <1>1, <2>2, <3>2, <3>4
    <2> QED BY <1>4, <2>1, <2>2, EnqueueEffect
  <1>5. ASSUME NEW t \in Threads, PopBlockEmerge(t)
        PROVE  /\ peer_queue_count' \in [Peers -> Nat]
               /\ \A r \in Peers : peer_queue_count'[r] =
                                      Cardinality(BlocksOf(r)')
    <2>0. PICK p : p = Head(blockqueue[t])
      OBVIOUS
    <2>1. CASE /\ p \in Enqueued
               /\ Enqueued' = Enqueued \ {p}
               /\ blocks_enqueued' =
                       [b \in Enqueued \ {p} |-> blocks_enqueued[b]]
               /\ UncountPeer(p)
      <3>0. PICK q \in Peers : q = blocks_enqueued[p].peer_requested
        BY <1>0, <2>1 DEF BlockEmergeData
      <3>1. \A b \in Enqueued \ {p} : blocks_enqueued'[b] = blocks_enqueued[b]
        BY <2>1
      <3>2. BlocksOf(q)' = BlocksOf(q) \ {p}
        BY <2>1, <3>0, <3>1 DEF BlocksOf
      <3>3. \A r \in Peers : r # q => BlocksOf(r)' = BlocksOf(r)
        BY <2>1, <3>0, <3>1 DEF BlocksOf
      <3>4. p \in BlocksOf(q)
        BY <2>1, <3>0 DEF BlocksOf
      <3>5. /\ Cardinality(BlocksOf(q)') = Cardinality(BlocksOf(q)) - 1
            /\ Cardinality(BlocksOf(q)') \in Nat
        <4>1. IsFiniteSet(BlocksOf(q))
          BY EnqueuedIsFinite
        <4> QED BY <3>2, <3>4, <4>1, FS_RemoveElement, FS_CardinalityType
      <3>6. peer_queue_count' = [peer_queue_count EXCEPT ![q] = @ - 1]
        BY <2>1, <3>0 DEF UncountPeer
      <3> QED BY <1>0, <1>1, <3>0, <3>3, <3>5, <3>6
    <2> QED BY <1>3, <1>5, <2>0, <2>1, PopEffect
  <1> QED BY <1>3, <1>4, <1>5, QueueSteps

\* Chunks and areas are sets of blocks.
LEMMA AreaType ==
    \A b : Chunk(b) \in SUBSET Blocks /\ Area(b) \in SUBSET Blocks
  BY DEF Chunk, Area

\* Every action leaves the variables in their types.
LEMMA TypeStep ==
    ASSUME QueueInv, [Next]_vars PROVE TypeOK'
  <1>0. /\ TypeOK /\ InSync
        /\ peer_queue_count' \in [Peers -> Nat]
    BY CountsStep DEF QueueInv
  <1> USE DEF TypeOK
  <1>1. ASSUME NEW q \in Peers, NEW p \in Blocks, NEW g \in BOOLEAN,
               EnqueueBlockEmerge(q, p, g)
        PROVE  TypeOK'
    <2>1. /\ UNCHANGED <<qevent, threadVars, dtor, mapVars, clientVars>>
      BY <1>1 DEF EnqueueBlockEmerge
    <2>2. /\ Enqueued' \subseteq Blocks
          /\ blocks_enqueued' \in [Enqueued' -> BlockEmergeData]
          /\ blockqueue' \in [Threads -> Seq(Blocks)]
          /\ to_signal' \in 0 .. NThreads
      <3> HIDE DEF TypeOK
      <3>1. /\ Enqueued \subseteq Blocks
            /\ blockqueue \in [Threads -> Seq(Blocks)]
            /\ to_signal \in 0 .. NThreads
        BY <1>0 DEF TypeOK
      <3>2. CASE Enqueued' = Enqueued /\ UNCHANGED blockqueue
              /\ UNCHANGED to_signal
        BY <1>0, <1>1, <3>1, <3>2, EnqueueEffect
      <3>3. CASE /\ Enqueued' = Enqueued \cup {p}
                 /\ EmptiestThread \in Threads
                 /\ blockqueue' = [blockqueue EXCEPT ![EmptiestThread]
                                       = Append(@, p)]
                 /\ to_signal' = EmptiestThread
        <4>1. blockqueue' \in [Threads -> Seq(Blocks)]
          BY <3>1, <3>3
        <4>2. to_signal' \in 0 .. NThreads
          BY <3>3, EmergeConstants DEF Threads
        <4> QED BY <1>0, <1>1, <3>1, <3>3, <4>1, <4>2, EnqueueEffect
      <3> QED BY <1>0, <1>1, <3>2, <3>3, EnqueueEffect
    <2> QED BY <1>0, <2>1, <2>2 DEF threadVars, mapVars, clientVars
  <1>2. ASSUME Signal PROVE TypeOK'
    <2>1. /\ to_signal' = 0
          /\ qevent' = [qevent EXCEPT ![to_signal] = @ + 1]
          /\ UNCHANGED <<queueVars, threadVars, dtor, mapVars, clientVars>>
      BY <1>2 DEF Signal
    <2>2. qevent' \in [Threads -> Nat] /\ to_signal' \in 0 .. NThreads
      <3> HIDE DEF TypeOK
      <3>1. qevent \in [Threads -> Nat]
        BY <1>0 DEF TypeOK
      <3>2. qevent' \in [Threads -> Nat]
        <4>1. \A t \in Threads : qevent[t] \in Nat /\ qevent[t] + 1 \in Nat
          BY <3>1
        <4> QED BY <2>1, <3>1, <4>1, Zenon
      <3>3. 0 \in 0 .. NThreads
        BY EmergeConstants
      <3> QED BY <2>1, <3>2, <3>3
    <2> QED BY <1>0, <2>1, <2>2
            DEF queueVars, threadVars, mapVars, clientVars, Enqueued
  <1>3. ASSUME Trigger PROVE TypeOK'
    <2>1. /\ pc' = [t \in Threads |-> IF pc[t] = "new" THEN "loop" ELSE pc[t]]
          /\ run' = [t \in Threads |-> TRUE]
          /\ UNCHANGED <<queueVars, qevent, job, copy, modified, to_signal,
                         dtor, mapVars, clientVars>>
      BY <1>3 DEF Trigger
    <2>2. /\ pc' \in [Threads -> {"new", "loop", "wait", "fetch", "make",
                                  "announce", "ended"}]
          /\ run' \in [Threads -> BOOLEAN]
      BY <1>0, <2>1
    <2> QED BY <1>0, <2>1, <2>2 DEF queueVars, mapVars, clientVars, Enqueued
  <1>4. ASSUME NEW b \in Blocks, SendBlock(b) PROVE TypeOK'
    BY <1>0, <1>4 DEF SendBlock, queueVars, threadVars, mapVars, Enqueued
  <1>5. ASSUME NEW b \in Blocks, Edit(b) PROVE TypeOK'
    BY <1>0, <1>5 DEF Edit, queueVars, threadVars, clientVars, Enqueued
  <1>6. ASSUME BeginShutdown PROVE TypeOK'
    BY <1>0, <1>6, EmergeConstants
       DEF BeginShutdown, queueVars, threadVars, mapVars, clientVars, Enqueued
  <1>7. ASSUME NEW t \in Threads, StopThread(t) PROVE TypeOK'
    <2>1. /\ qevent' \in [Threads -> Nat]
          /\ run' \in [Threads -> BOOLEAN]
      <3> HIDE DEF TypeOK
      <3>1. qevent \in [Threads -> Nat] /\ run \in [Threads -> BOOLEAN]
        BY <1>0 DEF TypeOK
      <3>2. /\ \/ qevent' = qevent
               \/ qevent' = [qevent EXCEPT ![t] = @ + 1]
            /\ \/ run' = run
               \/ run' = [run EXCEPT ![t] = FALSE]
        BY <1>7, Zenon DEF StopThread
      <3>3. qevent' \in [Threads -> Nat]
        BY <3>1, <3>2
      <3>4. run' \in [Threads -> BOOLEAN]
        BY <3>1, <3>2
      <3> QED BY <3>3, <3>4
    <2>2. dtor' \in [thread : 0 .. NThreads + 1,
                     step : {"setRun", "signal", "join"}]
      <3> HIDE DEF TypeOK
      <3>1. dtor \in [thread : 0 .. NThreads + 1,
                      step : {"setRun", "signal", "join"}]
        BY <1>0 DEF TypeOK
      <3>2. \/ \E s \in {"signal", "join"} : dtor' = [dtor EXCEPT !.step = s]
            \/ dtor' = [thread |-> t + 1, step |-> "setRun"]
        BY <1>7 DEF StopThread, DtorStep
      <3>3. t + 1 \in 0 .. NThreads + 1
        BY EmergeConstants DEF Threads
      <3> QED BY <3>1, <3>2, <3>3
    <2> QED BY <1>0, <1>7, <2>1, <2>2
            DEF StopThread, queueVars, mapVars, clientVars, Enqueued
  <1>8. ASSUME NEW t \in Threads, PopBlockEmerge(t) PROVE TypeOK'
    <2>1. /\ pc' \in [Threads -> {"new", "loop", "wait", "fetch", "make",
                                  "announce", "ended"}]
      <3>1. \E l \in {"wait", "loop", "fetch"} : pc' = [pc EXCEPT ![t] = l]
        BY <1>8, Zenon DEF PopBlockEmerge, Goto
      <3> QED BY <1>0, <3>1
    <2>2. job' \in [Threads -> [p : Blocks, gen : BOOLEAN]]
      <3>1. CASE UNCHANGED job
        BY <1>0, <3>1
      <3>2. CASE /\ Head(blockqueue[t]) \in Enqueued
                 /\ job' = [job EXCEPT ![t] =
                        [p |-> Head(blockqueue[t]),
                         gen |-> blocks_enqueued[Head(blockqueue[t])].gen]]
        BY <1>0, <3>2 DEF BlockEmergeData
      <3> QED BY <1>8, <3>1, <3>2 DEF PopBlockEmerge
    <2>3. /\ Enqueued' \subseteq Blocks
          /\ blocks_enqueued' \in [Enqueued' -> BlockEmergeData]
          /\ blockqueue' \in [Threads -> Seq(Blocks)]
      <3>1. CASE UNCHANGED queueVars
        BY <1>0, <3>1 DEF queueVars, Enqueued
      <3>2. CASE /\ blockqueue[t] # <<>>
                 /\ blockqueue' = [blockqueue EXCEPT ![t] = Tail(@)]
                 /\ Enqueued' = Enqueued \ {Head(blockqueue[t])}
                 /\ blocks_enqueued' = [b \in Enqueued \ {Head(blockqueue[t])}
                                           |-> blocks_enqueued[b]]
        BY <1>0, <3>2, HeadIsEnqueued
      <3> QED BY <1>0, <1>8, <3>1, <3>2, PopEffect
    <2> QED BY <1>0, <1>8, <2>1, <2>2, <2>3
            DEF PopBlockEmerge, mapVars, clientVars
  <1>9. ASSUME NEW t \in Threads, Wake(t) PROVE TypeOK'
    <2>1. qevent[t] - 1 \in Nat
      BY <1>0, <1>9 DEF Wake
    <2> QED BY <1>0, <1>9, <2>1
            DEF Wake, Goto, queueVars, mapVars, clientVars, Enqueued
  <1>10. ASSUME NEW t \in Threads, Exit(t) PROVE TypeOK'
    BY <1>0, <1>10 DEF Exit, Goto, queueVars, mapVars, clientVars, Enqueued
  <1>11. ASSUME NEW t \in Threads, GetBlockOrStartGen(t) PROVE TypeOK'
    <2>1. /\ pc' \in [Threads -> {"new", "loop", "wait", "fetch", "make",
                                  "announce", "ended"}]
          /\ copy' \in [Threads ->
                         [area : SUBSET Blocks, edited : SUBSET Blocks]]
          /\ modified' \in [Threads -> SUBSET Blocks]
      <3>1. CASE /\ copy' = [copy EXCEPT ![t] =
                                 [area |-> Area(job[t].p),
                                  edited |-> edited \cap Area(job[t].p)]]
                 /\ Goto(t, "make")
                 /\ UNCHANGED modified
        BY <1>0, <3>1, AreaType DEF Goto
      <3>2. CASE /\ modified' = [modified EXCEPT
                                     ![t] = {job[t].p} \cap generated]
                 /\ Goto(t, "announce")
                 /\ UNCHANGED copy
        BY <1>0, <3>2 DEF Goto
      <3> QED BY <1>11, <3>1, <3>2 DEF GetBlockOrStartGen
    <2> QED BY <1>0, <1>11, <2>1
            DEF GetBlockOrStartGen, queueVars, mapVars, clientVars, Enqueued
  <1>12. ASSUME NEW t \in Threads, LoadFails(t) PROVE TypeOK'
    <2>1. NoJob \in [p : Blocks, gen : BOOLEAN]
      BY EmergeConstants DEF NoJob, Blocks
    <2> QED BY <1>0, <1>12, <2>1
            DEF LoadFails, Goto, queueVars, mapVars, clientVars, Enqueued
  <1>13. ASSUME NEW t \in Threads, FinishBlockMake(t) PROVE TypeOK'
    <2>1. /\ copy[t].area \in SUBSET Blocks
          /\ copy[t].edited \in SUBSET Blocks
          /\ Chunk(job[t].p) \in SUBSET Blocks
          /\ NoCopy \in [area : SUBSET Blocks, edited : SUBSET Blocks]
      BY <1>0, AreaType DEF NoCopy
    <2> QED BY <1>0, <1>13, <2>1
            DEF FinishBlockMake, ChangedBlocks, Goto, queueVars, Enqueued
  <1>14. ASSUME NEW t \in Threads, SetBlocksNotSent(t) PROVE TypeOK'
    <2>1. NoJob \in [p : Blocks, gen : BOOLEAN]
      BY EmergeConstants DEF NoJob, Blocks
    <2> QED BY <1>0, <1>14, <2>1
            DEF SetBlocksNotSent, Goto, queueVars, mapVars, Enqueued
  <1>15. CASE UNCHANGED vars
    BY <1>0, <1>15 DEF vars, queueVars, threadVars, mapVars, clientVars,
                Enqueued
  <1> QED BY <1>1, <1>2, <1>3, <1>4, <1>5, <1>6, <1>7, <1>8, <1>9, <1>10,
             <1>11, <1>12, <1>13, <1>14, <1>15 DEF Next, ThreadStep

-----------------------------------------------------------------------------
(* The theorems about the queues. *)

LEMMA InitQueueInv ==
    ASSUME Init PROVE QueueInv
  <1>1. Enqueued = {}
    BY DEF Init, Enqueued
  <1>2. \A t \in Threads : blockqueue[t] = <<>> /\ Len(blockqueue[t]) = 0
    BY DEF Init
  <1>3. InSync
    BY <1>1, <1>2
       DEF InSync, QueuedAreEnqueued, EnqueuedAreQueued, QueuedOnce
  <1>4. PeerCountsExact
    <2>1. \A q : {p \in Enqueued : blocks_enqueued[p].peer_requested = q} = {}
      BY <1>1
    <2> QED BY <2>1, FS_EmptySet DEF PeerCountsExact, Init
  <1>5. TypeOK
    <2>1. blocks_enqueued \in [Enqueued -> BlockEmergeData]
      BY <1>1 DEF Init
    <2>2. /\ NoJob \in [p : Blocks, gen : BOOLEAN]
          /\ NoCopy \in [area : SUBSET Blocks, edited : SUBSET Blocks]
      BY EmergeConstants DEF NoJob, NoCopy, Blocks
    <2>3. generated \subseteq Blocks
      BY AreaType DEF Init
    <2>4. /\ 0 \in 0 .. NThreads
          /\ dtor \in [thread : 0 .. NThreads + 1,
                       step : {"setRun", "signal", "join"}]
      BY EmergeConstants DEF Init
    <2> QED BY <1>1, <2>1, <2>2, <2>3, <2>4 DEF Init, TypeOK
  <1> QED BY <1>3, <1>4, <1>5 DEF QueueInv

LEMMA StepQueueInv ==
    ASSUME QueueInv, [Next]_vars PROVE QueueInv'
  BY SyncStep, CountsStep, TypeStep DEF QueueInv

LEMMA QueueInvAlways == Spec => []QueueInv
  BY InitQueueInv, StepQueueInv, PTL DEF Spec

(***************************************************************************)
(* The variables of the emerge queue, its threads and the map keep their   *)
(* types; in particular peer_queue_count, an unsigned count in the code,   *)
(* does not go below zero.                                                 *)
(***************************************************************************)
THEOREM TypeCorrect == Spec => []TypeOK
  <1>1. QueueInv => TypeOK
    BY DEF QueueInv
  <1> QED BY <1>1, QueueInvAlways, PTL

(***************************************************************************)
(* blocks_enqueued and the queues of all threads agree, however many       *)
(* threads pop while the server thread enqueues.                           *)
(***************************************************************************)
THEOREM MapAndQueuesAgree == Spec => []QueuesInSync
  <1>1. QueueInv => QueuesInSync
    BY InSyncIsQueuesInSync DEF QueueInv
  <1> QED BY <1>1, QueueInvAlways, PTL

\* The count that limits a peer is the number of blocks enqueued for it.
THEOREM CountsAreExact == Spec => []PeerCountsExact
  <1>1. QueueInv => PeerCountsExact
    BY DEF QueueInv
  <1> QED BY <1>1, QueueInvAlways, PTL

-----------------------------------------------------------------------------
(* Waking up. *)

(***************************************************************************)
(* A thread goes to sleep only with an empty queue, and what is put there  *)
(* later is signalled. That the queue is empty when popBlockEmerge returns *)
(* nothing needs the queues in sync with the map.                          *)
(***************************************************************************)
LEMMA WakeupStep ==
    ASSUME QueueInv, NoLostWakeup, [Next]_vars PROVE NoLostWakeup'
  <1>0. /\ TypeOK /\ InSync
        /\ pc \in [Threads -> {"new", "loop", "wait", "fetch", "make",
                               "announce", "ended"}]
        /\ qevent \in [Threads -> Nat]
        /\ blockqueue \in [Threads -> Seq(Blocks)]
        /\ to_signal \in 0 .. NThreads
    BY DEF QueueInv, TypeOK
  <1> SUFFICES ASSUME NEW u \in Threads, pc'[u] = "wait", blockqueue'[u] # <<>>
               PROVE  qevent'[u] > 0 \/ to_signal' = u
    BY DEF NoLostWakeup
  <1> DEFINE Before == pc[u] = "wait" /\ blockqueue[u] # <<>>
  <1>1. Before => qevent[u] > 0 \/ to_signal = u
    BY DEF NoLostWakeup
  <1>2. CASE \E q \in Peers, p \in Blocks, g \in BOOLEAN :
                EnqueueBlockEmerge(q, p, g)
    <2>1. PICK q \in Peers, p \in Blocks, g \in BOOLEAN :
                EnqueueBlockEmerge(q, p, g)
      BY <1>2
    <2>2. UNCHANGED pc /\ UNCHANGED qevent /\ to_signal = 0
      BY <2>1 DEF EnqueueBlockEmerge, threadVars
    <2>3. blockqueue'[u] = blockqueue[u] \/ to_signal' = u
      BY <1>0, <2>1, EnqueueEffect
    <2>4. 0 # u
      BY EmergeConstants DEF Threads
    <2> QED BY <1>1, <2>2, <2>3, <2>4
  <1>3. CASE Signal
    BY <1>0, <1>1, <1>3 DEF Signal, queueVars, threadVars
  <1>4. CASE Trigger
    BY <1>0, <1>1, <1>4 DEF Trigger, queueVars
  <1>5. CASE BeginShutdown \/ \E b \in Blocks : SendBlock(b) \/ Edit(b)
    BY <1>1, <1>5 DEF BeginShutdown, SendBlock, Edit, queueVars, threadVars
  <1>6. ASSUME NEW t \in Threads, StopThread(t)
        PROVE  qevent'[u] > 0 \/ to_signal' = u
    <2>1. UNCHANGED pc /\ UNCHANGED blockqueue /\ UNCHANGED to_signal
      BY <1>6 DEF StopThread, queueVars
    <2>2. qevent' = qevent \/ qevent' = [qevent EXCEPT ![t] = @ + 1]
      BY <1>6, Zenon DEF StopThread
    <2>3. qevent[u] > 0 => qevent'[u] > 0
      <3>1. qevent[u] \in Nat
        BY <1>0
      <3>2. CASE qevent' = qevent
        BY <3>2
      <3>3. CASE qevent' = [qevent EXCEPT ![t] = @ + 1]
        <4>1. qevent'[u] = IF u = t THEN qevent[u] + 1 ELSE qevent[u]
          BY <1>0, <3>3
        <4> QED BY <3>1, <4>1
      <3> QED BY <2>2, <3>2, <3>3
    <2> QED BY <1>1, <2>1, <2>3
  <1>7. ASSUME NEW t \in Threads, PopBlockEmerge(t)
        PROVE  qevent'[u] > 0 \/ to_signal' = u
    <2>1. UNCHANGED qevent /\ UNCHANGED to_signal
      BY <1>7 DEF PopBlockEmerge
    <2>2. CASE t = u
      <3>1. blockqueue[u] # <<>> => Head(blockqueue[u]) \in Enqueued
        BY <1>0, HeadIsEnqueued
      <3>2. CASE blockqueue[u] = <<>>
        BY <1>7, <2>2, <3>2 DEF PopBlockEmerge, queueVars
      <3>3. CASE blockqueue[u] # <<>>
        BY <1>0, <1>7, <2>2, <3>1, <3>3 DEF PopBlockEmerge, Goto
      <3> QED BY <3>2, <3>3
    <2>3. CASE t # u
      <3>1. pc'[u] = pc[u]
        BY <1>0, <1>7, <2>3 DEF PopBlockEmerge, Goto
      <3>2. blockqueue'[u] = blockqueue[u]
        BY <1>0, <1>7, <2>3 DEF PopBlockEmerge, queueVars
      <3> QED BY <1>1, <2>1, <3>1, <3>2
    <2> QED BY <2>2, <2>3
  <1>8. ASSUME NEW t \in Threads, Wake(t)
        PROVE  qevent'[u] > 0 \/ to_signal' = u
    BY <1>0, <1>1, <1>8 DEF Wake, Goto, queueVars
  <1>9. ASSUME NEW t \in Threads,
               \/ Exit(t) \/ GetBlockOrStartGen(t) \/ LoadFails(t)
               \/ FinishBlockMake(t) \/ SetBlocksNotSent(t)
        PROVE  qevent'[u] > 0 \/ to_signal' = u
    <2>1. UNCHANGED qevent /\ UNCHANGED blockqueue /\ UNCHANGED to_signal
      BY <1>9 DEF Exit, GetBlockOrStartGen, LoadFails, FinishBlockMake,
                  SetBlocksNotSent, queueVars
    <2>2. \E l \in {"ended", "make", "announce", "loop"} :
             pc' = [pc EXCEPT ![t] = l]
      BY <1>9, Zenon DEF Exit, GetBlockOrStartGen, LoadFails, FinishBlockMake,
                         SetBlocksNotSent, Goto
    <2>3. pc[u] = "wait"
      BY <1>0, <2>2
    <2> QED BY <1>1, <2>1, <2>3
  <1>10. CASE UNCHANGED vars
    BY <1>1, <1>10 DEF vars, queueVars, threadVars
  <1> QED BY <1>2, <1>3, <1>4, <1>5, <1>6, <1>7, <1>8, <1>9, <1>10
          DEF Next, ThreadStep

(***************************************************************************)
(* No thread sleeps while there is work in its queue, unless a signal is   *)
(* there or about to be given.                                             *)
(***************************************************************************)
THEOREM NoWakeupIsLost == Spec => []NoLostWakeup
  <1>1. Init => NoLostWakeup
    BY DEF Init, NoLostWakeup
  <1>2. QueueInv /\ NoLostWakeup /\ [Next]_vars => NoLostWakeup'
    BY WakeupStep
  <1> QED BY <1>1, <1>2, QueueInvAlways, PTL DEF Spec

-----------------------------------------------------------------------------
(* What clients have. *)

\* A thread has changed blocks to tell of only before SetBlocksNotSent.
ModifiedWhenAnnouncing ==
    \A t \in Threads : pc[t] # "announce" => modified[t] = {}

AnnounceInv == ModifiedWhenAnnouncing /\ ChangesAnnounced

\* The changed blocks are in the thread's list until it has told everyone.
LEMMA AnnounceStep ==
    ASSUME TypeOK, AnnounceInv, [Next]_vars PROVE AnnounceInv'
  <1>0. /\ pc \in [Threads -> {"new", "loop", "wait", "fetch", "make",
                               "announce", "ended"}]
        /\ modified \in [Threads -> SUBSET Blocks]
    BY DEF TypeOK
  <1>1. ASSUME UNCHANGED <<modified, sent, outdated>>,
               \A t \in Threads : pc'[t] # "announce" =>
                  pc[t] # "announce"
        PROVE  AnnounceInv'
    BY <1>1 DEF AnnounceInv, ModifiedWhenAnnouncing, ChangesAnnounced
  <1>2. ASSUME \/ \E q \in Peers, p \in Blocks, g \in BOOLEAN :
                     EnqueueBlockEmerge(q, p, g)
               \/ Signal \/ BeginShutdown
               \/ \E b \in Blocks : Edit(b)
               \/ \E t \in Threads : StopThread(t)
               \/ UNCHANGED vars
        PROVE  AnnounceInv'
    <2>1. UNCHANGED <<pc, modified, sent, outdated>>
      BY <1>2 DEF EnqueueBlockEmerge, Signal, BeginShutdown, Edit, StopThread,
                  threadVars, clientVars, vars
    <2> QED BY <1>1, <2>1
  <1>3. CASE Trigger
    BY <1>0, <1>1, <1>3 DEF Trigger, clientVars
  <1>4. ASSUME NEW b \in Blocks, SendBlock(b) PROVE AnnounceInv'
    BY <1>4 DEF SendBlock, threadVars, AnnounceInv, ModifiedWhenAnnouncing,
                ChangesAnnounced
  <1>5. ASSUME NEW t \in Threads,
               PopBlockEmerge(t) \/ Wake(t) \/ Exit(t)
        PROVE  AnnounceInv'
    <2>1. /\ pc[t] # "announce"
          /\ \E l \in {"loop", "wait", "fetch", "ended"} :
                pc' = [pc EXCEPT ![t] = l]
          /\ UNCHANGED <<modified, sent, outdated>>
      BY <1>5, Zenon DEF PopBlockEmerge, Wake, Exit, Goto, clientVars
    <2> QED BY <1>0, <1>1, <2>1
  <1>6. ASSUME NEW t \in Threads, LoadFails(t) PROVE AnnounceInv'
    <2>1. /\ pc[t] = "fetch"
          /\ pc' = [pc EXCEPT ![t] = "loop"]
          /\ UNCHANGED <<modified, sent, outdated>>
      BY <1>6 DEF LoadFails, Goto, clientVars
    <2> QED BY <1>0, <1>1, <2>1
  <1>7. ASSUME NEW t \in Threads, GetBlockOrStartGen(t) PROVE AnnounceInv'
    <2>1. /\ pc[t] = "fetch"
          /\ \/ pc' = [pc EXCEPT ![t] = "make"] /\ UNCHANGED modified
             \/ /\ pc' = [pc EXCEPT ![t] = "announce"]
                /\ modified' = [modified EXCEPT
                                   ![t] = {job[t].p} \cap generated]
          /\ UNCHANGED <<sent, outdated>>
      BY <1>7 DEF GetBlockOrStartGen, Goto, clientVars
    <2>2. modified[t] = {}
      BY <2>1 DEF AnnounceInv, ModifiedWhenAnnouncing
    <2>3. ModifiedWhenAnnouncing'
      BY <1>0, <2>1 DEF AnnounceInv, ModifiedWhenAnnouncing
    <2>4. \A u \in Threads : modified[u] \subseteq modified'[u]
      BY <1>0, <2>1, <2>2
    <2> QED BY <2>1, <2>3, <2>4 DEF AnnounceInv, ChangesAnnounced
  <1>8. ASSUME NEW t \in Threads, FinishBlockMake(t) PROVE AnnounceInv'
    <2>1. /\ pc[t] = "make"
          /\ pc' = [pc EXCEPT ![t] = "announce"]
          /\ modified' = [modified EXCEPT ![t] = copy[t].area]
          /\ outdated' = outdated \cup (sent \cap copy[t].area)
          /\ sent' = sent
      BY <1>8 DEF FinishBlockMake, ChangedBlocks, Goto
    <2>2. modified[t] = {}
      BY <2>1 DEF AnnounceInv, ModifiedWhenAnnouncing
    <2>3. ModifiedWhenAnnouncing'
      BY <1>0, <2>1 DEF AnnounceInv, ModifiedWhenAnnouncing
    <2>4. /\ \A u \in Threads : modified[u] \subseteq modified'[u]
          /\ modified'[t] = copy[t].area
      BY <1>0, <2>1, <2>2
    <2> QED BY <2>1, <2>3, <2>4 DEF AnnounceInv, ChangesAnnounced
  <1>9. ASSUME NEW t \in Threads, SetBlocksNotSent(t) PROVE AnnounceInv'
    <2>1. /\ pc' = [pc EXCEPT ![t] = "loop"]
          /\ modified' = [modified EXCEPT ![t] = {}]
          /\ sent' = sent \ modified[t]
          /\ outdated' = outdated \ modified[t]
      BY <1>9 DEF SetBlocksNotSent, Goto
    <2>2. ModifiedWhenAnnouncing'
      BY <1>0, <2>1 DEF AnnounceInv, ModifiedWhenAnnouncing
    <2>3. \A u \in Threads : modified[u] \ modified[t] \subseteq modified'[u]
      BY <1>0, <2>1
    <2> QED BY <2>1, <2>2, <2>3 DEF AnnounceInv, ChangesAnnounced
  <1> QED BY <1>2, <1>3, <1>4, <1>5, <1>6, <1>7, <1>8, <1>9 DEF Next, ThreadStep

(***************************************************************************)
(* Whatever the threads generate at the same time, a block that a client   *)
(* was sent and a generation changed is about to be set not sent.          *)
(***************************************************************************)
THEOREM ClientsAreTold == Spec => []ChangesAnnounced
  <1>1. Init => AnnounceInv
    BY DEF Init, AnnounceInv, ModifiedWhenAnnouncing, ChangesAnnounced
  <1>2. QueueInv /\ AnnounceInv /\ [Next]_vars => AnnounceInv'
    BY AnnounceStep DEF QueueInv
  <1>3. AnnounceInv => ChangesAnnounced
    BY DEF AnnounceInv
  <1> QED BY <1>1, <1>2, <1>3, QueueInvAlways, PTL DEF Spec

-----------------------------------------------------------------------------
(* One emerge thread. *)

OneThread == NThreads = 1

\* Only blocks of generated chunks are sent and edited, and a thread makes
\* a chunk of which no block is generated.
ChunksInv ==
    /\ \A b \in Blocks : b \in generated => Chunk(b) \subseteq generated
    /\ sent \subseteq generated
    /\ edited \subseteq generated
    /\ \A t \in Threads : pc[t] = "make" =>
           /\ Chunk(job[t].p) \cap generated = {}
           /\ copy[t].area = Area(job[t].p)
           /\ copy[t].edited \subseteq generated

\* A chunk is the chunk of each of its blocks.
LEMMA ChunkOfMember ==
    ASSUME NEW b \in Blocks, NEW c \in Chunk(b)
    PROVE  b \in Chunk(c) /\ Chunk(c) = Chunk(b)
  BY DEF Chunk

LEMMA ChunksInit ==
    ASSUME Init PROVE ChunksInv
  <1>1. \A t \in Threads : pc[t] = "new"
    BY DEF Init
  <1>2. sent = {} /\ edited = {}
    BY DEF Init
  <1>3. ASSUME NEW b \in Blocks, b \in generated
        PROVE  Chunk(b) \subseteq generated
    <2>1. PICK old \in SUBSET {d \in Blocks : CanMake(d)} :
             generated = UNION {Chunk(d) : d \in old}
      BY DEF Init
    <2>2. PICK d \in old : b \in Chunk(d)
      BY <1>3, <2>1
    <2>3. Chunk(b) = Chunk(d)
      BY <2>2, ChunkOfMember
    <2> QED BY <2>1, <2>2, <2>3
  <1> QED BY <1>1, <1>2, <1>3 DEF ChunksInv

LEMMA ChunksStep ==
    ASSUME OneThread, TypeOK, ChunksInv, [Next]_vars PROVE ChunksInv'
  <1>0. /\ pc \in [Threads -> {"new", "loop", "wait", "fetch", "make",
                               "announce", "ended"}]
        /\ job \in [Threads -> [p : Blocks, gen : BOOLEAN]]
        /\ copy \in [Threads -> [area : SUBSET Blocks, edited : SUBSET Blocks]]
        /\ generated \subseteq Blocks
        /\ Threads = {1}
    BY DEF TypeOK, OneThread, Threads
  <1>1. ASSUME sent' \subseteq generated, edited' \subseteq generated,
               UNCHANGED generated,
               \A t \in Threads : pc'[t] # "make"
        PROVE  ChunksInv'
    BY <1>1 DEF ChunksInv
  <1>2. ASSUME sent' \subseteq generated, edited' \subseteq generated,
               UNCHANGED generated, UNCHANGED <<job, copy>>,
               \A t \in Threads : pc'[t] = "make" => pc[t] = "make"
        PROVE  ChunksInv'
    BY <1>2 DEF ChunksInv
  <1>3. sent \subseteq generated /\ edited \subseteq generated
    BY DEF ChunksInv
  <1>4. ASSUME \/ \E q \in Peers, p \in Blocks, g \in BOOLEAN :
                     EnqueueBlockEmerge(q, p, g)
               \/ Signal \/ BeginShutdown
               \/ \E b \in Blocks : SendBlock(b) \/ Edit(b)
               \/ \E t \in Threads : StopThread(t)
               \/ UNCHANGED vars
        PROVE  ChunksInv'
    <2>1. /\ UNCHANGED <<pc, job, copy, generated>>
          /\ sent' \subseteq generated
          /\ edited' \subseteq generated
      BY <1>3, <1>4
         DEF EnqueueBlockEmerge, Signal, BeginShutdown, SendBlock, Edit,
             StopThread, threadVars, mapVars, clientVars, vars
    <2> QED BY <1>2, <2>1
  <1>5. CASE Trigger
    BY <1>0, <1>2, <1>3, <1>5 DEF Trigger, mapVars, clientVars
  <1>6. ASSUME NEW t \in Threads,
               \/ PopBlockEmerge(t) \/ Wake(t) \/ Exit(t) \/ LoadFails(t)
               \/ SetBlocksNotSent(t)
        PROVE  ChunksInv'
    <2>1. \E l \in {"loop", "wait", "fetch", "ended"} :
             pc' = [pc EXCEPT ![t] = l]
      BY <1>6, Zenon DEF PopBlockEmerge, Wake, Exit, LoadFails,
                         SetBlocksNotSent, Goto
    <2>2. /\ UNCHANGED generated
          /\ UNCHANGED edited
          /\ sent' \subseteq sent
      BY <1>6 DEF PopBlockEmerge, Wake, Exit, LoadFails, SetBlocksNotSent,
                  mapVars, clientVars
    <2>3. \A u \in Threads : pc'[u] # "make"
      BY <1>0, <2>1
    <2> QED BY <1>1, <1>3, <2>2, <2>3
  <1>7. ASSUME NEW t \in Threads, GetBlockOrStartGen(t) PROVE ChunksInv'
    <2>1. UNCHANGED <<job, generated, edited, sent>>
      BY <1>7 DEF GetBlockOrStartGen, mapVars, clientVars
    <2>2. CASE MustGenerate(t) /\ CanMake(job[t].p)
      <3>1. /\ pc' = [pc EXCEPT ![t] = "make"]
            /\ copy' = [copy EXCEPT ![t] =
                           [area |-> Area(job[t].p),
                            edited |-> edited \cap Area(job[t].p)]]
        BY <1>7, <2>2 DEF GetBlockOrStartGen, Goto
      <3>2. job[t].p \in Blocks /\ job[t].p \notin generated
        BY <1>0, <2>2 DEF MustGenerate
      <3>3. Chunk(job[t].p) \cap generated = {}
        <4> SUFFICES ASSUME NEW c \in Chunk(job[t].p), c \in generated
                     PROVE  FALSE
          OBVIOUS
        <4>1. c \in Blocks /\ job[t].p \in Chunk(c)
          BY <1>0, <3>2, ChunkOfMember
        <4> QED BY <3>2, <4>1 DEF ChunksInv
      <3>4. \A u \in Threads : u = t
        BY <1>0
      <3>5. /\ copy'[t].area = Area(job[t].p)
            /\ copy'[t].edited \subseteq generated
        BY <1>0, <1>3, <3>1
      <3> QED BY <1>3, <2>1, <3>3, <3>4, <3>5 DEF ChunksInv
    <2>3. CASE ~(MustGenerate(t) /\ CanMake(job[t].p))
      <3>1. pc' = [pc EXCEPT ![t] = "announce"]
        BY <1>7, <2>3 DEF GetBlockOrStartGen, Goto
      <3>2. \A u \in Threads : pc'[u] # "make"
        BY <1>0, <3>1
      <3> QED BY <1>1, <1>3, <2>1, <3>2
    <2> QED BY <2>2, <2>3
  <1>8. ASSUME NEW t \in Threads, FinishBlockMake(t) PROVE ChunksInv'
    <2>1. /\ pc[t] = "make"
          /\ pc' = [pc EXCEPT ![t] = "announce"]
          /\ generated' = generated \cup Chunk(job[t].p)
          /\ edited' = (edited \ copy[t].area) \cup copy[t].edited
          /\ sent' = sent
      BY <1>8 DEF FinishBlockMake, Goto
    <2>2. \A u \in Threads : pc'[u] # "make"
      BY <1>0, <2>1
    <2>3. ASSUME NEW b \in Blocks, b \in generated'
          PROVE  Chunk(b) \subseteq generated'
      <3>1. CASE b \in generated
        BY <2>1, <3>1 DEF ChunksInv
      <3>2. CASE b \in Chunk(job[t].p)
        <4>1. Chunk(b) = Chunk(job[t].p)
          BY <1>0, <3>2, ChunkOfMember
        <4> QED BY <2>1, <4>1
      <3> QED BY <2>1, <2>3, <3>1, <3>2
    <2>4. copy[t].edited \subseteq generated
      BY <2>1 DEF ChunksInv
    <2> QED BY <1>3, <2>1, <2>2, <2>3, <2>4 DEF ChunksInv
  <1> QED BY <1>4, <1>5, <1>6, <1>7, <1>8 DEF Next, ThreadStep

LEMMA ChunksInvAlways == OneThread /\ Spec => []ChunksInv
  <1>1. OneThread /\ QueueInv /\ ChunksInv /\ [Next]_vars => ChunksInv'
    BY ChunksStep DEF QueueInv
  <1>2. Init => ChunksInv
    BY ChunksInit
  <1>3. OneThread => OneThread'
    BY DEF OneThread
  <1> QED BY <1>1, <1>2, <1>3, QueueInvAlways, PTL DEF Spec

(***************************************************************************)
(* With one emerge thread, no client was sent a block of a chunk that is   *)
(* copied to the map.                                                      *)
(***************************************************************************)
THEOREM OneThreadChunksAreNew == OneThread /\ Spec => ChunkNotSentBefore
  <1>1. ChunksInv =>
           \A t \in Threads :
               FinishBlockMake(t) => Chunk(job[t].p) \cap sent = {}
    BY DEF ChunksInv, FinishBlockMake
  <1>2. ChunksInv /\ [Next]_vars =>
           [\A t \in Threads :
               FinishBlockMake(t) => Chunk(job[t].p) \cap sent = {}]_vars
    BY <1>1
  <1> QED BY <1>2, ChunksInvAlways, PTL DEF ChunkNotSentBefore, Spec

(***************************************************************************)
(* With one emerge thread, a generation takes back edits only in the       *)
(* border around the chunk it makes.                                       *)
(***************************************************************************)
THEOREM OneThreadKeepsEdits == OneThread /\ Spec => OnlyBordersLoseEdits
  <1> DEFINE Lost == \A b \in edited \ edited' : \E t \in Threads :
                 FinishBlockMake(t) /\ b \in Area(job[t].p) \ Chunk(job[t].p)
  <1>1. ASSUME ChunksInv, [Next]_vars PROVE Lost \/ UNCHANGED vars
    <2>1. CASE edited \subseteq edited'
      BY <2>1
    <2>2. ASSUME NEW t \in Threads, FinishBlockMake(t) PROVE Lost
      <3>1. /\ edited' = (edited \ copy[t].area) \cup copy[t].edited
            /\ copy[t].area = Area(job[t].p)
            /\ Chunk(job[t].p) \cap edited = {}
        BY <1>1, <2>2 DEF FinishBlockMake, ChunksInv
      <3>2. \A b \in edited \ edited' : b \in Area(job[t].p) \ Chunk(job[t].p)
        BY <3>1
      <3> QED BY <2>2, <3>2
    <2>3. edited \subseteq edited' \/ \E t \in Threads : FinishBlockMake(t)
      BY <1>1 DEF Next, vars, EnqueueBlockEmerge, Signal, Trigger, SendBlock,
                  Edit, BeginShutdown, StopThread, ThreadStep, LoadFails,
                  PopBlockEmerge, Wake, Exit, GetBlockOrStartGen,
                  SetBlocksNotSent, mapVars
    <2> QED BY <2>1, <2>2, <2>3
  <1>2. ChunksInv /\ [Next]_vars => [Lost]_vars
    BY <1>1
  <1> QED BY <1>2, ChunksInvAlways, PTL DEF OnlyBordersLoseEdits, Spec
=============================================================================
