------------------------ MODULE BlockTransferProofs ------------------------
(***************************************************************************)
(* Proofs about BlockTransfer, for any number of blocks, distances, limits *)
(* and edits: what is in m_blocks_sending is on its way, and what is in    *)
(* m_blocks_sent is at the client as it is, or on its way to be. What the  *)
(* search of GetNextBlocks selects does not matter to these two; that it   *)
(* keeps the throttle is the last part.                                    *)
(***************************************************************************)
EXTENDS BlockTransfer, Loops, FiniteSetTheorems, SequenceTheorems, TLAPS

UpMessage == [type : {"GOTBLOCKS", "DELETEDBLOCKS"}, p : Blocks]

\* The queues between server and client, and what fills them.
QueuesTyped ==
    /\ node \in [Blocks -> Nat]
    /\ nedits \in Nat
    /\ sent \subseteq Blocks
    /\ ch1 \in Seq(Message)
    /\ mesh_in \subseteq Blocks
    /\ mesh_out \in Seq(Blocks)
    /\ up \in Seq(UpMessage)

SendingInv == QueuesTyped /\ SendingOnItsWay

-----------------------------------------------------------------------------
(* The blocks of a set, nearest first. *)

LEMMA BlocksAreFinite ==
    ASSUME NEW S \in SUBSET Blocks
    PROVE  IsFiniteSet(S) /\ Cardinality(S) \in Nat
  <1>1. IsFiniteSet(Blocks)
    BY BlockTransferConstants, FS_Interval DEF Blocks
  <1>2. IsFiniteSet(S)
    BY <1>1, FS_Subset
  <1> QED BY <1>2, FS_CardinalityType

\* The number of smaller ones is a bijection that keeps the order: each member
\* has a place, and each place has a member.
LEMMA NthIsOnto ==
    ASSUME NEW S, \A c \in S : c \in Nat, IsFiniteSet(S)
    PROVE  /\ \A b \in S : \E i \in 1 .. Cardinality(S) : Nth(S, i) = b
           /\ \A i \in 1 .. Cardinality(S) : Nth(S, i) \in S
           /\ \A i, j \in 1 .. Cardinality(S) :
                  i < j => Nth(S, i) < Nth(S, j)
  <1> DEFINE Before(c) == {d \in S : d < c}
             n == Cardinality(S)
             f == [c \in S |-> Cardinality(Before(c)) + 1]
  <1>1. \A c \in S : c \in Nat
    OBVIOUS
  <1>2. \A c \in S : /\ IsFiniteSet(Before(c))
                     /\ Cardinality(Before(c)) \in Nat
    <2> SUFFICES ASSUME NEW c \in S
                 PROVE  /\ IsFiniteSet(Before(c))
                        /\ Cardinality(Before(c)) \in Nat
      OBVIOUS
    <2>1. Before(c) \subseteq S
      OBVIOUS
    <2> QED BY <2>1, FS_Subset, FS_CardinalityType
  <1>3. IsFiniteSet(S) /\ n \in Nat
    BY FS_CardinalityType
  <1>4. \A c, d \in S : c < d =>
            Cardinality(Before(c)) < Cardinality(Before(d))
    <2> SUFFICES ASSUME NEW c \in S, NEW d \in S, c < d
                 PROVE  Cardinality(Before(c)) < Cardinality(Before(d))
      OBVIOUS
    <2>1. Before(c) \subseteq Before(d)
      BY <1>1
    <2>2. c \in Before(d) /\ c \notin Before(c)
      BY <1>1
    <2> HIDE DEF Before
    <2>3. /\ Cardinality(Before(c)) <= Cardinality(Before(d))
          /\ Cardinality(Before(c)) # Cardinality(Before(d))
      BY <1>2, <2>1, <2>2, FS_Subset
    <2> QED BY <1>2, <2>3
  <1>5. \A c \in S : f[c] \in 1 .. n
    <2> SUFFICES ASSUME NEW c \in S
                 PROVE  Cardinality(Before(c)) + 1 \in 1 .. n
      OBVIOUS
    <2>1. Before(c) \subseteq S /\ c \notin Before(c)
      BY <1>1
    <2> HIDE DEF Before
    <2>2. Cardinality(Before(c)) <= n /\ Cardinality(Before(c)) # n
      BY <1>3, <2>1, FS_Subset
    <2> QED BY <1>2, <1>3, <2>2
  <1>6. \A c \in S : f[c] = Cardinality(Before(c)) + 1
    OBVIOUS
  <1>7. \A i : Nth(S, i) = CHOOSE c \in S : Cardinality(Before(c)) = i - 1
    BY DEF Nth
  <1>8. f \in [S -> 1 .. n]
    BY <1>5
  <1> HIDE DEF Before, f, n
  <1>9. /\ \A c, d \in S : c < d => f[c] < f[d]
        /\ \A c, d \in S : f[c] = f[d] => c = d
    BY <1>1, <1>2, <1>4, <1>6
  <1>10. \A i \in 1 .. n : \E c \in S : f[c] = i
    <2>1. f \in Injection(S, 1 .. n)
      BY <1>8, <1>9 DEF Injection, IsInjective
    <2>2. IsFiniteSet(1 .. n) /\ Cardinality(1 .. n) = n
      BY <1>3, FS_Interval
    <2>3. f \in Surjection(S, 1 .. n)
      BY <1>3, <2>1, <2>2, FS_Injection DEF n
    <2> QED BY <2>3 DEF Surjection
  <1>11. \A i \in 1 .. n : Nth(S, i) \in S /\ f[Nth(S, i)] = i
    BY <1>2, <1>3, <1>6, <1>7, <1>10
  <1>12. \A b \in S : Nth(S, f[b]) = b
    BY <1>8, <1>9, <1>11
  <1>13. \A i, j \in 1 .. n : i < j => Nth(S, i) < Nth(S, j)
    <2> SUFFICES ASSUME NEW i \in 1 .. n, NEW j \in 1 .. n, i < j,
                        ~(Nth(S, i) < Nth(S, j))
                 PROVE  FALSE
      OBVIOUS
    <2>1. Nth(S, i) \in Nat /\ Nth(S, j) \in Nat
      BY <1>1, <1>11
    <2>2. Nth(S, j) < Nth(S, i) \/ Nth(S, j) = Nth(S, i)
      BY <2>1
    <2> QED BY <1>3, <1>9, <1>11, <2>2
  <1> QED BY <1>8, <1>11, <1>12, <1>13 DEF n

-----------------------------------------------------------------------------
(* The steps. *)

\* Whatever the search selects, SendBlocks sends the current data of each block
\* it adds to m_blocks_sending, and nothing else.
LEMMA SendBlocksSends ==
    ASSUME QueuesTyped, NEW building, NEW moved, NEW cut,
           SendBlocks(building, moved, cut)
    PROVE  \E chosen \in SUBSET Blocks, data \in Seq(Message) :
               /\ sending' = sending \cup chosen
               /\ ch1' = ch1 \o data
               /\ \A b \in chosen : \E i \in 1 .. Len(data) : data[i].p = b
               /\ \A i \in 1 .. Len(data) : data[i].n = node[data[i].p]
  <1> DEFINE found == Search(IF moved \/ passes = RestartAfter THEN 0
                             ELSE nearest_unsent_d, building)
             chosen == {b \in Blocks : b <= cut /\ b \in found.selected}
             data == [i \in 1 .. Cardinality(chosen) |->
                         [p |-> Nth(chosen, i), n |-> node[Nth(chosen, i)]]]
  <1>1. sending' = sending \cup chosen /\ ch1' = ch1 \o data
    BY DEF SendBlocks
  <1>2. chosen \subseteq Blocks
    OBVIOUS
  <1> HIDE DEF chosen
  <1>3. /\ (\A c \in chosen : c \in Nat) /\ IsFiniteSet(chosen)
        /\ Cardinality(chosen) \in Nat
    BY <1>2, BlocksAreFinite, BlockTransferConstants DEF Blocks
  <1>4. data \in Seq(Message) /\ Len(data) = Cardinality(chosen)
    <2>1. \A i \in 1 .. Cardinality(chosen) : Nth(chosen, i) \in Blocks
      BY <1>2, <1>3, NthIsOnto
    <2>2. \A i \in 1 .. Cardinality(chosen) : data[i] \in Message
      BY <2>1 DEF Message, QueuesTyped
    <2> QED BY <1>3, <2>2
  <1>5. \A b \in chosen : \E i \in 1 .. Len(data) : data[i].p = b
    BY <1>3, <1>4, NthIsOnto
  <1>6. \A i \in 1 .. Len(data) : data[i].n = node[data[i].p]
    BY <1>4
  <1> HIDE DEF data
  <1> QED BY <1>1, <1>2, <1>4, <1>5, <1>6

\* A block that has something in a longer queue is still in transit.
LEMMA SendBlocksKeeps ==
    ASSUME SendingInv, NEW building, NEW moved, NEW cut,
           SendBlocks(building, moved, cut)
    PROVE  SendingInv'
  <1>1. PICK chosen \in SUBSET Blocks, data \in Seq(Message) :
            /\ sending' = sending \cup chosen
            /\ ch1' = ch1 \o data
            /\ \A b \in chosen : \E i \in 1 .. Len(data) : data[i].p = b
    BY SendBlocksSends DEF SendingInv
  <1>2. UNCHANGED <<node, nedits, sent, up, mesh_in, mesh_out>>
    BY DEF SendBlocks, clientVars
  <1>3. /\ ch1' \in Seq(Message)
        /\ \A i \in DOMAIN ch1 : i \in DOMAIN ch1' /\ ch1'[i] = ch1[i]
        /\ \A i \in 1 .. Len(data) : /\ Len(ch1) + i \in DOMAIN ch1'
                                     /\ ch1'[Len(ch1) + i] = data[i]
    BY <1>1 DEF SendingInv, QueuesTyped
  <1>4. QueuesTyped'
    BY <1>2, <1>3 DEF SendingInv, QueuesTyped
  <1>5. \A b \in chosen : InTransit(b)'
    <2> SUFFICES ASSUME NEW b \in chosen PROVE InTransit(b)'
      OBVIOUS
    <2>1. PICK i \in 1 .. Len(data) : data[i].p = b
      BY <1>1
    <2>2. \E j \in DOMAIN ch1' : ch1'[j].p = b
      BY <1>3, <2>1
    <2> QED BY <2>2 DEF InTransit
  <1>6. \A b : InTransit(b) => InTransit(b)'
    BY <1>2, <1>3 DEF InTransit
  <1> QED BY <1>1, <1>4, <1>5, <1>6 DEF SendingInv, SendingOnItsWay

\* GOTBLOCKS and DELETEDBLOCKS take the block out of m_blocks_sending.
LEMMA ServerReceiveKeeps ==
    ASSUME SendingInv, ServerReceive PROVE SendingInv'
  <1>1. up \in Seq(UpMessage) /\ up # <<>>
    BY DEF SendingInv, QueuesTyped, ServerReceive
  <1>2. /\ up' = Tail(up) /\ Head(up) = up[1]
        /\ sending' = sending \ {Head(up).p}
        /\ sent' \subseteq sent \cup {Head(up).p}
        /\ UNCHANGED <<node, nedits, ch1, mesh_in, mesh_out>>
    BY <1>1 DEF ServerReceive, GotBlock, SetBlocksNotSent, clientVars, bounds
  <1>3. /\ up' \in Seq(UpMessage)
        /\ \A i \in DOMAIN up : i # 1 => i - 1 \in DOMAIN up'
                                         /\ up'[i - 1] = up[i]
    BY <1>1, <1>2
  <1>4. \A b : InTransit(b) /\ b # Head(up).p => InTransit(b)'
    <2> SUFFICES ASSUME NEW b, InTransit(b), b # Head(up).p PROVE InTransit(b)'
      OBVIOUS
    <2>1. ASSUME NEW i \in DOMAIN up, up[i] = [type |-> "GOTBLOCKS", p |-> b]
          PROVE  InTransit(b)'
      <3>1. up[i].p = b
        BY <2>1
      <3>2. i # 1
        BY <1>2, <3>1
      <3> QED BY <1>3, <2>1, <3>2 DEF InTransit
    <2> QED BY <1>2, <2>1 DEF InTransit
  <1>5. Head(up).p \in Blocks
    <2>1. up[1] \in UpMessage
      BY <1>1
    <2> QED BY <1>2, <2>1 DEF UpMessage
  <1> QED BY <1>2, <1>3, <1>4, <1>5
          DEF SendingInv, QueuesTyped, SendingOnItsWay

LEMMA ReceiveBlockDataKeeps ==
    ASSUME SendingInv, ReceiveBlockData PROVE SendingInv'
  <1>1. ch1 \in Seq(Message) /\ ch1 # <<>>
    BY DEF SendingInv, QueuesTyped, ReceiveBlockData
  <1>2. /\ ch1' = Tail(ch1) /\ Head(ch1) = ch1[1]
        /\ mesh_in' = mesh_in \cup {Head(ch1).p}
        /\ Head(ch1).p \in Blocks
        /\ UNCHANGED <<node, nedits, sending, sent, up, mesh_out>>
    <2>1. Head(ch1) \in Message /\ Head(ch1) = ch1[1]
      BY <1>1
    <2>2. Head(ch1).p \in Blocks
      BY <2>1 DEF Message
    <2> QED BY <2>1, <2>2 DEF ReceiveBlockData, serverVars, bounds
  <1>3. /\ ch1' \in Seq(Message)
        /\ \A i \in DOMAIN ch1 : i # 1 => i - 1 \in DOMAIN ch1'
                                          /\ ch1'[i - 1] = ch1[i]
    BY <1>1, <1>2
  <1>4. \A b : InTransit(b) => InTransit(b)'
    BY <1>2, <1>3 DEF InTransit
  <1> QED BY <1>2, <1>3, <1>4 DEF SendingInv, QueuesTyped, SendingOnItsWay

LEMMA MeshMadeKeeps ==
    ASSUME SendingInv, NEW b \in Blocks, MeshMade(b) PROVE SendingInv'
  <1>1. /\ mesh_in' = mesh_in \ {b}
        /\ mesh_out' = Append(mesh_out, b)
        /\ UNCHANGED <<node, nedits, sending, sent, ch1, up>>
    BY DEF MeshMade, serverVars, bounds
  <1>2. /\ mesh_out' \in Seq(Blocks)
        /\ Len(mesh_out) + 1 \in DOMAIN mesh_out'
        /\ mesh_out'[Len(mesh_out) + 1] = b
        /\ \A i \in DOMAIN mesh_out : i \in DOMAIN mesh_out'
                                      /\ mesh_out'[i] = mesh_out[i]
    BY <1>1 DEF SendingInv, QueuesTyped
  <1>3. \A c : InTransit(c) => InTransit(c)'
    BY <1>1, <1>2 DEF InTransit
  <1> QED BY <1>1, <1>2, <1>3 DEF SendingInv, QueuesTyped, SendingOnItsWay

\* Every mesh result is acknowledged, also of a block that was unloaded.
LEMMA ReplaceMeshesKeeps ==
    ASSUME SendingInv, ReplaceMeshes PROVE SendingInv'
  <1> DEFINE got == [i \in DOMAIN mesh_out |->
                        [type |-> "GOTBLOCKS", p |-> mesh_out[i]]]
  <1>1. /\ mesh_out' = <<>>
        /\ up' = up \o got
        /\ UNCHANGED <<node, nedits, sending, sent, ch1, mesh_in>>
    BY DEF ReplaceMeshes, serverVars, bounds
  <1>2. mesh_out \in Seq(Blocks) /\ up \in Seq(UpMessage)
    BY DEF SendingInv, QueuesTyped
  <1>3. \A i \in DOMAIN mesh_out : mesh_out[i] \in Blocks
    BY <1>2
  <1>4. got \in Seq(UpMessage) /\ Len(got) = Len(mesh_out)
    <2>1. \A i \in DOMAIN mesh_out : got[i] \in UpMessage
      BY <1>3 DEF UpMessage
    <2>2. DOMAIN mesh_out = 1 .. Len(mesh_out) /\ Len(mesh_out) \in Nat
      BY <1>2
    <2> QED BY <2>1, <2>2
  <1>5. \A i \in DOMAIN mesh_out : /\ i \in 1 .. Len(got)
                                   /\ got[i] = [type |-> "GOTBLOCKS",
                                                p |-> mesh_out[i]]
    BY <1>2, <1>4
  <1> HIDE DEF got
  <1>6. /\ up' \in Seq(UpMessage)
        /\ \A i \in DOMAIN up : i \in DOMAIN up' /\ up'[i] = up[i]
        /\ \A i \in 1 .. Len(got) : /\ Len(up) + i \in DOMAIN up'
                                    /\ up'[Len(up) + i] = got[i]
    BY <1>1, <1>2, <1>4
  <1>7. \A b : InTransit(b) => InTransit(b)'
    BY <1>1, <1>5, <1>6 DEF InTransit
  <1> QED BY <1>1, <1>6, <1>7 DEF SendingInv, QueuesTyped, SendingOnItsWay

LEMMA UnloadKeeps ==
    ASSUME SendingInv, NEW b \in Blocks, Unload(b) PROVE SendingInv'
  <1>1. /\ up' = Append(up, [type |-> "DELETEDBLOCKS", p |-> b])
        /\ UNCHANGED <<node, nedits, sending, sent, ch1, mesh_in, mesh_out>>
    BY DEF Unload, serverVars
  <1>2. [type |-> "DELETEDBLOCKS", p |-> b] \in UpMessage
    BY DEF UpMessage
  <1>3. /\ up' \in Seq(UpMessage)
        /\ \A i \in DOMAIN up : i \in DOMAIN up' /\ up'[i] = up[i]
    BY <1>1, <1>2 DEF SendingInv, QueuesTyped
  <1>4. \A c : InTransit(c) => InTransit(c)'
    BY <1>1, <1>3 DEF InTransit
  <1> QED BY <1>1, <1>3, <1>4 DEF SendingInv, QueuesTyped, SendingOnItsWay

\* The other steps send nothing and receive nothing of it.
LEMMA OthersKeep ==
    ASSUME SendingInv, sending' \subseteq sending,
           node' \in [Blocks -> Nat], nedits' \in Nat, sent' \subseteq Blocks,
           UNCHANGED <<ch1, up, mesh_in, mesh_out>>
    PROVE  SendingInv'
  BY DEF SendingInv, QueuesTyped, SendingOnItsWay, InTransit

LEMMA SendingInvNext == SendingInv /\ [Next]_vars => SendingInv'
  <1> SUFFICES ASSUME SendingInv, [Next]_vars PROVE SendingInv'
    OBVIOUS
  <1> USE DEF SendingInv, QueuesTyped
  <1>1. ASSUME NEW b \in Blocks, Edit(b) PROVE SendingInv'
    BY <1>1, OthersKeep DEF Edit, clientVars
  <1>2. ASSUME NEW far \in SUBSET DOMAIN edit_queue, SendMapEdits(far)
        PROVE  SendingInv'
    BY <1>2, OthersKeep DEF SendMapEdits, SetBlocksNotSent, clientVars, bounds
  <1>3. ASSUME NEW building \in BOOLEAN, NEW moved \in BOOLEAN,
               NEW cut \in -1 .. MaxDist, SendBlocks(building, moved, cut)
        PROVE  SendingInv'
    BY <1>3, SendBlocksKeeps
  <1>4. CASE SendNothing
    BY <1>4, OthersKeep DEF SendNothing, clientVars, bounds
  <1>5. ASSUME NEW b \in Blocks, Emerged(b) PROVE SendingInv'
    BY <1>5, OthersKeep DEF Emerged, SetBlocksNotSent, clientVars, bounds
  <1>6. CASE Turn
    BY <1>6, OthersKeep DEF Turn, clientVars
  <1>7. CASE ServerReceive
    BY <1>7, ServerReceiveKeeps
  <1>8. CASE ReceiveNode
    BY <1>8, OthersKeep DEF ReceiveNode, serverVars, bounds
  <1>9. CASE ReceiveBlockData
    BY <1>9, ReceiveBlockDataKeeps
  <1>10. ASSUME NEW b \in Blocks, MeshMade(b) PROVE SendingInv'
    BY <1>10, MeshMadeKeeps
  <1>11. CASE ReplaceMeshes
    BY <1>11, ReplaceMeshesKeeps
  <1>12. ASSUME NEW b \in Blocks, Unload(b) PROVE SendingInv'
    BY <1>12, UnloadKeeps
  <1>13. CASE UNCHANGED vars
    BY <1>13, OthersKeep DEF vars, serverVars, clientVars, bounds
  <1> QED BY <1>1, <1>2, <1>3, <1>4, <1>5, <1>6, <1>7, <1>8, <1>9, <1>10,
             <1>11, <1>12, <1>13 DEF Next

(***************************************************************************)
(* A block in m_blocks_sending has its data or its GOTBLOCKS under way, so *)
(* no place of the throttle is taken for ever: whatever the search selects *)
(* and in whatever order edits, unloads, generation and messages come. It  *)
(* holds because the client acknowledges every mesh result, and because    *)
(* what takes a GOTBLOCKS away also takes the block out of the set.        *)
(***************************************************************************)
THEOREM NothingSendsForEver == Spec => []SendingOnItsWay
  <1>1. Init => SendingInv
    BY DEF Init, SendingInv, QueuesTyped, SendingOnItsWay
  <1>2. SendingInv => SendingOnItsWay
    BY DEF SendingInv
  <1> QED BY <1>1, <1>2, SendingInvNext, PTL DEF Spec
-----------------------------------------------------------------------------
(* What the client has of a block, and what is on its way to tell. *)

\* There is an event of b in the queue of edits.
Queued(b) == \E i \in DOMAIN edit_queue : edit_queue[i].p = b

\* The last message of b in s says n.
LastSays(s, b, n) ==
    \E i \in DOMAIN s : /\ s[i].p = b
                        /\ s[i].n = n
                        /\ \A j \in DOMAIN s : j > i => s[j].p # b

\* The client has had b: it tells the server, or has told it and has not
\* taken it back.
Told(b) ==
    \/ b \in mesh_in
    \/ \E i \in DOMAIN mesh_out : mesh_out[i] = b
    \/ \E i \in DOMAIN up : up[i] = [type |-> "GOTBLOCKS", p |-> b]
    \/ /\ b \in sent
       /\ \A i \in DOMAIN up : up[i] # [type |-> "DELETEDBLOCKS", p |-> b]

CopyTyped ==
    /\ SendingInv
    /\ edit_queue \in Seq(Message)
    /\ ch0 \in Seq(Message)
    /\ copy \in [Blocks -> Nat]

\* Of the messages that change b the last one tells its content.
LastEventIsCurrent ==
    \A b \in Blocks : Queued(b) => LastSays(edit_queue, b, node[b])

LastChangeIsCurrent ==
    \A b \in Blocks \ crossed :
        ~Queued(b) /\ Changing(b) => LastSays(ch0, b, node[b])

\* The copies of b that are under way are current, or an event will be sent.
DataIsCurrent ==
    \A b \in Blocks \ crossed :
        ~Queued(b) => \A i \in DOMAIN ch1 : ch1[i].p = b => ch1[i].n = node[b]

ToldIsThere == \A b \in Blocks \ crossed : Told(b) => b \in have

ToldIsCurrent ==
    \A b \in Blocks \ crossed :
        Told(b) /\ ~Queued(b) /\ ~Changing(b) => copy[b] = node[b]

CopyInv ==
    /\ CopyTyped
    /\ LastEventIsCurrent
    /\ LastChangeIsCurrent
    /\ DataIsCurrent
    /\ ToldIsThere
    /\ ToldIsCurrent

-----------------------------------------------------------------------------
(* The last message of a block in a queue. *)

LEMMA ConcatMessages ==
    ASSUME NEW s \in Seq(Message), NEW t \in Seq(Message)
    PROVE  /\ s \o t \in Seq(Message)
           /\ \A i \in DOMAIN s : i \in DOMAIN (s \o t) /\ (s \o t)[i] = s[i]
           /\ \A i \in DOMAIN t : /\ Len(s) + i \in DOMAIN (s \o t)
                                  /\ (s \o t)[Len(s) + i] = t[i]
           /\ \A i \in DOMAIN (s \o t) :
                  \/ i \in DOMAIN s
                  \/ /\ i - Len(s) \in DOMAIN t
                     /\ (s \o t)[i] = t[i - Len(s)]
  OBVIOUS

\* What is sent later is what b is changed to.
LEMMA LastSaysLater ==
    ASSUME NEW s \in Seq(Message), NEW t \in Seq(Message), NEW b, NEW n,
           LastSays(t, b, n)
    PROVE  LastSays(s \o t, b, n)
  <1>1. PICK i \in DOMAIN t : /\ t[i].p = b /\ t[i].n = n
                              /\ \A j \in DOMAIN t : j > i => t[j].p # b
    BY DEF LastSays
  <1>2. Len(s) + i \in DOMAIN (s \o t) /\ (s \o t)[Len(s) + i] = t[i]
    BY ConcatMessages
  <1>3. ASSUME NEW j \in DOMAIN (s \o t), j > Len(s) + i
        PROVE  (s \o t)[j].p # b
    <2>1. i \in Nat /\ j \in Nat /\ Len(s) \in Nat /\ DOMAIN s = 1 .. Len(s)
      BY ConcatMessages
    <2>2. j \notin DOMAIN s /\ j - Len(s) > i
      BY <1>3, <2>1
    <2> QED BY <1>1, <2>2, ConcatMessages
  <1> QED BY <1>1, <1>2, <1>3 DEF LastSays

\* Messages of other blocks do not matter to it.
LEMMA LastSaysStill ==
    ASSUME NEW s \in Seq(Message), NEW t \in Seq(Message), NEW b, NEW n,
           LastSays(s, b, n), \A i \in DOMAIN t : t[i].p # b
    PROVE  LastSays(s \o t, b, n)
  <1>1. PICK i \in DOMAIN s : /\ s[i].p = b /\ s[i].n = n
                              /\ \A j \in DOMAIN s : j > i => s[j].p # b
    BY DEF LastSays
  <1>2. i \in DOMAIN (s \o t) /\ (s \o t)[i] = s[i]
    BY ConcatMessages
  <1>3. \A j \in DOMAIN (s \o t) : j > i => (s \o t)[j].p # b
    BY <1>1, ConcatMessages
  <1> QED BY <1>1, <1>2, <1>3 DEF LastSays

LEMMA TailMessages ==
    ASSUME NEW s \in Seq(Message), s # <<>>
    PROVE  /\ Head(s) \in Message /\ Head(s) = s[1] /\ 1 \in DOMAIN s
           /\ Tail(s) \in Seq(Message)
           /\ \A i \in DOMAIN s : i # 1 => i - 1 \in DOMAIN Tail(s)
                                           /\ Tail(s)[i - 1] = s[i]
           /\ \A i \in DOMAIN Tail(s) : i + 1 \in DOMAIN s
                                        /\ Tail(s)[i] = s[i + 1]
  OBVIOUS

\* The last message stays the last, and is received last.
LEMMA LastSaysTail ==
    ASSUME NEW s \in Seq(Message), s # <<>>, NEW b, NEW n, LastSays(s, b, n)
    PROVE  \/ LastSays(Tail(s), b, n)
           \/ /\ Head(s).p = b /\ Head(s).n = n
              /\ \A i \in DOMAIN Tail(s) : Tail(s)[i].p # b
  <1>1. PICK i \in DOMAIN s : /\ s[i].p = b /\ s[i].n = n
                              /\ \A j \in DOMAIN s : j > i => s[j].p # b
    BY DEF LastSays
  <1>2. \A j \in DOMAIN s : j \in Nat
    OBVIOUS
  <1>3. \A j \in DOMAIN Tail(s) : j \in Nat /\ j # 0 /\ j + 1 \in DOMAIN s
                                  /\ Tail(s)[j] = s[j + 1]
    BY TailMessages
  <1>4. CASE i = 1
    <2>1. \A j \in DOMAIN Tail(s) : Tail(s)[j].p # b
      BY <1>1, <1>3, <1>4
    <2> QED BY <1>1, <1>4, <2>1, TailMessages
  <1>5. CASE i # 1
    <2>1. i - 1 \in DOMAIN Tail(s) /\ Tail(s)[i - 1] = s[i]
      BY <1>5, TailMessages
    <2>2. \A j \in DOMAIN Tail(s) : j > i - 1 => Tail(s)[j].p # b
      BY <1>1, <1>2, <1>3
    <2>3. LastSays(Tail(s), b, n)
      BY <1>1, <2>1, <2>2 DEF LastSays
    <2> QED BY <2>3
  <1> QED BY <1>4, <1>5

\* The other events are sent in the order of the queue.
LEMMA EventsButKeepsOrder ==
    ASSUME edit_queue \in Seq(Message), NEW far
    PROVE  /\ EventsBut(far) \in Seq(Message)
           /\ \A i \in DOMAIN EventsBut(far) :
                  \E k \in DOMAIN edit_queue \ far :
                      EventsBut(far)[i] = edit_queue[k]
           /\ \A b, n :
                  (\A k \in far : edit_queue[k].p # b)
                      /\ LastSays(edit_queue, b, n)
                  => LastSays(EventsBut(far), b, n)
  <1> DEFINE kept == DOMAIN edit_queue \ far
             sub == [i \in 1 .. Cardinality(kept) |->
                        edit_queue[Nth(kept, i)]]
  <1>1. EventsBut(far) = sub
    BY DEF EventsBut
  <1>2. /\ DOMAIN edit_queue = 1 .. Len(edit_queue) /\ Len(edit_queue) \in Nat
        /\ \A i \in DOMAIN edit_queue : edit_queue[i] \in Message
    OBVIOUS
  <1>3. /\ \A i \in kept : i \in Nat /\ i \in DOMAIN edit_queue \ far
        /\ \A i \in DOMAIN edit_queue : i \notin far => i \in kept
        /\ kept \subseteq 1 .. Len(edit_queue)
    BY <1>2
  <1> HIDE DEF kept
  <1>4. IsFiniteSet(kept) /\ Cardinality(kept) \in Nat
    <2>1. IsFiniteSet(1 .. Len(edit_queue))
      BY <1>2, FS_Interval
    <2>2. IsFiniteSet(kept)
      BY <1>3, <2>1, FS_Subset
    <2> QED BY <2>2, FS_CardinalityType
  <1>5. /\ \A b \in kept : \E i \in 1 .. Cardinality(kept) : Nth(kept, i) = b
        /\ \A i \in 1 .. Cardinality(kept) : Nth(kept, i) \in kept
        /\ \A i, j \in 1 .. Cardinality(kept) :
               i < j => Nth(kept, i) < Nth(kept, j)
    BY <1>3, <1>4, NthIsOnto
  <1>6. DOMAIN sub = 1 .. Cardinality(kept)
    OBVIOUS
  <1>7. \A i \in DOMAIN sub : sub[i] = edit_queue[Nth(kept, i)]
    OBVIOUS
  <1>8. sub \in Seq(Message)
    <2>1. \A i \in 1 .. Cardinality(kept) : edit_queue[Nth(kept, i)] \in Message
      BY <1>2, <1>3, <1>5
    <2> QED BY <1>4, <2>1
  <1> HIDE DEF sub
  <1>9. \A i \in DOMAIN sub : \E k \in DOMAIN edit_queue \ far :
            sub[i] = edit_queue[k]
    BY <1>3, <1>5, <1>6, <1>7
  <1>10. ASSUME NEW b, NEW n, LastSays(edit_queue, b, n),
                \A k \in far : edit_queue[k].p # b
         PROVE  LastSays(sub, b, n)
    <2>1. PICK k \in DOMAIN edit_queue :
              /\ edit_queue[k].p = b /\ edit_queue[k].n = n
              /\ \A j \in DOMAIN edit_queue : j > k => edit_queue[j].p # b
      BY <1>10 DEF LastSays
    <2>2. k \in kept
      BY <1>3, <1>10, <2>1
    <2>3. PICK i \in 1 .. Cardinality(kept) : Nth(kept, i) = k
      BY <1>5, <2>2
    <2>4. \A j \in DOMAIN sub : j > i => sub[j].p # b
      <3> SUFFICES ASSUME NEW j \in DOMAIN sub, j > i PROVE sub[j].p # b
        OBVIOUS
      <3>1. i < j
        BY <1>4, <1>6
      <3>2. k < Nth(kept, j) /\ Nth(kept, j) \in kept
        BY <1>5, <1>6, <2>3, <3>1
      <3>3. Nth(kept, j) > k /\ Nth(kept, j) \in DOMAIN edit_queue
        BY <1>2, <1>3, <3>2
      <3> QED BY <1>7, <2>1, <3>3
    <2> QED BY <1>6, <1>7, <2>1, <2>3, <2>4 DEF LastSays
  <1> QED BY <1>1, <1>8, <1>9, <1>10

-----------------------------------------------------------------------------
(* The steps that change what the client has, or is told. *)

\* A step that queues no event and takes none, sends only current data, and
\* after which the client tells of no block that it told nothing of before.
LEMMA CopyKept ==
    ASSUME CopyInv, SendingInv',
           UNCHANGED <<node, edit_queue, ch0, copy>>,
           crossed \subseteq crossed',
           \A b \in Blocks \ crossed' :
               Told(b)' => Told(b) /\ (b \in have => b \in have'),
           \A i \in DOMAIN ch1' : \/ ch1'[i].n = node[ch1'[i].p]
                                  \/ \E j \in DOMAIN ch1 : ch1'[i] = ch1[j]
    PROVE  CopyInv'
  <1>1. CopyTyped'
    BY DEF CopyInv, CopyTyped
  <1>2. \A b : (Queued(b)' <=> Queued(b)) /\ (Changing(b)' <=> Changing(b))
    BY DEF Queued, Changing
  <1>3. LastEventIsCurrent' /\ LastChangeIsCurrent'
    BY <1>2 DEF CopyInv, LastEventIsCurrent, LastChangeIsCurrent, LastSays
  <1>4. DataIsCurrent'
    BY <1>2 DEF CopyInv, DataIsCurrent
  <1>5. ToldIsThere' /\ ToldIsCurrent'
    BY <1>2 DEF CopyInv, ToldIsThere, ToldIsCurrent
  <1> QED BY <1>1, <1>3, <1>4, <1>5 DEF CopyInv

\* The event of an edit is queued with it.
LEMMA EditKeepsCopy ==
    ASSUME CopyInv, SendingInv', NEW b \in Blocks, Edit(b) PROVE CopyInv'
  <1> DEFINE e == [p |-> b, n |-> nedits + 1]
  <1>1. /\ edit_queue' = Append(edit_queue, e)
        /\ node' = [node EXCEPT ![b] = nedits + 1]
        /\ UNCHANGED <<sent, ch0, ch1, up, have, copy, mesh_in, mesh_out,
                       crossed>>
    BY DEF Edit, clientVars
  <1>2. /\ edit_queue \in Seq(Message) /\ e \in Message
        /\ node \in [Blocks -> Nat]
    BY DEF CopyInv, CopyTyped, SendingInv, QueuesTyped, Message
  <1>3. e.p = b /\ e.n = nedits + 1
    OBVIOUS
  <1>4. node'[b] = nedits + 1 /\ \A c \in Blocks : c # b => node'[c] = node[c]
    BY <1>1, <1>2
  <1> HIDE DEF e
  <1>5. /\ edit_queue' \in Seq(Message)
        /\ \A i \in DOMAIN edit_queue : /\ i \in DOMAIN edit_queue'
                                        /\ edit_queue'[i] = edit_queue[i]
        /\ Len(edit_queue) + 1 \in DOMAIN edit_queue'
        /\ edit_queue'[Len(edit_queue) + 1] = e
        /\ \A i \in DOMAIN edit_queue' : i \in DOMAIN edit_queue
                                         \/ i = Len(edit_queue) + 1
        /\ \A i \in DOMAIN edit_queue' : ~(i > Len(edit_queue) + 1)
    BY <1>1, <1>2
  <1>6. CopyTyped'
    BY <1>1, <1>5 DEF CopyInv, CopyTyped
  <1>7. Queued(b)' /\ LastSays(edit_queue, b, node[b])'
    BY <1>3, <1>4, <1>5 DEF Queued, LastSays
  <1>8. ASSUME NEW c \in Blocks, c # b
        PROVE  /\ Queued(c)' <=> Queued(c)
               /\ Queued(c) => LastSays(edit_queue, c, node[c])'
    <2>1. Queued(c)' <=> Queued(c)
      BY <1>3, <1>5, <1>8 DEF Queued
    <2>2. ASSUME Queued(c) PROVE LastSays(edit_queue, c, node[c])'
      <3>1. PICK i \in DOMAIN edit_queue :
                /\ edit_queue[i].p = c /\ edit_queue[i].n = node[c]
                /\ \A j \in DOMAIN edit_queue : j > i => edit_queue[j].p # c
        BY <2>2 DEF CopyInv, LastEventIsCurrent, LastSays
      <3>2. \A j \in DOMAIN edit_queue' : j > i => edit_queue'[j].p # c
        BY <1>3, <1>5, <1>8, <3>1
      <3>3. i \in DOMAIN edit_queue' /\ edit_queue'[i] = edit_queue[i]
        BY <1>5
      <3> QED BY <1>4, <1>8, <3>1, <3>2, <3>3 DEF LastSays
    <2> QED BY <2>1, <2>2
  <1>9. LastEventIsCurrent'
    BY <1>7, <1>8 DEF LastEventIsCurrent
  <1>10. \A c : (Changing(c)' <=> Changing(c)) /\ (Told(c)' <=> Told(c))
    BY <1>1 DEF Changing, Told
  <1>11. LastChangeIsCurrent'
    BY <1>1, <1>4, <1>7, <1>8, <1>10
       DEF CopyInv, LastChangeIsCurrent, LastSays
  <1>12. DataIsCurrent'
    BY <1>1, <1>4, <1>7, <1>8 DEF CopyInv, DataIsCurrent
  <1>13. ToldIsThere' /\ ToldIsCurrent'
    BY <1>1, <1>4, <1>7, <1>8, <1>10 DEF CopyInv, ToldIsThere, ToldIsCurrent
  <1> QED BY <1>6, <1>9, <1>11, <1>12, <1>13 DEF CopyInv

\* A block with an event in the queue has no copy under way, or is crossed: the
\* event is sent last of all, or the block is not m_blocks_sent any more.
LEMMA SendMapEditsKeepsCopy ==
    ASSUME CopyInv, SendingInv', NEW far \in SUBSET DOMAIN edit_queue,
           SendMapEdits(far)
    PROVE  CopyInv'
  <1> DEFINE near == EventsBut(far)
             changed == {edit_queue[i].p : i \in DOMAIN edit_queue}
             unsent  == {edit_queue[i].p : i \in far}
             told    == {edit_queue[i].p : i \in DOMAIN edit_queue \ far}
  <1>1. /\ ch0' = ch0 \o near
        /\ edit_queue' = <<>>
        /\ sent' = sent \ unsent
        /\ crossed' = crossed \cup {b \in changed : InTransit(b)}
                          \cup {b \in unsent : Changing(b) \/ b \in told}
        /\ UNCHANGED <<node, ch1, up, have, copy, mesh_in, mesh_out>>
    BY DEF SendMapEdits, SetBlocksNotSent, clientVars
  <1>2. edit_queue \in Seq(Message) /\ ch0 \in Seq(Message)
    BY DEF CopyInv, CopyTyped
  <1>3. /\ near \in Seq(Message)
        /\ \A i \in DOMAIN near : near[i].p \in told
        /\ \A b, n : b \notin unsent /\ LastSays(edit_queue, b, n)
                         => LastSays(near, b, n)
    <2>1. \A b : b \notin unsent => \A k \in far : edit_queue[k].p # b
      OBVIOUS
    <2>2. \A k \in DOMAIN edit_queue \ far : edit_queue[k].p \in told
      OBVIOUS
    <2> HIDE DEF unsent, told
    <2> QED BY <1>2, <2>1, <2>2, EventsButKeepsOrder
  <1>4. /\ \A b : Queued(b) <=> b \in changed
        /\ unsent \subseteq changed /\ told \subseteq changed
    BY DEF Queued
  <1> HIDE DEF near, changed, unsent, told
  <1>5. \A b : ~Queued(b)'
    BY <1>1 DEF Queued
  <1>6. /\ ch0' \in Seq(Message)
        /\ \A i \in DOMAIN ch0 : i \in DOMAIN ch0' /\ ch0'[i] = ch0[i]
        /\ \A i \in DOMAIN near : /\ Len(ch0) + i \in DOMAIN ch0'
                                  /\ ch0'[Len(ch0) + i] = near[i]
        /\ \A i \in DOMAIN ch0' : \/ i \in DOMAIN ch0
                                  \/ /\ i - Len(ch0) \in DOMAIN near
                                     /\ ch0'[i] = near[i - Len(ch0)]
    BY <1>1, <1>2, <1>3, ConcatMessages
  <1>7. CopyTyped'
    BY <1>1, <1>6 DEF CopyInv, CopyTyped
  <1>8. LastEventIsCurrent'
    BY <1>5 DEF LastEventIsCurrent
  <1>9. \A b \in Blocks \ crossed' :
            /\ b \notin crossed
            /\ Queued(b) => ~InTransit(b)
            /\ b \in unsent => Queued(b) /\ ~Changing(b) /\ b \notin told
    BY <1>1, <1>4
  \* An event that is sent is the last word; one that is not sent has nothing
  \* to follow.
  <1>10. ASSUME NEW b \in Blocks \ crossed', Changing(b)'
         PROVE  LastSays(ch0, b, node[b])'
    <2>1. CASE b \in unsent
      <3>1. PICK i \in DOMAIN ch0' : ch0'[i].p = b
        BY <1>10 DEF Changing
      <3>2. i \in DOMAIN ch0
        BY <1>3, <1>6, <1>9, <2>1, <3>1
      <3>3. Changing(b)
        BY <1>6, <3>1, <3>2 DEF Changing
      <3> QED BY <1>9, <2>1, <3>3
    <2>2. CASE b \notin unsent /\ Queued(b)
      <3>1. LastSays(near, b, node[b])
        BY <1>3, <2>2 DEF CopyInv, LastEventIsCurrent
      <3>2. LastSays(ch0 \o near, b, node[b])
        BY <1>2, <1>3, <3>1, LastSaysLater
      <3> QED BY <1>1, <3>2 DEF LastSays
    <2>3. CASE b \notin unsent /\ ~Queued(b)
      <3>1. \A i \in DOMAIN near : near[i].p # b
        BY <1>3, <1>4, <2>3
      <3>2. Changing(b)
        BY <1>6, <1>10, <3>1 DEF Changing
      <3>3. LastSays(ch0, b, node[b])
        BY <1>9, <2>3, <3>2 DEF CopyInv, LastChangeIsCurrent
      <3>4. LastSays(ch0 \o near, b, node[b])
        BY <1>2, <1>3, <3>1, <3>3, LastSaysStill
      <3> QED BY <1>1, <3>4 DEF LastSays
    <2> QED BY <2>1, <2>2, <2>3
  <1>11. LastChangeIsCurrent'
    BY <1>10 DEF LastChangeIsCurrent
  <1>12. DataIsCurrent'
    BY <1>1, <1>9 DEF CopyInv, DataIsCurrent, InTransit
  <1>13. \A b \in Blocks \ crossed' : Told(b)' => Told(b) /\ b \notin unsent
    BY <1>1, <1>9 DEF Told, InTransit
  <1>14. ToldIsThere'
    BY <1>1, <1>9, <1>13 DEF CopyInv, ToldIsThere
  <1>15. ASSUME NEW b \in Blocks \ crossed', Told(b)', ~Changing(b)'
         PROVE  ~Queued(b) /\ ~Changing(b)
    <2>1. ~Changing(b)
      BY <1>6, <1>15 DEF Changing
    <2>2. ASSUME Queued(b) PROVE FALSE
      <3>1. LastSays(near, b, node[b])
        BY <1>3, <1>13, <1>15, <2>2 DEF CopyInv, LastEventIsCurrent
      <3>2. \E i \in DOMAIN near : near[i].p = b
        BY <3>1 DEF LastSays
      <3> QED BY <1>6, <1>15, <3>2 DEF Changing
    <2> QED BY <2>1, <2>2
  <1>16. ToldIsCurrent'
    BY <1>1, <1>9, <1>13, <1>15 DEF CopyInv, ToldIsCurrent
  <1> QED BY <1>7, <1>8, <1>11, <1>12, <1>14, <1>16 DEF CopyInv
\* The last change of a block that is there makes it current.
LEMMA ReceiveNodeKeepsCopy ==
    ASSUME CopyInv, SendingInv', ReceiveNode PROVE CopyInv'
  <1> DEFINE m == Head(ch0)
  <1>1. /\ ch0 # <<>> /\ ch0' = Tail(ch0)
        /\ copy' = IF m.p \in have THEN [copy EXCEPT ![m.p] = m.n] ELSE copy
        /\ UNCHANGED <<node, edit_queue, sent, ch1, up, have, mesh_in,
                       mesh_out, crossed>>
    BY DEF ReceiveNode, serverVars
  <1>2. ch0 \in Seq(Message) /\ copy \in [Blocks -> Nat]
    BY DEF CopyInv, CopyTyped
  <1>3. /\ m \in Message /\ m = ch0[1] /\ 1 \in DOMAIN ch0
        /\ ch0' \in Seq(Message)
        /\ \A i \in DOMAIN ch0 : i # 1 => i - 1 \in DOMAIN ch0'
                                          /\ ch0'[i - 1] = ch0[i]
        /\ \A i \in DOMAIN ch0' : i + 1 \in DOMAIN ch0
                                  /\ ch0'[i] = ch0[i + 1]
    BY <1>1, <1>2, TailMessages
  <1> HIDE DEF m
  <1>4. m.p \in Blocks /\ m.n \in Nat
    BY <1>3 DEF Message
  <1>5. CopyTyped'
    BY <1>1, <1>2, <1>3, <1>4 DEF CopyInv, CopyTyped
  <1>6. \A b : /\ Queued(b)' <=> Queued(b)
               /\ Told(b)' <=> Told(b)
               /\ Changing(b)' => Changing(b)
    BY <1>1, <1>3 DEF Queued, Told, Changing
  <1>7. LastEventIsCurrent'
    BY <1>1, <1>6 DEF CopyInv, LastEventIsCurrent, LastSays
  <1>8. ASSUME NEW b \in Blocks \ crossed, ~Queued(b), Changing(b)
        PROVE  \/ LastSays(ch0', b, node[b])
               \/ m.p = b /\ m.n = node[b] /\ ~Changing(b)'
    <2>1. LastSays(ch0, b, node[b])
      BY <1>8 DEF CopyInv, LastChangeIsCurrent
    <2>2. \/ LastSays(ch0', b, node[b])
          \/ /\ m.p = b /\ m.n = node[b]
             /\ \A i \in DOMAIN ch0' : ch0'[i].p # b
      BY <1>1, <1>2, <2>1, LastSaysTail DEF m
    <2> QED BY <2>2 DEF Changing
  <1>9. LastChangeIsCurrent'
    BY <1>1, <1>6, <1>8 DEF LastChangeIsCurrent, LastSays
  <1>10. DataIsCurrent' /\ ToldIsThere'
    BY <1>1, <1>6 DEF CopyInv, DataIsCurrent, ToldIsThere
  <1>11. ASSUME NEW b \in Blocks \ crossed, Told(b), ~Queued(b), ~Changing(b)'
         PROVE  copy'[b] = node[b]
    <2>1. b \in have
      BY <1>11 DEF CopyInv, ToldIsThere
    <2>2. CASE m.p = b
      <3>1. Changing(b)
        BY <1>3, <2>2 DEF Changing
      <3>2. ~LastSays(ch0', b, node[b])
        BY <1>11 DEF LastSays, Changing
      <3>3. m.n = node[b]
        BY <1>8, <1>11, <3>1, <3>2
      <3> QED BY <1>1, <1>2, <2>1, <2>2, <3>3
    <2>3. CASE m.p # b
      <3>1. ASSUME Changing(b) PROVE FALSE
        <4>1. ~LastSays(ch0', b, node[b])
          BY <1>11 DEF LastSays, Changing
        <4> QED BY <1>8, <1>11, <2>3, <3>1, <4>1
      <3>2. copy[b] = node[b]
        BY <1>11, <3>1 DEF CopyInv, ToldIsCurrent
      <3> QED BY <1>1, <1>2, <2>3, <3>2
    <2> QED BY <2>2, <2>3
  <1>12. ToldIsCurrent'
    BY <1>1, <1>6, <1>11 DEF ToldIsCurrent
  <1> QED BY <1>5, <1>7, <1>9, <1>10, <1>12 DEF CopyInv

\* The data of a block that is not crossed is current when it arrives.
LEMMA ReceiveBlockDataKeepsCopy ==
    ASSUME CopyInv, SendingInv', ReceiveBlockData PROVE CopyInv'
  <1> DEFINE m == Head(ch1)
  <1>1. /\ ch1 # <<>> /\ ch1' = Tail(ch1)
        /\ have' = have \cup {m.p}
        /\ copy' = [copy EXCEPT ![m.p] = m.n]
        /\ mesh_in' = mesh_in \cup {m.p}
        /\ UNCHANGED <<node, edit_queue, sent, ch0, up, mesh_out, crossed>>
    BY DEF ReceiveBlockData, serverVars
  <1>2. ch1 \in Seq(Message) /\ copy \in [Blocks -> Nat]
    BY DEF CopyInv, CopyTyped, SendingInv, QueuesTyped
  <1>3. /\ m \in Message /\ m = ch1[1] /\ 1 \in DOMAIN ch1
        /\ \A i \in DOMAIN ch1' : i + 1 \in DOMAIN ch1
                                  /\ ch1'[i] = ch1[i + 1]
    BY <1>1, <1>2, TailMessages
  <1> HIDE DEF m
  <1>4. m.p \in Blocks /\ m.n \in Nat
    BY <1>3 DEF Message
  <1>5. CopyTyped'
    BY <1>1, <1>2, <1>4 DEF CopyInv, CopyTyped
  <1>6. \A b : /\ Queued(b)' <=> Queued(b)
               /\ Changing(b)' <=> Changing(b)
               /\ Told(b)' => Told(b) \/ b = m.p
    BY <1>1 DEF Queued, Told, Changing
  <1>7. LastEventIsCurrent' /\ LastChangeIsCurrent'
    BY <1>1, <1>6
       DEF CopyInv, LastEventIsCurrent, LastChangeIsCurrent, LastSays
  <1>8. DataIsCurrent'
    BY <1>1, <1>3, <1>6 DEF CopyInv, DataIsCurrent
  <1>9. ToldIsThere'
    BY <1>1, <1>6 DEF CopyInv, ToldIsThere
  <1>10. m.p \notin crossed /\ ~Queued(m.p) => m.n = node[m.p]
    BY <1>3, <1>4 DEF CopyInv, DataIsCurrent
  <1>11. \A b \in Blocks : copy'[b] = IF b = m.p THEN m.n ELSE copy[b]
    BY <1>1, <1>2
  <1>12. ToldIsCurrent'
    BY <1>1, <1>6, <1>10, <1>11 DEF CopyInv, ToldIsCurrent
  <1> QED BY <1>5, <1>7, <1>8, <1>9, <1>12 DEF CopyInv

-----------------------------------------------------------------------------
(* The steps of CopyKept. *)

LEMMA SendBlocksKeepsCopy ==
    ASSUME CopyInv, SendingInv', NEW building, NEW moved, NEW cut,
           SendBlocks(building, moved, cut)
    PROVE  CopyInv'
  <1>1. QueuesTyped
    BY DEF CopyInv, CopyTyped, SendingInv
  <1>2. PICK chosen \in SUBSET Blocks, data \in Seq(Message) :
            /\ ch1' = ch1 \o data
            /\ \A i \in 1 .. Len(data) : data[i].n = node[data[i].p]
    BY <1>1, SendBlocksSends
  <1>3. /\ DOMAIN data = 1 .. Len(data) /\ ch1 \in Seq(Message)
        /\ \A i \in DOMAIN ch1 : ch1'[i] = ch1[i]
        /\ \A i \in DOMAIN ch1' : \/ i \in DOMAIN ch1
                                  \/ /\ i - Len(ch1) \in DOMAIN data
                                     /\ ch1'[i] = data[i - Len(ch1)]
    BY <1>1, <1>2, ConcatMessages DEF QueuesTyped
  <1>4. \A i \in DOMAIN ch1' : \/ ch1'[i].n = node[ch1'[i].p]
                               \/ \E j \in DOMAIN ch1 : ch1'[i] = ch1[j]
    BY <1>2, <1>3
  <1>5. UNCHANGED <<node, edit_queue, sent, ch0, up, have, copy, mesh_in,
                    mesh_out, crossed>>
    BY DEF SendBlocks, clientVars
  <1>6. \A b : Told(b)' <=> Told(b)
    BY <1>5 DEF Told
  <1> QED BY <1>4, <1>5, <1>6, CopyKept

\* GOTBLOCKS makes of what is told a block in m_blocks_sent, and DELETEDBLOCKS
\* takes it out.
LEMMA ServerReceiveKeepsCopy ==
    ASSUME CopyInv, SendingInv', ServerReceive PROVE CopyInv'
  <1>1. up \in Seq(UpMessage) /\ up # <<>>
    BY DEF CopyInv, CopyTyped, SendingInv, QueuesTyped, ServerReceive
  <1>2. /\ up' = Tail(up) /\ Head(up) = up[1] /\ 1 \in DOMAIN up
        /\ Head(up).type = "GOTBLOCKS" => sent' = sent \cup {Head(up).p}
        /\ Head(up).type # "GOTBLOCKS" => sent' = sent \ {Head(up).p}
        /\ UNCHANGED <<node, edit_queue, ch0, ch1, have, copy, mesh_in,
                       mesh_out, crossed>>
    BY <1>1 DEF ServerReceive, GotBlock, SetBlocksNotSent, clientVars, bounds
  <1>3. /\ \A i \in DOMAIN up' : i + 1 \in DOMAIN up /\ up'[i] = up[i + 1]
        /\ \A i \in DOMAIN up : i # 1 => i - 1 \in DOMAIN up'
                                         /\ up'[i - 1] = up[i]
    BY <1>1, <1>2
  <1>4. /\ up[1] = [type |-> up[1].type, p |-> up[1].p]
        /\ up[1].type \in {"GOTBLOCKS", "DELETEDBLOCKS"}
    <2>1. up[1] \in UpMessage
      BY <1>1
    <2> QED BY <2>1 DEF UpMessage
  <1>5. ASSUME NEW b, Told(b)' PROVE Told(b)
    <2>1. CASE \E i \in DOMAIN up' : up'[i] = [type |-> "GOTBLOCKS", p |-> b]
      BY <1>3, <2>1 DEF Told
    <2>2. CASE /\ b \in sent'
               /\ \A i \in DOMAIN up' :
                      up'[i] # [type |-> "DELETEDBLOCKS", p |-> b]
      <3>1. CASE up[1].p = b
        <4>1. up[1].type = "GOTBLOCKS"
          BY <1>2, <2>2, <3>1
        <4> QED BY <1>2, <1>4, <3>1, <4>1 DEF Told
      <3>2. CASE up[1].p # b
        <4>1. b \in sent
          BY <1>2, <2>2, <3>2
        <4>2. up[1] # [type |-> "DELETEDBLOCKS", p |-> b]
          BY <3>2
        <4>3. \A i \in DOMAIN up : up[i] # [type |-> "DELETEDBLOCKS", p |-> b]
          BY <1>3, <2>2, <4>2
        <4> QED BY <4>1, <4>3 DEF Told
      <3> QED BY <3>1, <3>2
    <2>3. CASE b \in mesh_in' \/ \E i \in DOMAIN mesh_out' : mesh_out'[i] = b
      BY <1>2, <2>3 DEF Told
    <2> QED BY <1>5, <2>1, <2>2, <2>3 DEF Told
  <1> QED BY <1>2, <1>5, CopyKept

LEMMA MeshMadeKeepsCopy ==
    ASSUME CopyInv, SendingInv', NEW b \in Blocks, MeshMade(b) PROVE CopyInv'
  <1>1. /\ b \in mesh_in
        /\ mesh_in' = mesh_in \ {b}
        /\ mesh_out' = Append(mesh_out, b)
        /\ UNCHANGED <<node, edit_queue, sent, ch0, ch1, up, have, copy,
                       crossed>>
    BY DEF MeshMade, serverVars
  <1>2. \A i \in DOMAIN mesh_out' : \/ mesh_out'[i] = b
                                    \/ i \in DOMAIN mesh_out
                                       /\ mesh_out'[i] = mesh_out[i]
    BY <1>1 DEF CopyInv, CopyTyped, SendingInv, QueuesTyped
  <1>3. \A c : Told(c)' => Told(c)
    BY <1>1, <1>2 DEF Told
  <1> QED BY <1>1, <1>3, CopyKept

LEMMA ReplaceMeshesKeepsCopy ==
    ASSUME CopyInv, SendingInv', ReplaceMeshes PROVE CopyInv'
  <1> DEFINE got == [i \in DOMAIN mesh_out |->
                        [type |-> "GOTBLOCKS", p |-> mesh_out[i]]]
  <1>1. /\ mesh_out' = <<>>
        /\ up' = up \o got
        /\ UNCHANGED <<node, edit_queue, sent, ch0, ch1, have, copy, mesh_in,
                       crossed>>
    BY DEF ReplaceMeshes, serverVars
  <1>2. mesh_out \in Seq(Blocks) /\ up \in Seq(UpMessage)
    BY DEF CopyInv, CopyTyped, SendingInv, QueuesTyped
  <1>3. got \in Seq(UpMessage) /\ DOMAIN got = DOMAIN mesh_out
    <2>1. \A i \in DOMAIN mesh_out : mesh_out[i] \in Blocks
      BY <1>2
    <2>2. \A i \in DOMAIN mesh_out : got[i] \in UpMessage
      BY <2>1 DEF UpMessage
    <2>3. DOMAIN mesh_out = 1 .. Len(mesh_out) /\ Len(mesh_out) \in Nat
      BY <1>2
    <2> QED BY <2>2, <2>3
  <1>4. \A i \in DOMAIN got :
            got[i] = [type |-> "GOTBLOCKS", p |-> mesh_out[i]]
    OBVIOUS
  <1> HIDE DEF got
  <1>5. /\ \A i \in DOMAIN up : i \in DOMAIN up' /\ up'[i] = up[i]
        /\ \A i \in DOMAIN up' : \/ i \in DOMAIN up
                                 \/ /\ i - Len(up) \in DOMAIN got
                                    /\ up'[i] = got[i - Len(up)]
    BY <1>1, <1>2, <1>3
  <1>6. ASSUME NEW b, Told(b)' PROVE Told(b)
    <2>1. CASE \E i \in DOMAIN up' : up'[i] = [type |-> "GOTBLOCKS", p |-> b]
      <3>1. PICK i \in DOMAIN up' : up'[i] = [type |-> "GOTBLOCKS", p |-> b]
        BY <2>1
      <3>2. CASE i \in DOMAIN up
        BY <1>5, <3>1, <3>2 DEF Told
      <3>3. CASE i - Len(up) \in DOMAIN got /\ up'[i] = got[i - Len(up)]
        <4>1. mesh_out[i - Len(up)] = b
          BY <1>4, <3>1, <3>3
        <4> QED BY <1>3, <3>3, <4>1 DEF Told
      <3> QED BY <1>5, <3>2, <3>3
    <2>2. CASE b \in sent' /\ \A i \in DOMAIN up' :
                  up'[i] # [type |-> "DELETEDBLOCKS", p |-> b]
      BY <1>1, <1>5, <2>2 DEF Told
    <2>3. CASE b \in mesh_in' \/ \E i \in DOMAIN mesh_out' : mesh_out'[i] = b
      BY <1>1, <2>3 DEF Told
    <2> QED BY <1>6, <2>1, <2>2, <2>3 DEF Told
  <1> QED BY <1>1, <1>6, CopyKept

\* DELETEDBLOCKS takes back what was told, unless the two cross.
LEMMA UnloadKeepsCopy ==
    ASSUME CopyInv, SendingInv', NEW b \in Blocks, Unload(b) PROVE CopyInv'
  <1> DEFINE deleted == [type |-> "DELETEDBLOCKS", p |-> b]
  <1>1. /\ have' = have \ {b}
        /\ up' = Append(up, deleted)
        /\ crossed' = IF InTransit(b) THEN crossed \cup {b} ELSE crossed
        /\ UNCHANGED <<node, edit_queue, sent, ch0, ch1, copy, mesh_in,
                       mesh_out>>
    BY DEF Unload, serverVars
  <1>2. /\ \A i \in DOMAIN up : i \in DOMAIN up' /\ up'[i] = up[i]
        /\ Len(up) + 1 \in DOMAIN up' /\ up'[Len(up) + 1] = deleted
        /\ \A i \in DOMAIN up' : i \in DOMAIN up \/ up'[i] = deleted
    <2>1. up \in Seq(UpMessage) /\ deleted \in UpMessage
      BY DEF CopyInv, CopyTyped, SendingInv, QueuesTyped, UpMessage
    <2> QED BY <1>1, <2>1
  <1>3. deleted.type # "GOTBLOCKS"
    OBVIOUS
  <1>4. \A c : deleted # [type |-> "GOTBLOCKS", p |-> c]
    OBVIOUS
  <1>5. ASSUME NEW c, Told(c)' PROVE Told(c)
    <2>1. CASE \E i \in DOMAIN up' : up'[i] = [type |-> "GOTBLOCKS", p |-> c]
      BY <1>2, <1>4, <2>1 DEF Told
    <2>2. CASE c \in sent' /\ \A i \in DOMAIN up' :
                  up'[i] # [type |-> "DELETEDBLOCKS", p |-> c]
      BY <1>1, <1>2, <2>2 DEF Told
    <2>3. CASE c \in mesh_in' \/ \E i \in DOMAIN mesh_out' : mesh_out'[i] = c
      BY <1>1, <2>3 DEF Told
    <2> QED BY <1>5, <2>1, <2>2, <2>3 DEF Told
  <1>6. b \notin crossed' => ~Told(b)'
    <2> SUFFICES ASSUME b \notin crossed', Told(b)' PROVE FALSE
      OBVIOUS
    <2>1. ~InTransit(b)
      BY <1>1
    <2>2. ~\E i \in DOMAIN up' : up'[i] = [type |-> "GOTBLOCKS", p |-> b]
      BY <1>2, <1>4, <2>1 DEF InTransit
    <2>3. \E i \in DOMAIN up' : up'[i] = [type |-> "DELETEDBLOCKS", p |-> b]
      BY <1>2
    <2> QED BY <1>1, <2>1, <2>2, <2>3 DEF Told, InTransit
  <1>7. crossed \subseteq crossed'
    BY <1>1
  <1> HIDE DEF deleted
  <1>8. \A c \in Blocks \ crossed' :
            Told(c)' => Told(c) /\ (c \in have => c \in have')
    BY <1>1, <1>5, <1>6
  <1> QED BY <1>1, <1>7, <1>8, CopyKept

\* The other steps tell the client nothing and hear nothing of it.
LEMMA OthersKeepCopy ==
    ASSUME CopyInv, SendingInv', sent' \subseteq sent,
           UNCHANGED <<node, edit_queue, ch0, ch1, up, have, copy, mesh_in,
                       mesh_out, crossed>>
    PROVE  CopyInv'
  <1>1. \A b : Told(b)' => Told(b)
    BY DEF Told
  <1> QED BY <1>1, CopyKept

LEMMA CopyInvNext == CopyInv /\ [Next]_vars => CopyInv'
  <1> SUFFICES ASSUME CopyInv, [Next]_vars PROVE CopyInv'
    OBVIOUS
  <1>1. SendingInv'
    BY SendingInvNext DEF CopyInv, CopyTyped
  <1>2. ASSUME NEW b \in Blocks, Edit(b) PROVE CopyInv'
    BY <1>1, <1>2, EditKeepsCopy
  <1>3. ASSUME NEW far \in SUBSET DOMAIN edit_queue, SendMapEdits(far)
        PROVE  CopyInv'
    BY <1>1, <1>3, SendMapEditsKeepsCopy
  <1>4. ASSUME NEW building \in BOOLEAN, NEW moved \in BOOLEAN,
               NEW cut \in -1 .. MaxDist, SendBlocks(building, moved, cut)
        PROVE  CopyInv'
    BY <1>1, <1>4, SendBlocksKeepsCopy
  <1>5. CASE SendNothing
    BY <1>1, <1>5, OthersKeepCopy DEF SendNothing, clientVars
  <1>6. ASSUME NEW b \in Blocks, Emerged(b) PROVE CopyInv'
    BY <1>1, <1>6, OthersKeepCopy DEF Emerged, SetBlocksNotSent, clientVars
  <1>7. CASE Turn
    BY <1>1, <1>7, OthersKeepCopy DEF Turn, clientVars
  <1>8. CASE ServerReceive
    BY <1>1, <1>8, ServerReceiveKeepsCopy
  <1>9. CASE ReceiveNode
    BY <1>1, <1>9, ReceiveNodeKeepsCopy
  <1>10. CASE ReceiveBlockData
    BY <1>1, <1>10, ReceiveBlockDataKeepsCopy
  <1>11. ASSUME NEW b \in Blocks, MeshMade(b) PROVE CopyInv'
    BY <1>1, <1>11, MeshMadeKeepsCopy
  <1>12. CASE ReplaceMeshes
    BY <1>1, <1>12, ReplaceMeshesKeepsCopy
  <1>13. ASSUME NEW b \in Blocks, Unload(b) PROVE CopyInv'
    BY <1>1, <1>13, UnloadKeepsCopy
  <1>14. CASE UNCHANGED vars
    BY <1>1, <1>14, OthersKeepCopy DEF vars, serverVars, clientVars
  <1> QED BY <1>2, <1>3, <1>4, <1>5, <1>6, <1>7, <1>8, <1>9, <1>10, <1>11,
             <1>12, <1>13, <1>14 DEF Next

(***************************************************************************)
(* What m_blocks_sent promises holds for every block that was not changed  *)
(* or unloaded while a copy of it was under way, nor set not sent while an *)
(* ADDNODE of it was: once nothing more tells of the block on either       *)
(* channel, the client has it as it is. That is no simple matter: the two  *)
(* channels are not ordered with each other, so it takes all of CopyInv:   *)
(* the last event, the last ADDNODE and each BLOCKDATA under way say what  *)
(* the block is, and what the client tells the server is true.             *)
(***************************************************************************)
THEOREM SentIsUpToDate == Spec => []SentUnlessCrossed
  <1>1. Init => CopyInv
    BY DEF Init, CopyInv, CopyTyped, SendingInv, QueuesTyped, SendingOnItsWay,
           LastEventIsCurrent, LastChangeIsCurrent, DataIsCurrent,
           ToldIsThere, ToldIsCurrent, Queued, Changing, Told
  <1>2. CopyInv => SentUnlessCrossed
    <2> SUFFICES ASSUME CopyInv, NEW b \in sent \ crossed, Settled(b)
                 PROVE  UpToDate(b)
      BY DEF SentUnlessCrossed
    <2> b \in Blocks
      BY DEF CopyInv, CopyTyped, SendingInv, QueuesTyped
    <2>1. \A i \in DOMAIN up : up[i] # [type |-> "DELETEDBLOCKS", p |-> b]
      BY DEF Settled
    <2>2. Told(b) /\ ~Queued(b) /\ ~Changing(b)
      BY <2>1 DEF Told, Queued, Settled
    <2> QED BY <2>2 DEF CopyInv, ToldIsThere, ToldIsCurrent, UpToDate
  <1> QED BY <1>1, <1>2, CopyInvNext, PTL DEF Spec

-----------------------------------------------------------------------------
(* What the search of GetNextBlocks finds: the loop over the distances keeps *)
(* what one distance keeps.                                                  *)

\* What is known of the search after any number of its distances.
Found ==
    [selected : SUBSET Blocks, emerge : SUBSET Blocks, stopped : BOOLEAN,
     d : 0 .. MaxDist + 1, sent_d : Blocks \cup {-1},
     emerged_d : Blocks \cup {-1}, full_d : Blocks \cup {-1}]

\* There is room for what was selected, none of it sent already.
Within(acc) ==
    /\ acc \in Found
    /\ acc.selected \cap (sending \cup sent) = {}
    /\ Cardinality(sending) + Cardinality(acc.selected) <= MaxSending

\* One more block.
LEMMA OneMore ==
    ASSUME NEW S \in SUBSET Blocks, NEW d \in Blocks
    PROVE  /\ Cardinality(S) \in Nat
           /\ Cardinality(S \cup {d}) \in Nat
           /\ Cardinality(S \cup {d}) <= Cardinality(S) + 1
  <1>1. IsFiniteSet(S) /\ Cardinality(S) \in Nat
    BY BlocksAreFinite
  <1>2. Cardinality(S \cup {d}) = Cardinality(S)
            \/ Cardinality(S \cup {d}) = Cardinality(S) + 1
    BY <1>1, FS_AddElement
  <1> QED BY <1>1, <1>2

\* A block that is being sent or was sent is passed over, and one more is taken
\* only where there is room for it.
LEMMA VisitKeeps ==
    ASSUME sending \in SUBSET Blocks, NEW acc, Within(acc), NEW d \in Blocks,
           NEW last, NEW building \in BOOLEAN
    PROVE  Within(Visit(acc, d, last, building))
  <1> USE BlockTransferConstants
  <1> DEFINE v == Visit(acc, d, last, building)
             stop == [acc EXCEPT !.stopped = TRUE, !.d = d]
             select == [acc EXCEPT !.selected = @ \cup {d},
                                   !.sent_d = IF @ = -1 THEN d ELSE @]
             emerge == [acc EXCEPT !.emerge = @ \cup {d},
                                   !.emerged_d = IF @ = -1 THEN d ELSE @]
             full == [acc EXCEPT !.stopped = TRUE, !.d = d, !.full_d = d]
  <1>1. /\ acc \in Found /\ d \in 0 .. MaxDist + 1
        /\ acc.selected \cap (sending \cup sent) = {}
        /\ Cardinality(sending) + Cardinality(acc.selected) <= MaxSending
        /\ acc.selected \in SUBSET Blocks
    BY DEF Within, Found, Blocks
  <1>2. \/ v = acc \/ v = stop \/ v = emerge \/ v = full
        \/ /\ v = select /\ d \notin sending \cup sent
           /\ ~(Cardinality(sending) + Cardinality(acc.selected)
                    >= (IF building /\ d > NearD THEN 0 ELSE MaxSending))
    BY DEF Visit, PassedOver
  <1>3. CASE v = acc
    BY <1>3
  <1>4. ASSUME v = stop \/ v = emerge \/ v = full PROVE Within(v)
    <2>1. stop \in Found /\ stop.selected = acc.selected
      BY <1>1 DEF Found
    <2>2. emerge \in Found /\ emerge.selected = acc.selected
      BY <1>1 DEF Found
    <2>3. full \in Found /\ full.selected = acc.selected
      BY <1>1 DEF Found
    <2>4. v \in Found /\ v.selected = acc.selected
      BY <1>4, <2>1, <2>2, <2>3
    <2> HIDE DEF v, stop, emerge, full
    <2> QED BY <1>1, <2>4 DEF Within
  <1>5. ASSUME v = select, d \notin sending \cup sent,
               ~(Cardinality(sending) + Cardinality(acc.selected)
                     >= (IF building /\ d > NearD THEN 0 ELSE MaxSending))
        PROVE  Within(v)
    <2>1. select \in Found /\ select.selected = acc.selected \cup {d}
      BY <1>1 DEF Found
    <2>2. /\ Cardinality(sending) \in Nat
          /\ Cardinality(acc.selected) \in Nat
          /\ Cardinality(acc.selected \cup {d}) \in Nat
          /\ Cardinality(acc.selected \cup {d}) <= Cardinality(acc.selected) + 1
      BY <1>1, OneMore
    <2>3. ~(Cardinality(sending) + Cardinality(acc.selected) >= MaxSending)
      <3>1. Cardinality(sending) + Cardinality(acc.selected) >= 0
        BY <2>2
      <3> QED BY <1>5, <3>1
    <2>4. Cardinality(sending) + Cardinality(acc.selected \cup {d})
              <= MaxSending
      <3> DEFINE a == Cardinality(sending)
                 b == Cardinality(acc.selected)
                 c == Cardinality(acc.selected \cup {d})
      <3>1. a \in Nat /\ b \in Nat /\ c \in Nat /\ c <= b + 1
            /\ ~(a + b >= MaxSending) /\ MaxSending \in Nat
        BY <2>2, <2>3
      <3> HIDE DEF a, b, c
      <3>2. a + c <= MaxSending
        BY <3>1
      <3> QED BY <3>2 DEF a, c
    <2>5. (acc.selected \cup {d}) \cap (sending \cup sent) = {}
      BY <1>1, <1>5
    <2> HIDE DEF v, select
    <2> QED BY <1>5, <2>1, <2>4, <2>5 DEF Within
  <1> QED BY <1>2, <1>3, <1>4, <1>5

\* Whatever the player does, the search selects blocks that are not being sent
\* and not sent, no more than there is room for.
LEMMA SearchFinds ==
    ASSUME sending \in SUBSET Blocks, Cardinality(sending) < MaxSending,
           NEW start \in Blocks, NEW building \in BOOLEAN
    PROVE  Within(Search(start, building))
  <1> DEFINE last == LastOf(start)
             none == [selected |-> {}, emerge |-> {}, stopped |-> FALSE,
                      d |-> last + 1, sent_d |-> -1, emerged_d |-> -1,
                      full_d |-> -1]
             range == [i \in 1 .. last - start + 1 |-> start + i - 1]
             S == DOMAIN range
             Step(t, j) == Visit(t, range[j], last, building)
             body == [x \in Found \X S |-> Step(x[1], x[2])]
             P == [w \in SUBSET S |-> {t \in Found : Within(t)}]
  <1>1. /\ start \in Nat /\ last \in Nat /\ start <= last /\ last <= MaxDist
        /\ MaxDist \in Nat
    BY BlockTransferConstants DEF Blocks, LastOf
  <1>2. /\ MaxDist + 1 \in Nat
        /\ S \in SUBSET (0 .. MaxDist + 1)
        /\ \A j \in S : range[j] \in Blocks
    <2> HIDE DEF last
    <2> QED BY <1>1 DEF Blocks
  <1>3. none \in P[{}]
    <2>1. none \in Found /\ none.selected = {}
      <3> HIDE DEF last
      <3> QED BY <1>1 DEF Found
    <2>2. Cardinality(sending) \in Nat /\ Cardinality({}) = 0
      BY BlocksAreFinite, FS_EmptySet
    <2>3. Cardinality(sending) + 0 <= MaxSending
      BY <2>2, BlockTransferConstants
    <2> HIDE DEF none
    <2>4. Within(none)
      BY <2>1, <2>2, <2>3 DEF Within
    <2> HIDE DEF S
    <2> QED BY <2>1, <2>4
  <1>4. ASSUME NEW w \in SUBSET S, NEW x \in w, NEW t \in P[w \ {x}]
        PROVE  Step(t, x) \in P[w] /\ body[<<t, x>>] = Step(t, x)
    <2>1. t \in Found /\ Within(t) /\ x \in S
      OBVIOUS
    <2>2. body[<<t, x>>] = Step(t, x)
      BY <2>1
    <2>3. range[x] \in Blocks
      BY <1>2, <2>1
    <2>4. Within(Step(t, x))
      <3> HIDE DEF range, S, P, body
      <3> QED BY <2>1, <2>3, VisitKeeps
    <2>5. Step(t, x) \in Found
      BY <2>4 DEF Within
    <2> HIDE DEF S, Step, body
    <2> QED BY <2>2, <2>4, <2>5
  <1>5. PICK run : /\ IsRun(run, none, body, S)
                   /\ \A w \in SUBSET S : run[w] \in P[w]
    <2> HIDE DEF body, P, Step, S, none, range, last
    <2>1. \A w \in SUBSET S : \A x \in w :
              \A t \in P[w \ {x}] : body[<<t, x>>] \in P[w]
      BY <1>4
    <2> QED BY <1>2, <1>3, <2>1, LoopKeeps
  <1> DEFINE Is(f) == f = [w \in SUBSET S |->
                              IF w = {} THEN none
                              ELSE Step(f[w \ {Max(w)}], Max(w))]
             f == CHOOSE g : Is(g)
  <1>6. Is(run)
    <2>1. ASSUME NEW w \in SUBSET S, w # {}
          PROVE  body[<<run[w \ {Max(w)}], Max(w)>>]
                     = Step(run[w \ {Max(w)}], Max(w))
      <3>1. Max(w) \in w /\ w \ {Max(w)} \in SUBSET S
        BY <1>2, <2>1, Greatest
      <3>2. run[w \ {Max(w)}] \in P[w \ {Max(w)}]
        BY <1>5, <3>1
      <3> HIDE DEF body, P, Step, S, none
      <3> QED BY <1>4, <3>1, <3>2
    <2> HIDE DEF body, P, Step, S, none
    <2> QED BY <1>5, <2>1 DEF IsRun
  <1>7. Is(f)
    <2> HIDE DEF Is
    <2> QED BY <1>6
  <1>8. \A w \in SUBSET S : f[w] \in P[w]
    <2> HIDE DEF f, P, Step, S, none
    <2>1. f[{}] \in P[{}]
      BY <1>3, <1>7
    <2>2. ASSUME NEW w \in SUBSET S, w # {},
                 f[w \ {Max(w)}] \in P[w \ {Max(w)}]
          PROVE  f[w] \in P[w]
      <3>1. Max(w) \in w
        BY <1>2, <2>2, Greatest
      <3>2. f[w] = Step(f[w \ {Max(w)}], Max(w))
        BY <1>7, <2>2
      <3> QED BY <1>4, <2>2, <3>1, <3>2
    <2> HIDE DEF Is
    <2> QED BY <1>2, <2>1, <2>2, RunKeeps
  <1>9. Search(start, building) = f[S]
    BY Zenon DEF Search, FoldLeft, MapThenFoldSet
  <1>10. f[S] \in P[S]
    BY <1>8
  <1>11. Within(f[S])
    <2> HIDE DEF f, S
    <2> QED BY <1>10
  <1> QED BY <1>9, <1>11

\* The next search begins at a distance there is.
LEMMA NextIsADistance ==
    ASSUME NEW found \in Found
    PROVE  NextNearest(found) \in Blocks
  BY BlockTransferConstants DEF NextNearest, Found, Blocks

-----------------------------------------------------------------------------
(* The types, and the throttle. *)

\* The types are needed for it, and what a step does with the two sets keeps
\* both: the limits that the search observed are those of the moment its
\* blocks are sent, for the server thread holds the environment all the while.
ThrottleInv == TypeOK /\ Throttled

\* Fewer than the two together.
LEMMA NoMoreThan ==
    ASSUME NEW S \in SUBSET Blocks, NEW T \in SUBSET Blocks,
           NEW U \in SUBSET T,
           Cardinality(S) + Cardinality(T) <= MaxSending
    PROVE  Cardinality(S \cup U) <= MaxSending
  <1>1. /\ IsFiniteSet(S) /\ Cardinality(S) \in Nat
        /\ IsFiniteSet(T) /\ Cardinality(T) \in Nat
        /\ IsFiniteSet(U) /\ Cardinality(U) \in Nat
        /\ IsFiniteSet(S \cap U) /\ Cardinality(S \cap U) \in Nat
        /\ Cardinality(S \cup U) \in Nat
    BY BlocksAreFinite
  <1>2. Cardinality(U) <= Cardinality(T)
    BY <1>1, FS_Subset
  <1>3. Cardinality(S \cup U)
            = Cardinality(S) + Cardinality(U) - Cardinality(S \cap U)
    BY <1>1, FS_Union
  <1>4. MaxSending \in Nat
    BY BlockTransferConstants
  <1> DEFINE s == Cardinality(S)
             t == Cardinality(T)
             u == Cardinality(U)
             i == Cardinality(S \cap U)
             c == Cardinality(S \cup U)
  <1>5. /\ s \in Nat /\ t \in Nat /\ u \in Nat /\ i \in Nat /\ c \in Nat
        /\ u <= t /\ c = s + u - i /\ s + t <= MaxSending
    BY <1>1, <1>2, <1>3
  <1> HIDE DEF s, t, u, i, c
  <1>6. c <= MaxSending
    BY <1>4, <1>5
  <1> QED BY <1>6 DEF c

\* Fewer blocks are being sent than before.
LEMMA FewerSending ==
    ASSUME ThrottleInv, sending' \subseteq sending,
           sending' \cap sent' = {}
    PROVE  Throttled'
  <1>1. sending \in SUBSET Blocks /\ Cardinality(sending) <= MaxSending
    BY DEF ThrottleInv, TypeOK, Throttled
  <1>2. PICK s : s = sending'
    OBVIOUS
  <1>3. s \in SUBSET Blocks /\ s \subseteq sending
    BY <1>1, <1>2
  <1>4. /\ IsFiniteSet(sending) /\ Cardinality(sending) \in Nat
        /\ Cardinality(s) \in Nat
    BY <1>1, <1>3, BlocksAreFinite
  <1>5. Cardinality(s) <= Cardinality(sending)
    BY <1>3, <1>4, FS_Subset
  <1>6. Cardinality(s) <= MaxSending
    BY <1>1, <1>4, <1>5, BlockTransferConstants
  <1> QED BY <1>2, <1>6 DEF Throttled

\* The blocks that the search selected, up to the distance at which sending
\* stopped, are sent.
LEMMA SendBlocksThrottled ==
    ASSUME ThrottleInv, NEW building \in BOOLEAN, NEW moved \in BOOLEAN,
           NEW cut \in -1 .. MaxDist, SendBlocks(building, moved, cut)
    PROVE  ThrottleInv'
  <1> DEFINE start == IF moved \/ passes = RestartAfter THEN 0
                                                       ELSE nearest_unsent_d
             found == Search(start, building)
             chosen == {b \in Blocks : b <= cut /\ b \in found.selected}
             data == [i \in 1 .. Cardinality(chosen) |->
                         [p |-> Nth(chosen, i), n |-> node[Nth(chosen, i)]]]
  <1>1. /\ sending \in SUBSET Blocks /\ sent \in SUBSET Blocks
        /\ nearest_unsent_d \in Blocks /\ emerging \in SUBSET Blocks
        /\ passes \in 0 .. RestartAfter
        /\ sending \cap sent = {}
        /\ ch1 \in Seq(Message)
    BY DEF ThrottleInv, TypeOK, Throttled
  <1>2. /\ Cardinality(sending) < MaxSending
        /\ sending' = sending \cup chosen
        /\ ch1' = ch1 \o data
        /\ emerging' = emerging \cup found.emerge
        /\ nearest_unsent_d' = NextNearest(found)
        /\ nmoves' = (IF building \/ moved THEN nmoves + 1 ELSE nmoves)
        /\ passes' = (IF passes = RestartAfter THEN 0 ELSE passes + 1)
    BY DEF SendBlocks
  <1>3. start \in Blocks
    BY <1>1, BlockTransferConstants DEF Blocks
  <1>4. Within(found)
    <2> HIDE DEF start
    <2> QED BY <1>1, <1>2, <1>3, SearchFinds
  <1> HIDE DEF found
  <1>5. /\ found \in Found /\ found.selected \in SUBSET Blocks
        /\ found.emerge \in SUBSET Blocks
        /\ found.selected \cap (sending \cup sent) = {}
        /\ Cardinality(sending) + Cardinality(found.selected) <= MaxSending
    BY <1>4 DEF Within, Found
  <1>6. chosen \in SUBSET found.selected /\ chosen \in SUBSET Blocks
    OBVIOUS
  <1> HIDE DEF chosen
  <1>7. ch1' \in Seq(Message)
    <2>1. /\ (\A c \in chosen : c \in Nat) /\ IsFiniteSet(chosen)
          /\ Cardinality(chosen) \in Nat
      <3> HIDE DEF data
      <3>1. \A c \in chosen : c \in Nat
        BY <1>6, BlockTransferConstants DEF Blocks
      <3>2. IsFiniteSet(chosen)
        BY <1>6, BlocksAreFinite
      <3> QED BY <3>1, <3>2, FS_CardinalityType
    <2>2. \A i \in 1 .. Cardinality(chosen) : Nth(chosen, i) \in Blocks
      BY <1>6, <2>1, NthIsOnto
    <2>3. \A i \in 1 .. Cardinality(chosen) : data[i] \in Message
      BY <2>2 DEF Message, ThrottleInv, TypeOK
    <2>4. data \in Seq(Message)
      BY <2>1, <2>3
    <2> HIDE DEF data
    <2> QED BY <1>1, <1>2, <2>4
  <1> HIDE DEF data
  <1>8. Cardinality(sending \cup chosen) <= MaxSending
    BY <1>1, <1>5, <1>6, NoMoreThan
  <1>9. (sending \cup chosen) \cap sent = {}
    BY <1>1, <1>5, <1>6
  <1>10. UNCHANGED <<valid, node, edit_queue, sent, sight, ch0, up, have, copy,
                     mesh_in, mesh_out, nedits, nunloads, crossed>>
    BY DEF SendBlocks, clientVars
  <1>11. Throttled'
    BY <1>2, <1>8, <1>9, <1>10 DEF Throttled
  <1>12. nearest_unsent_d' \in Blocks
    BY <1>2, <1>5, NextIsADistance
  <1>13. passes' \in 0 .. RestartAfter
    BY <1>1, <1>2, BlockTransferConstants
  <1>14. sending' \in SUBSET Blocks /\ emerging' \in SUBSET Blocks
    BY <1>1, <1>2, <1>5, <1>6
  <1>15. nmoves' \in Nat
    BY <1>2 DEF ThrottleInv, TypeOK
  <1>16. TypeOK'
    BY <1>7, <1>10, <1>12, <1>13, <1>14, <1>15 DEF ThrottleInv, TypeOK
  <1> QED BY <1>11, <1>16 DEF ThrottleInv

\* The events that are sent, and the blocks that are set not sent.
LEMMA SendMapEditsThrottled ==
    ASSUME ThrottleInv, NEW far \in SUBSET DOMAIN edit_queue, SendMapEdits(far)
    PROVE  ThrottleInv'
  <1>1. /\ edit_queue \in Seq(Message) /\ ch0 \in Seq(Message)
        /\ sending \cap sent = {} /\ 0 \in Blocks
        /\ \A i \in DOMAIN edit_queue : edit_queue[i].p \in Blocks
    <2>1. edit_queue \in Seq(Message)
      BY DEF ThrottleInv, TypeOK
    <2>2. \A i \in DOMAIN edit_queue : edit_queue[i] \in Message
      BY <2>1
    <2>3. \A i \in DOMAIN edit_queue : edit_queue[i].p \in Blocks
      BY <2>2 DEF Message
    <2> QED BY <2>1, <2>3, BlockTransferConstants
            DEF ThrottleInv, TypeOK, Throttled, Blocks
  <1>2. EventsBut(far) \in Seq(Message)
    BY <1>1, EventsButKeepsOrder
  <1>3. ch0' \in Seq(Message)
    BY <1>1, <1>2 DEF SendMapEdits
  <1>4. /\ sending' \subseteq sending /\ sent' \subseteq sent
        /\ nearest_unsent_d' \in Blocks
    BY <1>1 DEF SendMapEdits, SetBlocksNotSent, ThrottleInv, TypeOK
  <1>5. crossed' \subseteq Blocks
    <2>1. \A b \in crossed' : \/ b \in crossed
                              \/ \E i \in DOMAIN edit_queue :
                                     b = edit_queue[i].p
      BY DEF SendMapEdits
    <2> QED BY <1>1, <2>1 DEF ThrottleInv, TypeOK
  <1>6. Throttled'
    BY <1>1, <1>4, FewerSending
  <1>7. edit_queue' \in Seq(Message)
    <2>1. <<>> \in Seq(Message)
      OBVIOUS
    <2> QED BY <2>1 DEF SendMapEdits
  <1>8. TypeOK'
    BY <1>3, <1>4, <1>5, <1>7
       DEF ThrottleInv, TypeOK, SendMapEdits, clientVars, bounds
  <1> QED BY <1>6, <1>8 DEF ThrottleInv

\* A GOTBLOCKS takes a block from one set to the other, a DELETEDBLOCKS or an
\* emerge thread from both.
LEMMA ServerReceiveThrottled ==
    ASSUME ThrottleInv, ServerReceive PROVE ThrottleInv'
  <1>1. up \in Seq(UpMessage) /\ up # <<>> /\ 0 \in Blocks
    BY BlockTransferConstants
       DEF ThrottleInv, TypeOK, ServerReceive, UpMessage, Blocks
  <1>2. Head(up) \in UpMessage /\ up' \in Seq(UpMessage)
    BY <1>1 DEF ServerReceive
  <1>3. Head(up).p \in Blocks
    BY <1>2 DEF UpMessage
  <1>4. /\ sending' \subseteq sending /\ sent' \in SUBSET Blocks
        /\ sending' \cap sent' = {}
        /\ nearest_unsent_d' \in Blocks
    BY <1>1, <1>3 DEF ServerReceive, GotBlock, SetBlocksNotSent, ThrottleInv,
                      TypeOK, Throttled
  <1>5. Throttled'
    BY <1>4, FewerSending
  <1>6. TypeOK'
    BY <1>2, <1>4 DEF ServerReceive, ThrottleInv, TypeOK, clientVars, bounds,
                      UpMessage
  <1> QED BY <1>5, <1>6 DEF ThrottleInv

\* An emerge thread sets the blocks it changed not sent.
LEMMA EmergedThrottled ==
    ASSUME ThrottleInv, NEW b \in Blocks, Emerged(b) PROVE ThrottleInv'
  <1>1. 0 \in Blocks
    BY BlockTransferConstants DEF Blocks
  <1>2. /\ sending' \subseteq sending /\ sent' \subseteq sent
        /\ nearest_unsent_d' \in Blocks /\ sending' \cap sent' = {}
    BY <1>1 DEF Emerged, SetBlocksNotSent, ThrottleInv, TypeOK, Throttled
  <1>3. Throttled'
    BY <1>2, FewerSending
  <1>4. TypeOK'
    BY <1>2 DEF Emerged, ThrottleInv, TypeOK, clientVars, bounds
  <1> QED BY <1>3, <1>4 DEF ThrottleInv

\* The messages that the client takes and sends.
LEMMA ClientTyped ==
    ASSUME TypeOK,
           \/ ReceiveNode \/ ReceiveBlockData \/ ReplaceMeshes
           \/ \E b \in Blocks : MeshMade(b) \/ Unload(b)
    PROVE  TypeOK'
  <1>1. ASSUME NEW q \in Seq(Message), q # <<>>
        PROVE  /\ Tail(q) \in Seq(Message)
               /\ Head(q).p \in Blocks /\ Head(q).n \in Nat
    <2>1. Head(q) \in Message /\ Tail(q) \in Seq(Message)
      BY <1>1
    <2> QED BY <2>1 DEF Message
  <1>2. CASE ReceiveNode
    <2>1. ch0 \in Seq(Message) /\ ch0 # <<>>
      BY <1>2 DEF ReceiveNode, TypeOK
    <2>2. copy' \in [Blocks -> Nat] /\ ch0' \in Seq(Message)
      BY <1>1, <1>2, <2>1 DEF ReceiveNode, TypeOK
    <2> QED BY <1>2, <2>2 DEF ReceiveNode, TypeOK, serverVars, bounds
  <1>3. CASE ReceiveBlockData
    <2>1. ch1 \in Seq(Message) /\ ch1 # <<>>
      BY <1>3 DEF ReceiveBlockData, TypeOK
    <2>2. /\ copy' \in [Blocks -> Nat] /\ ch1' \in Seq(Message)
          /\ have' \in SUBSET Blocks /\ mesh_in' \in SUBSET Blocks
      BY <1>1, <1>3, <2>1 DEF ReceiveBlockData, TypeOK
    <2> QED BY <1>3, <2>2 DEF ReceiveBlockData, TypeOK, serverVars, bounds
  <1>4. CASE ReplaceMeshes
    <2> DEFINE got == [i \in DOMAIN mesh_out |->
                          [type |-> "GOTBLOCKS", p |-> mesh_out[i]]]
    <2>1. mesh_out \in Seq(Blocks) /\ up \in Seq(UpMessage)
      BY DEF TypeOK, UpMessage
    <2>2. /\ DOMAIN mesh_out = 1 .. Len(mesh_out) /\ Len(mesh_out) \in Nat
          /\ \A i \in DOMAIN mesh_out : mesh_out[i] \in Blocks
      BY <2>1
    <2>3. \A i \in DOMAIN mesh_out : got[i] \in UpMessage
      BY <2>2 DEF UpMessage
    <2>4. got \in Seq(UpMessage)
      BY <2>2, <2>3
    <2> HIDE DEF got
    <2>5. up \o got \in Seq(UpMessage)
      BY <2>1, <2>4
    <2>6. up' = up \o got
      BY <1>4 DEF ReplaceMeshes, got
    <2>7. <<>> \in Seq(Blocks)
      OBVIOUS
    <2>8. mesh_out' \in Seq(Blocks)
      BY <1>4, <2>7 DEF ReplaceMeshes
    <2> QED BY <1>4, <2>5, <2>6, <2>8
            DEF ReplaceMeshes, TypeOK, serverVars, bounds, UpMessage
  <1>5. ASSUME NEW b \in Blocks, MeshMade(b) PROVE TypeOK'
    <2>1. mesh_out' \in Seq(Blocks)
      BY <1>5 DEF MeshMade, TypeOK
    <2> QED BY <1>5, <2>1 DEF MeshMade, TypeOK, serverVars, bounds
  <1>6. ASSUME NEW b \in Blocks, Unload(b) PROVE TypeOK'
    <2>1. [type |-> "DELETEDBLOCKS", p |-> b] \in UpMessage
      BY DEF UpMessage
    <2>2. up' \in Seq(UpMessage)
      <3>1. up \in Seq(UpMessage)
        BY DEF TypeOK, UpMessage
      <3>2. up' = Append(up, [type |-> "DELETEDBLOCKS", p |-> b])
        BY <1>6 DEF Unload
      <3> HIDE DEF UpMessage
      <3> QED BY <2>1, <3>1, <3>2
    <2>3. have' \in SUBSET Blocks /\ nunloads' \in Nat
          /\ crossed' \in SUBSET Blocks
      BY <1>6 DEF Unload, TypeOK
    <2>4. UNCHANGED <<serverVars, ch0, ch1, copy, mesh_in, mesh_out, nedits,
                     nmoves>>
      BY <1>6 DEF Unload
    <2> QED BY <2>2, <2>3, <2>4 DEF TypeOK, serverVars, UpMessage
  <1> QED BY <1>2, <1>3, <1>4, <1>5, <1>6

\* What is edited is in the map.
LEMMA EditTyped ==
    ASSUME TypeOK, NEW b \in Blocks, Edit(b) PROVE TypeOK'
  <1>1. /\ nedits \in Nat /\ edit_queue \in Seq(Message)
        /\ node \in [Blocks -> Nat]
    BY DEF TypeOK
  <1>2. [p |-> b, n |-> nedits + 1] \in Message
    BY <1>1 DEF Message
  <1>3. /\ edit_queue' \in Seq(Message) /\ node' \in [Blocks -> Nat]
        /\ nedits' \in Nat
    BY <1>1, <1>2 DEF Edit
  <1> QED BY <1>3 DEF Edit, TypeOK, clientVars

\* Every step keeps the types and the throttle.
LEMMA ThrottleInvNext == ThrottleInv /\ [Next]_vars => ThrottleInv'
  <1> SUFFICES ASSUME ThrottleInv, [Next]_vars PROVE ThrottleInv'
    OBVIOUS
  <1>1. ASSUME TypeOK', UNCHANGED <<sending, sent>> PROVE ThrottleInv'
    BY <1>1 DEF ThrottleInv, Throttled
  <1>2. ASSUME NEW b \in Blocks, Edit(b) PROVE ThrottleInv'
    BY <1>1, <1>2, EditTyped DEF Edit, ThrottleInv
  <1>3. ASSUME NEW far \in SUBSET DOMAIN edit_queue, SendMapEdits(far)
        PROVE  ThrottleInv'
    BY <1>3, SendMapEditsThrottled
  <1>4. ASSUME NEW building \in BOOLEAN, NEW moved \in BOOLEAN,
               NEW cut \in -1 .. MaxDist, SendBlocks(building, moved, cut)
        PROVE  ThrottleInv'
    BY <1>4, SendBlocksThrottled
  <1>5. CASE SendNothing \/ Turn \/ UNCHANGED vars
    <2>1. /\ UNCHANGED <<valid, node, emerging, edit_queue, sent, sending,
                         nearest_unsent_d, ch0, ch1, up, have, copy, mesh_in,
                         mesh_out, nedits, nunloads, crossed>>
          /\ passes' \in 0 .. RestartAfter /\ sight' \in SUBSET Blocks
          /\ nmoves' \in Nat
      <3>1. passes \in 0 .. RestartAfter /\ sight \in SUBSET Blocks
            /\ nmoves \in Nat /\ RestartAfter \in Nat
        BY BlockTransferConstants DEF ThrottleInv, TypeOK
      <3>2. CASE SendNothing
        BY <3>1, <3>2 DEF SendNothing, clientVars, bounds
      <3>3. CASE Turn
        BY <3>1, <3>3 DEF Turn, clientVars
      <3>4. CASE UNCHANGED vars
        BY <3>1, <3>4 DEF vars, serverVars, clientVars, bounds
      <3> QED BY <1>5, <3>2, <3>3, <3>4
    <2>2. TypeOK'
      BY <2>1 DEF ThrottleInv, TypeOK
    <2> QED BY <1>1, <2>1, <2>2
  <1>6. ASSUME NEW b \in Blocks, Emerged(b) PROVE ThrottleInv'
    BY <1>6, EmergedThrottled
  <1>7. CASE ServerReceive
    BY <1>7, ServerReceiveThrottled
  <1>8. CASE \/ ReceiveNode \/ ReceiveBlockData \/ ReplaceMeshes
             \/ \E b \in Blocks : MeshMade(b) \/ Unload(b)
    <2>1. TypeOK'
      BY <1>8, ClientTyped DEF ThrottleInv
    <2>2. UNCHANGED <<sending, sent>>
      BY <1>8 DEF ReceiveNode, ReceiveBlockData, ReplaceMeshes, MeshMade,
                  Unload, serverVars
    <2> QED BY <1>1, <2>1, <2>2
  <1> QED BY <1>2, <1>3, <1>4, <1>5, <1>6, <1>7, <1>8 DEF Next

\* Nothing is sent at first.
LEMMA ThrottleInvInit == Init => ThrottleInv
  <1> SUFFICES ASSUME Init PROVE ThrottleInv
    OBVIOUS
  <1>1. 0 \in Blocks /\ OnDisk \subseteq Blocks /\ 0 \in 0 .. RestartAfter
        /\ 0 <= MaxSending
    BY BlockTransferConstants DEF Blocks
  <1>2. <<>> \in Seq(Message) /\ <<>> \in Seq(UpMessage) /\ <<>> \in Seq(Blocks)
    OBVIOUS
  <1>3. TypeOK
    BY <1>1, <1>2 DEF Init, TypeOK, UpMessage
  <1>4. Throttled
    BY <1>1, FS_EmptySet DEF Init, Throttled
  <1> QED BY <1>3, <1>4 DEF ThrottleInv

(***************************************************************************)
(* The variables of the server and of the client have their types: what    *)
(* the search leaves in m_nearest_unsent_d is a distance there is, and     *)
(* what the messages name are blocks.                                      *)
(***************************************************************************)
THEOREM Typed == Spec => []TypeOK
  <1>1. ThrottleInv => TypeOK
    BY DEF ThrottleInv
  <1> QED BY <1>1, ThrottleInvInit, ThrottleInvNext, PTL DEF Spec

(***************************************************************************)
(* The throttle of GetNextBlocks holds: no more blocks are being sent to a *)
(* client than max_simultaneous_block_sends_per_client, however the search *)
(* goes through the distances, whether the player is building or not; and  *)
(* no block is both sent and being sent.                                   *)
(***************************************************************************)
THEOREM ThrottleHolds == Spec => []Throttled
  <1>1. ThrottleInv => Throttled
    BY DEF ThrottleInv
  <1> QED BY <1>1, ThrottleInvInit, ThrottleInvNext, PTL DEF Spec
=============================================================================
