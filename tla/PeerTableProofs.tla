--------------------------- MODULE PeerTableProofs ---------------------------
(***************************************************************************)
(* Proofs about PeerTable, for any number of addresses, peer ids, joins    *)
(* and data: the list of clients follows the list of peers through the     *)
(* queue of events between the two threads.                                *)
(***************************************************************************)
EXTENDS PeerTable, SequenceTheorems, WellFoundedInduction, TLAPS

Event == [type : {"added", "removed", "data"}, id : Ids, address : Addresses]

-----------------------------------------------------------------------------
(* The invariant, as relations between the events ev that the Server       *)
(* thread is not done with, the lists of peers and of clients, and the     *)
(* commands to delete peers.                                               *)

\* The places in ev of changes of id.
Places(ev, id) == {i \in DOMAIN ev : ev[i].id = id /\ ev[i].type # "data"}

\* The last of them before place k is j, or there is none.
Prior(ev, id, j, k) ==
    /\ j \in Places(ev, id) /\ j < k
    /\ \A l \in Places(ev, id) : l < k => l <= j
NoPrior(ev, id, k) == \A l \in Places(ev, id) : ~(l < k)

\* When the Server thread comes to place k, it knows id at a or not at all.
KnownAt(ev, clients, id, a, k) ==
    /\ \A j \in Nat : Prior(ev, id, j, k) => /\ ev[j].type = "added"
                                              /\ ev[j].address = a
    /\ NoPrior(ev, id, k) /\ id \in DOMAIN clients => clients[id] = a

\* When the Server thread comes to place k, it does not know id.
Unknown(ev, clients, id, k) ==
    /\ \A j \in Nat : Prior(ev, id, j, k) => ev[j].type = "removed"
    /\ NoPrior(ev, id, k) => id \notin DOMAIN clients

DataFollows(ev, clients) ==
    \A k \in DOMAIN ev : ev[k].type = "data" =>
        KnownAt(ev, clients, ev[k].id, ev[k].address, k)

AddedFollows(ev, clients) ==
    \A k \in DOMAIN ev : ev[k].type = "added" =>
        Unknown(ev, clients, ev[k].id, k)

\* In the end it knows the peers there are.
EndsWithPeers(ev, peers, clients) ==
    \A id \in Ids : IF id \in DOMAIN peers
                    THEN KnownAt(ev, clients, id, peers[id], Len(ev) + 1)
                    ELSE Unknown(ev, clients, id, Len(ev) + 1)

\* All of them, but for those it has denied access.
DeniedAreDeleted(ev, peers, clients, commands) ==
    \A id \in DOMAIN peers :
        NoPrior(ev, id, Len(ev) + 1) /\ id \notin DOMAIN clients =>
            \E i \in DOMAIN commands : commands[i] = id

Follows(ev, peers, clients, commands) ==
    /\ DataFollows(ev, clients)
    /\ AddedFollows(ev, clients)
    /\ EndsWithPeers(ev, peers, clients)
    /\ DeniedAreDeleted(ev, peers, clients, commands)

QueuesTyped ==
    /\ DOMAIN m_peers \subseteq Ids
    /\ \A id \in DOMAIN m_peers : m_peers[id] \in Addresses
    /\ m_event_queue \in Seq(Event)
    /\ m_peer_change_queue \in Seq(Event)
    /\ m_command_queue \in Seq(Ids)
    /\ received \in Seq(Event)
    /\ \A d \in net : d.address \in Addresses

\* What has been taken out of the event queue.
Taken ==
    /\ \A i \in DOMAIN m_peer_change_queue :
           m_peer_change_queue[i].type # "data"
    /\ IF pc \in {"sync", "process"}
       THEN \E e \in Event : received = <<e>> /\ e.type = "data"
       ELSE received = <<>>
    /\ pc = "process" => m_peer_change_queue = <<>>

PeerInv ==
    /\ QueuesTyped
    /\ Taken
    /\ Follows(Events, m_peers, m_clients, m_command_queue)

-----------------------------------------------------------------------------
(* Events that are put. *)

LEMMA AppendPriors ==
    ASSUME NEW ev \in Seq(Event), NEW x \in Event, NEW id,
           NEW k \in Nat, k <= Len(ev) + 1
    PROVE  /\ \A j \in Nat : Prior(Append(ev, x), id, j, k)
                                 <=> Prior(ev, id, j, k)
           /\ NoPrior(Append(ev, x), id, k) <=> NoPrior(ev, id, k)
  <1> DEFINE after == Append(ev, x)
  <1>1. /\ Len(after) = Len(ev) + 1 /\ Len(ev) \in Nat
        /\ DOMAIN ev = 1 .. Len(ev) /\ DOMAIN after = 1 .. Len(ev) + 1
        /\ \A i \in DOMAIN ev : after[i] = ev[i]
    OBVIOUS
  <1> HIDE DEF after
  <1>2. \A l \in Nat :
            l < k => (l \in Places(after, id) <=> l \in Places(ev, id))
    BY <1>1 DEF Places
  <1>3. \A l : l \in Places(after, id) \/ l \in Places(ev, id) => l \in Nat
    BY <1>1 DEF Places
  <1>4. NoPrior(after, id, k) <=> NoPrior(ev, id, k)
    BY <1>2, <1>3 DEF NoPrior
  <1>5. \A j \in Nat : Prior(after, id, j, k) <=> Prior(ev, id, j, k)
    BY <1>2, <1>3 DEF Prior
  <1> QED BY <1>4, <1>5 DEF after

\* What is put last is what the Server thread comes to last.
LEMMA AppendLast ==
    ASSUME NEW ev \in Seq(Event), NEW x \in Event, NEW id
    PROVE  LET k == Len(ev) + 2
               after == Append(ev, x)
           IN  IF x.id = id /\ x.type # "data"
               THEN /\ \A j \in Nat : Prior(after, id, j, k) => j = Len(ev) + 1
                    /\ ~NoPrior(after, id, k)
               ELSE /\ \A j \in Nat : Prior(after, id, j, k) <=>
                                      Prior(ev, id, j, Len(ev) + 1)
                    /\ NoPrior(after, id, k) <=> NoPrior(ev, id, Len(ev) + 1)
  <1> DEFINE after == Append(ev, x)
             n == Len(ev)
  <1>1. /\ n \in Nat /\ DOMAIN ev = 1 .. n /\ DOMAIN after = 1 .. n + 1
        /\ \A i \in DOMAIN ev : after[i] = ev[i]
        /\ after[n + 1] = x
    OBVIOUS
  <1> HIDE DEF after, n
  <1>2. CASE x.id = id /\ x.type # "data"
    <2>1. n + 1 \in Places(after, id) /\ n + 1 < n + 2
      BY <1>1, <1>2 DEF Places
    <2>2. \A l \in Places(after, id) : l \in Nat /\ l <= n + 1
      BY <1>1 DEF Places
    <2>3. \A j \in Nat : Prior(after, id, j, n + 2) => j = n + 1
      BY <1>1, <2>1, <2>2 DEF Prior
    <2>4. ~NoPrior(after, id, n + 2)
      BY <2>1 DEF NoPrior
    <2> QED BY <1>2, <2>3, <2>4 DEF after, n
  <1>3. CASE ~(x.id = id /\ x.type # "data")
    <2>1. Places(after, id) = Places(ev, id)
      BY <1>1, <1>3 DEF Places
    <2>2. \A l \in Places(ev, id) : l < n + 1 /\ l < n + 2
      BY <1>1 DEF Places
    <2>3. \A j \in Nat : Prior(after, id, j, n + 2) <=> Prior(ev, id, j, n + 1)
      BY <2>1, <2>2 DEF Prior
    <2>4. NoPrior(after, id, n + 2) <=> NoPrior(ev, id, n + 1)
      BY <2>1, <2>2 DEF NoPrior
    <2> QED BY <1>3, <2>3, <2>4 DEF after, n
  <1> QED BY <1>2, <1>3

\* What is known when the Server thread comes to the events there are already
\* does not change, and at the end only of the id that x changes.
LEMMA AppendKeeps ==
    ASSUME NEW ev \in Seq(Event), NEW x \in Event, NEW clients, NEW id, NEW a
    PROVE  /\ \A k \in 1 .. Len(ev) + 1 :
                  /\ KnownAt(Append(ev, x), clients, id, a, k)
                         <=> KnownAt(ev, clients, id, a, k)
                  /\ Unknown(Append(ev, x), clients, id, k)
                         <=> Unknown(ev, clients, id, k)
           /\ ~(x.id = id /\ x.type # "data") =>
                  /\ KnownAt(Append(ev, x), clients, id, a, Len(ev) + 2)
                         <=> KnownAt(ev, clients, id, a, Len(ev) + 1)
                  /\ Unknown(Append(ev, x), clients, id, Len(ev) + 2)
                         <=> Unknown(ev, clients, id, Len(ev) + 1)
           /\ x.id = id /\ x.type = "added" /\ x.address = a =>
                  KnownAt(Append(ev, x), clients, id, a, Len(ev) + 2)
           /\ x.id = id /\ x.type = "removed" =>
                  Unknown(Append(ev, x), clients, id, Len(ev) + 2)
  <1> DEFINE after == Append(ev, x)
             n == Len(ev)
  <1>1. /\ n \in Nat /\ DOMAIN ev = 1 .. n
        /\ \A i \in DOMAIN ev : after[i] = ev[i]
        /\ after[n + 1] = x
    OBVIOUS
  <1>2. \A k \in Nat, j \in Nat : Prior(ev, id, j, k) => after[j] = ev[j]
    BY <1>1 DEF Prior, Places
  <1>3. \A k \in 1 .. n + 1 :
            /\ \A j \in Nat : Prior(after, id, j, k) <=> Prior(ev, id, j, k)
            /\ NoPrior(after, id, k) <=> NoPrior(ev, id, k)
    <2> SUFFICES ASSUME NEW k \in 1 .. n + 1
                 PROVE  /\ \A j \in Nat : Prior(after, id, j, k)
                                              <=> Prior(ev, id, j, k)
                        /\ NoPrior(after, id, k) <=> NoPrior(ev, id, k)
      OBVIOUS
    <2>1. k \in Nat /\ k <= Len(ev) + 1
      BY <1>1
    <2> QED BY <2>1, AppendPriors
  <1>4. IF x.id = id /\ x.type # "data"
        THEN /\ \A j \in Nat : Prior(after, id, j, n + 2) => j = n + 1
             /\ ~NoPrior(after, id, n + 2)
        ELSE /\ \A j \in Nat : Prior(after, id, j, n + 2) <=>
                               Prior(ev, id, j, n + 1)
             /\ NoPrior(after, id, n + 2) <=> NoPrior(ev, id, n + 1)
    BY AppendLast
  <1> HIDE DEF after, n
  <1>5. \A k \in 1 .. n + 1 :
            /\ KnownAt(after, clients, id, a, k)
                   <=> KnownAt(ev, clients, id, a, k)
            /\ Unknown(after, clients, id, k) <=> Unknown(ev, clients, id, k)
    <2> SUFFICES ASSUME NEW k \in 1 .. n + 1
                 PROVE  /\ KnownAt(after, clients, id, a, k)
                               <=> KnownAt(ev, clients, id, a, k)
                        /\ Unknown(after, clients, id, k)
                               <=> Unknown(ev, clients, id, k)
      OBVIOUS
    <2>1. \A j \in Nat : /\ Prior(after, id, j, k) <=> Prior(ev, id, j, k)
                         /\ Prior(ev, id, j, k) => after[j] = ev[j]
      BY <1>1, <1>2, <1>3
    <2> QED BY <1>3, <2>1 DEF KnownAt, Unknown
  <1>6. ASSUME ~(x.id = id /\ x.type # "data")
        PROVE  /\ KnownAt(after, clients, id, a, n + 2)
                      <=> KnownAt(ev, clients, id, a, n + 1)
               /\ Unknown(after, clients, id, n + 2)
                      <=> Unknown(ev, clients, id, n + 1)
    <2>1. \A j \in Nat : /\ Prior(after, id, j, n + 2)
                                <=> Prior(ev, id, j, n + 1)
                         /\ Prior(ev, id, j, n + 1) => after[j] = ev[j]
      BY <1>1, <1>2, <1>4, <1>6
    <2> QED BY <1>4, <1>6, <2>1 DEF KnownAt, Unknown
  <1>7. x.id = id /\ x.type = "added" /\ x.address = a =>
            KnownAt(after, clients, id, a, n + 2)
    BY <1>1, <1>4 DEF KnownAt
  <1>8. x.id = id /\ x.type = "removed" => Unknown(after, clients, id, n + 2)
    BY <1>1, <1>4 DEF Unknown
  <1> QED BY <1>5, <1>6, <1>7, <1>8 DEF after, n

\* The three cases of an event that is put, in one: what it says must be what is
\* known of its id at the end.
LEMMA FollowsAppend ==
    ASSUME NEW ev \in Seq(Event), NEW x \in Event,
           NEW peers, NEW peers2, NEW clients, NEW commands,
           DOMAIN peers \subseteq Ids, DOMAIN peers2 \subseteq Ids,
           Follows(ev, peers, clients, commands),
           \A id \in Ids \ {x.id} :
               /\ id \in DOMAIN peers2 <=> id \in DOMAIN peers
               /\ id \in DOMAIN peers => peers2[id] = peers[id],
           \/ /\ x.type = "added" /\ x.id \notin DOMAIN peers
              /\ x.id \in DOMAIN peers2 /\ peers2[x.id] = x.address
           \/ /\ x.type = "removed" /\ x.id \notin DOMAIN peers2
           \/ /\ x.type = "data" /\ peers2 = peers
              /\ x.id \in DOMAIN peers /\ peers[x.id] = x.address
    PROVE  Follows(Append(ev, x), peers2, clients, commands)
  <1> DEFINE after == Append(ev, x)
             n == Len(ev)
  <1>1. /\ n \in Nat /\ DOMAIN ev = 1 .. n /\ DOMAIN after = 1 .. n + 1
        /\ \A i \in DOMAIN ev : after[i] = ev[i]
        /\ after[n + 1] = x /\ Len(after) + 1 = n + 2
        /\ x.id \in Ids
    BY DEF Event
  <1>2. \A id, a :
            /\ \A k \in 1 .. n + 1 :
                   /\ KnownAt(after, clients, id, a, k)
                          <=> KnownAt(ev, clients, id, a, k)
                   /\ Unknown(after, clients, id, k)
                          <=> Unknown(ev, clients, id, k)
            /\ ~(x.id = id /\ x.type # "data") =>
                   /\ KnownAt(after, clients, id, a, n + 2)
                          <=> KnownAt(ev, clients, id, a, n + 1)
                   /\ Unknown(after, clients, id, n + 2)
                          <=> Unknown(ev, clients, id, n + 1)
            /\ x.id = id /\ x.type = "added" /\ x.address = a =>
                   KnownAt(after, clients, id, a, n + 2)
            /\ x.id = id /\ x.type = "removed" =>
                   Unknown(after, clients, id, n + 2)
    BY AppendKeeps
  <1>3. \A id : IF x.id = id /\ x.type # "data"
                THEN ~NoPrior(after, id, n + 2)
                ELSE NoPrior(after, id, n + 2) <=> NoPrior(ev, id, n + 1)
    BY AppendLast
  <1> HIDE DEF after, n
  <1>4. \A id \in Ids : IF id \in DOMAIN peers
                        THEN KnownAt(ev, clients, id, peers[id], n + 1)
                        ELSE Unknown(ev, clients, id, n + 1)
    BY DEF Follows, EndsWithPeers, n
  <1>5. DataFollows(after, clients)
    <2> SUFFICES ASSUME NEW k \in DOMAIN after, after[k].type = "data"
                 PROVE  KnownAt(after, clients, after[k].id,
                                after[k].address, k)
      BY DEF DataFollows
    <2>1. CASE k \in DOMAIN ev
      <3>1. KnownAt(ev, clients, ev[k].id, ev[k].address, k)
        BY <1>1, <2>1 DEF Follows, DataFollows
      <3>2. k \in 1 .. n + 1 /\ after[k] = ev[k]
        BY <1>1, <2>1
      <3> QED BY <1>2, <3>1, <3>2
    <2>2. CASE k = n + 1
      <3>1. KnownAt(ev, clients, x.id, x.address, n + 1)
        BY <1>1, <1>4, <2>2
      <3>2. n + 1 \in 1 .. n + 1
        BY <1>1
      <3> QED BY <1>1, <1>2, <2>2, <3>1, <3>2
    <2> QED BY <1>1, <2>1, <2>2
  <1>6. AddedFollows(after, clients)
    <2> SUFFICES ASSUME NEW k \in DOMAIN after, after[k].type = "added"
                 PROVE  Unknown(after, clients, after[k].id, k)
      BY DEF AddedFollows
    <2>1. CASE k \in DOMAIN ev
      <3>1. Unknown(ev, clients, ev[k].id, k)
        BY <1>1, <2>1 DEF Follows, AddedFollows
      <3>2. k \in 1 .. n + 1 /\ after[k] = ev[k]
        BY <1>1, <2>1
      <3> QED BY <1>2, <3>1, <3>2
    <2>2. CASE k = n + 1
      <3>1. Unknown(ev, clients, x.id, n + 1)
        BY <1>1, <1>4, <2>2
      <3>2. n + 1 \in 1 .. n + 1
        BY <1>1
      <3> QED BY <1>1, <1>2, <2>2, <3>1, <3>2
    <2> QED BY <1>1, <2>1, <2>2
  <1>7. EndsWithPeers(after, peers2, clients)
    <2> SUFFICES ASSUME NEW id \in Ids
                 PROVE  IF id \in DOMAIN peers2
                        THEN KnownAt(after, clients, id, peers2[id], n + 2)
                        ELSE Unknown(after, clients, id, n + 2)
      BY <1>1 DEF EndsWithPeers
    <2>1. CASE id # x.id \/ x.type = "data"
      BY <1>2, <1>4, <2>1
    <2>2. CASE id = x.id /\ x.type # "data"
      BY <1>2, <2>2
    <2> QED BY <2>1, <2>2
  <1>8. DeniedAreDeleted(after, peers2, clients, commands)
    <2> SUFFICES ASSUME NEW id \in DOMAIN peers2, NoPrior(after, id, n + 2),
                        id \notin DOMAIN clients
                 PROVE  \E i \in DOMAIN commands : commands[i] = id
      BY <1>1 DEF DeniedAreDeleted
    <2>1. NoPrior(ev, id, n + 1) /\ ~(x.id = id /\ x.type # "data")
      BY <1>3
    <2>2. id \in DOMAIN peers
      BY <2>1
    <2> QED BY <2>1, <2>2 DEF Follows, DeniedAreDeleted, n
  <1> QED BY <1>5, <1>6, <1>7, <1>8 DEF Follows, after

-----------------------------------------------------------------------------
(* Events that are taken. *)

\* Every place is one nearer.
LEMMA TailPriors ==
    ASSUME NEW ev \in Seq(Event), ev # <<>>, NEW id, NEW k \in Nat
    PROVE  /\ \A j \in Nat : Prior(Tail(ev), id, j, k) =>
                                 /\ Prior(ev, id, j + 1, k + 1)
                                 /\ Tail(ev)[j] = ev[j + 1]
           /\ NoPrior(Tail(ev), id, k) =>
                  IF ev[1].id = id /\ ev[1].type # "data" /\ k > 0
                  THEN Prior(ev, id, 1, k + 1)
                  ELSE NoPrior(ev, id, k + 1)
  <1> DEFINE after == Tail(ev)
             n == Len(ev)
  <1>1. /\ n \in Nat /\ n > 0 /\ DOMAIN ev = 1 .. n /\ DOMAIN after = 1 .. n - 1
        /\ \A i \in DOMAIN after : after[i] = ev[i + 1]
    OBVIOUS
  <1> HIDE DEF after, n
  <1>2. \A j : j \in Places(after, id) => /\ j \in Nat
                                          /\ j + 1 \in Places(ev, id)
                                          /\ after[j] = ev[j + 1]
    BY <1>1 DEF Places
  <1>3. \A l \in Places(ev, id) : /\ l \in Nat
                                  /\ l # 1 => l - 1 \in Places(after, id)
    BY <1>1 DEF Places
  <1>4. ASSUME NEW j \in Nat, Prior(after, id, j, k)
        PROVE  Prior(ev, id, j + 1, k + 1) /\ after[j] = ev[j + 1]
    <2>1. /\ j \in Places(after, id) /\ j < k
          /\ \A l \in Places(after, id) : l < k => l <= j
      BY <1>4 DEF Prior
    <2>2. ASSUME NEW l \in Places(ev, id), l < k + 1 PROVE l <= j + 1
      <3>1. CASE l = 1
        BY <1>3, <3>1
      <3>2. CASE l # 1
        <4>1. l - 1 \in Places(after, id) /\ l \in Nat
          BY <1>3, <3>2
        <4>2. l - 1 < k
          BY <2>2, <4>1
        <4>3. l - 1 <= j
          BY <2>1, <4>1, <4>2
        <4> QED BY <4>1, <4>3
      <3> QED BY <3>1, <3>2
    <2> QED BY <1>2, <2>1, <2>2 DEF Prior
  <1>5. ASSUME NoPrior(after, id, k),
               ev[1].id = id /\ ev[1].type # "data" /\ k > 0
        PROVE  Prior(ev, id, 1, k + 1)
    <2>1. 1 \in Places(ev, id)
      BY <1>1, <1>5 DEF Places
    <2>2. \A l \in Places(ev, id) : l < k + 1 => l <= 1
      BY <1>3, <1>5 DEF NoPrior
    <2> QED BY <1>5, <2>1, <2>2 DEF Prior
  <1>6. ASSUME NoPrior(after, id, k),
               ~(ev[1].id = id /\ ev[1].type # "data" /\ k > 0)
        PROVE  NoPrior(ev, id, k + 1)
    <2> SUFFICES ASSUME NEW l \in Places(ev, id), l < k + 1 PROVE FALSE
      BY DEF NoPrior
    <2>1. CASE l = 1
      <3>1. k > 0
        BY <2>1
      <3> QED BY <1>6, <2>1, <3>1 DEF Places
    <2>2. CASE l # 1
      BY <1>3, <1>6, <2>2 DEF NoPrior
    <2> QED BY <2>1, <2>2
  <1> QED BY <1>4, <1>5, <1>6 DEF after

\* What is known at a place stays known when the first event has been handled,
\* by a client if it was added and not by one if it was removed.
LEMMA TailKeeps ==
    ASSUME NEW ev \in Seq(Event), ev # <<>>, NEW clients, NEW clients2,
           NEW id, NEW a, NEW k \in Nat,
           IF ev[1].type = "data" \/ ev[1].id # id
           THEN /\ id \in DOMAIN clients2 <=> id \in DOMAIN clients
                /\ id \in DOMAIN clients => clients2[id] = clients[id]
           ELSE IF ev[1].type = "added"
           THEN id \in DOMAIN clients2 /\ clients2[id] = ev[1].address
           ELSE id \notin DOMAIN clients2
    PROVE  /\ KnownAt(ev, clients, id, a, k + 1) /\ k > 0 =>
                  KnownAt(Tail(ev), clients2, id, a, k)
           /\ Unknown(ev, clients, id, k + 1) /\ k > 0 =>
                  Unknown(Tail(ev), clients2, id, k)
           /\ KnownAt(ev, clients, id, a, k + 1) /\ k > 0
                  /\ NoPrior(Tail(ev), id, k) /\ id \notin DOMAIN clients2 =>
                  NoPrior(ev, id, k + 1) /\ id \notin DOMAIN clients
  <1> DEFINE after == Tail(ev)
  <1>1. /\ \A j \in Nat : Prior(after, id, j, k) =>
                              /\ Prior(ev, id, j + 1, k + 1)
                              /\ after[j] = ev[j + 1]
        /\ NoPrior(after, id, k) =>
               IF ev[1].id = id /\ ev[1].type # "data" /\ k > 0
               THEN Prior(ev, id, 1, k + 1)
               ELSE NoPrior(ev, id, k + 1)
    BY TailPriors
  <1>2. ev[1].type \in {"added", "removed", "data"}
    <2>1. ev[1] \in Event
      OBVIOUS
    <2> QED BY <2>1 DEF Event
  <1> HIDE DEF after
  <1>3. \A j \in Nat : j + 1 \in Nat
    OBVIOUS
  <1>4. ASSUME KnownAt(ev, clients, id, a, k + 1)
        PROVE  /\ k > 0 => KnownAt(after, clients2, id, a, k)
               /\ k > 0 /\ NoPrior(after, id, k) /\ id \notin DOMAIN clients2 =>
                      NoPrior(ev, id, k + 1) /\ id \notin DOMAIN clients
    BY <1>1, <1>2, <1>3, <1>4 DEF KnownAt
  <1>5. ASSUME Unknown(ev, clients, id, k + 1), k > 0
        PROVE  Unknown(after, clients2, id, k)
    BY <1>1, <1>2, <1>3, <1>5 DEF Unknown
  <1> QED BY <1>4, <1>5 DEF after

\* The Server thread handles the first event: a change changes its clients.
LEMMA FollowsTail ==
    ASSUME NEW ev \in Seq(Event), ev # <<>>,
           NEW peers, NEW clients, NEW clients2, NEW commands,
           DOMAIN peers \subseteq Ids,
           Follows(ev, peers, clients, commands),
           clients2 = IF ev[1].type = "data" THEN clients
                      ELSE HandlePeerChange(clients, ev[1])
    PROVE  Follows(Tail(ev), peers, clients2, commands)
  <1> DEFINE after == Tail(ev)
             n == Len(ev)
  <1>1. /\ n \in Nat /\ n > 0 /\ DOMAIN ev = 1 .. n /\ DOMAIN after = 1 .. n - 1
        /\ \A i \in DOMAIN after : after[i] = ev[i + 1]
        /\ Len(after) + 1 = n
    OBVIOUS
  <1>2. ev[1] \in Event /\ ev[1].type \in {"added", "removed", "data"}
    <2>1. ev[1] \in Event
      OBVIOUS
    <2> QED BY <2>1 DEF Event
  <1>3. \A id : IF ev[1].type = "data" \/ ev[1].id # id
                THEN /\ id \in DOMAIN clients2 <=> id \in DOMAIN clients
                     /\ id \in DOMAIN clients => clients2[id] = clients[id]
                ELSE IF ev[1].type = "added"
                THEN id \in DOMAIN clients2 /\ clients2[id] = ev[1].address
                ELSE id \notin DOMAIN clients2
    BY <1>2 DEF HandlePeerChange, Set, Unset, Restrict
  <1>4. \A id, a : \A k \in Nat \ {0} :
            /\ KnownAt(ev, clients, id, a, k + 1) =>
                   KnownAt(after, clients2, id, a, k)
            /\ Unknown(ev, clients, id, k + 1) =>
                   Unknown(after, clients2, id, k)
            /\ KnownAt(ev, clients, id, a, k + 1)
                   /\ NoPrior(after, id, k) /\ id \notin DOMAIN clients2 =>
                   NoPrior(ev, id, k + 1) /\ id \notin DOMAIN clients
    <2> SUFFICES
          ASSUME NEW id, NEW a, NEW k \in Nat \ {0}
          PROVE  /\ KnownAt(ev, clients, id, a, k + 1) =>
                        KnownAt(after, clients2, id, a, k)
                 /\ Unknown(ev, clients, id, k + 1) =>
                        Unknown(after, clients2, id, k)
                 /\ KnownAt(ev, clients, id, a, k + 1)
                        /\ NoPrior(after, id, k) /\ id \notin DOMAIN clients2 =>
                        NoPrior(ev, id, k + 1) /\ id \notin DOMAIN clients
      OBVIOUS
    <2>1. k \in Nat /\ k > 0
      OBVIOUS
    <2>2. IF ev[1].type = "data" \/ ev[1].id # id
          THEN /\ id \in DOMAIN clients2 <=> id \in DOMAIN clients
               /\ id \in DOMAIN clients => clients2[id] = clients[id]
          ELSE IF ev[1].type = "added"
          THEN id \in DOMAIN clients2 /\ clients2[id] = ev[1].address
          ELSE id \notin DOMAIN clients2
      BY <1>3
    <2> HIDE DEF after, n
    <2>3. after = Tail(ev)
      BY DEF after
    <2> QED BY <2>1, <2>2, <2>3, TailKeeps
  <1> HIDE DEF after, n
  <1>5. \A k \in DOMAIN after : /\ k \in Nat \ {0} /\ k + 1 \in DOMAIN ev
                                /\ after[k] = ev[k + 1]
    BY <1>1
  <1>6. DataFollows(after, clients2)
    BY <1>4, <1>5 DEF DataFollows, Follows
  <1>7. AddedFollows(after, clients2)
    BY <1>4, <1>5 DEF AddedFollows, Follows
  <1>8. n \in Nat \ {0} /\ Len(ev) + 1 = n + 1
    BY <1>1 DEF n
  <1>9. EndsWithPeers(after, peers, clients2)
    BY <1>1, <1>4, <1>8 DEF EndsWithPeers, Follows
  <1>10. DeniedAreDeleted(after, peers, clients2, commands)
    <2> SUFFICES ASSUME NEW id \in DOMAIN peers, NoPrior(after, id, n),
                        id \notin DOMAIN clients2
                 PROVE  \E i \in DOMAIN commands : commands[i] = id
      BY <1>1 DEF DeniedAreDeleted
    <2>1. KnownAt(ev, clients, id, peers[id], n + 1)
      BY <1>8 DEF EndsWithPeers, Follows
    <2>2. NoPrior(ev, id, n + 1) /\ id \notin DOMAIN clients
      BY <1>4, <1>8, <2>1
    <2> QED BY <1>8, <2>2 DEF DeniedAreDeleted, Follows
  <1> QED BY <1>6, <1>7, <1>9, <1>10 DEF Follows, after

\* The Server thread forgets clients, whose peers are to be deleted.
LEMMA FollowsFewer ==
    ASSUME NEW ev, NEW peers, NEW clients, NEW clients2,
           NEW commands, NEW commands2,
           Follows(ev, peers, clients, commands),
           \A id \in DOMAIN clients2 : /\ id \in DOMAIN clients
                                       /\ clients2[id] = clients[id],
           \A id \in DOMAIN peers :
               \/ id \in DOMAIN clients \ DOMAIN clients2
               \/ \E i \in DOMAIN commands : commands[i] = id
               => \E i \in DOMAIN commands2 : commands2[i] = id
    PROVE  Follows(ev, peers, clients2, commands2)
  <1>1. \A id, a, k :
            /\ KnownAt(ev, clients, id, a, k) => KnownAt(ev, clients2, id, a, k)
            /\ Unknown(ev, clients, id, k) => Unknown(ev, clients2, id, k)
    BY DEF KnownAt, Unknown
  <1>2. DataFollows(ev, clients2) /\ AddedFollows(ev, clients2)
    BY <1>1 DEF Follows, DataFollows, AddedFollows
  <1>3. EndsWithPeers(ev, peers, clients2)
    BY <1>1 DEF Follows, EndsWithPeers
  <1>4. DeniedAreDeleted(ev, peers, clients2, commands2)
    BY DEF Follows, DeniedAreDeleted
  <1> QED BY <1>2, <1>3, <1>4 DEF Follows

-----------------------------------------------------------------------------
(* About sequences and numbers. *)

LEMMA ConcatAppend ==
    ASSUME NEW s \in Seq(Event), NEW t \in Seq(Event), NEW x \in Event
    PROVE  s \o Append(t, x) = Append(s \o t, x)
  <1>1. Append(t, x) = t \o <<x>> /\ Append(s \o t, x) = (s \o t) \o <<x>>
    BY AppendIsConcat, ConcatProperties
  <1>2. (s \o t) \o <<x>> = s \o (t \o <<x>>)
    <2>1. <<x>> \in Seq(Event)
      OBVIOUS
    <2> QED BY <2>1, ConcatAssociative
  <1> QED BY <1>1, <1>2

\* The first of t goes to the end of s.
LEMMA ConcatMoves ==
    ASSUME NEW s \in Seq(Event), NEW t \in Seq(Event), t # <<>>
    PROVE  (s \o <<Head(t)>>) \o Tail(t) = s \o t
  <1>1. /\ <<Head(t)>> \in Seq(Event) /\ Tail(t) \in Seq(Event)
        /\ Len(t) \in Nat /\ Len(t) > 0
    OBVIOUS
  <1>2. <<Head(t)>> \o Tail(t) = t
    OBVIOUS
  <1> QED BY <1>1, <1>2, ConcatAssociative

\* The first of s is the first of both.
LEMMA ConcatHead ==
    ASSUME NEW s \in Seq(Event), NEW t \in Seq(Event), s # <<>>
    PROVE  /\ s \o t \in Seq(Event) /\ s \o t # <<>>
           /\ (s \o t)[1] = Head(s)
           /\ Tail(s \o t) = Tail(s) \o t
  OBVIOUS

LEMMA MinOfNats ==
    ASSUME NEW S \in SUBSET Nat, S # {}
    PROVE  Min(S) \in S
  <1>1. \E j \in S : \A k \in S : j <= k
    <2>1. PICK n \in S : TRUE
      OBVIOUS
    <2>2. PICK j \in S : \A k \in S : <<k, j>> \notin OpToRel(<, Nat)
      BY WFMin, NatLessThanWellFounded
    <2>3. \A k \in S : k < j => <<k, j>> \in OpToRel(<, Nat)
      BY Zenon DEF OpToRel
    <2>4. \A k \in S : ~(k < j)
      BY <2>2, <2>3
    <2> QED BY <2>4
  <1> QED BY <1>1 DEF Min

\* The greatest of numbers that are not above n: n minus it is the least.
LEMMA MaxOfNats ==
    ASSUME NEW n \in Nat, NEW S \in SUBSET (1 .. n), S # {}
    PROVE  Max(S) \in S /\ \A k \in S : k <= Max(S)
  <1> DEFINE D == {d \in Nat : n - d \in S}
  <1>1. D # {}
    <2>1. PICK k \in S : TRUE
      OBVIOUS
    <2>2. n - k \in Nat /\ n - (n - k) = k
      BY <2>1
    <2> QED BY <2>1, <2>2
  <1>2. PICK d \in D : \A e \in D : ~(e < d)
    <2>1. PICK d \in D : \A e \in D : <<e, d>> \notin OpToRel(<, Nat)
      BY <1>1, WFMin, NatLessThanWellFounded
    <2>2. \A e \in D : e < d => <<e, d>> \in OpToRel(<, Nat)
      BY Zenon DEF OpToRel
    <2> QED BY <2>1, <2>2
  <1>3. n - d \in S
    OBVIOUS
  <1>4. ASSUME NEW k \in S PROVE n - d >= k
    <2>1. n - k \in Nat /\ n - (n - k) = k /\ d \in Nat
      OBVIOUS
    <2>2. n - k \in D
      BY <2>1
    <2> QED BY <1>2, <2>1, <2>2
  <1>5. \E x \in S : \A y \in S : x >= y
    BY <1>3, <1>4
  <1>6. Max(S) \in S /\ \A y \in S : Max(S) >= y
    BY <1>5 DEF Max
  <1> QED BY <1>6

-----------------------------------------------------------------------------
(* The steps of the Connection thread. *)

\* Events' when an event is put.
LEMMA EventsPut ==
    ASSUME QueuesTyped, NEW x \in Event, NEW before \in Seq(Event)
    PROVE  (m_peer_change_queue \o received) \o Append(before, x) =
               Append((m_peer_change_queue \o received) \o before, x)
  BY ConcatAppend, ConcatProperties DEF QueuesTyped

\* What the Connection thread does between two of its steps.
LEMMA TakenStays ==
    ASSUME Taken, UNCHANGED serverVars
    PROVE  Taken'
  BY DEF Taken, serverVars

\* deletePeer, after at most one peer was made.
LEMMA DeleteFollows ==
    ASSUME QueuesTyped, Taken, UNCHANGED <<serverVars, net>>,
           NEW peers, DOMAIN peers \subseteq Ids,
           \A i \in DOMAIN peers : peers[i] \in Addresses,
           NEW events \in Seq(Event), NEW id \in DOMAIN peers,
           Follows((m_peer_change_queue \o received) \o events, peers,
                   m_clients, m_command_queue),
           m_command_queue' \in Seq(Ids),
           \A i \in DOMAIN peers \ {id} :
               (\E k \in DOMAIN m_command_queue : m_command_queue[k] = i) =>
               \E k \in DOMAIN m_command_queue' : m_command_queue'[k] = i,
           DeletePeer(peers, events, id)
    PROVE  PeerInv'
  <1> DEFINE x == Removed(id, peers[id])
             evs == (m_peer_change_queue \o received) \o events
  <1>1. /\ x \in Event /\ x.type = "removed" /\ x.id = id
        /\ m_peers' = Unset(peers, id) /\ m_event_queue' = Append(events, x)
    BY DEF Event, Removed, DeletePeer
  <1>2. /\ DOMAIN Unset(peers, id) = DOMAIN peers \ {id}
        /\ \A i \in DOMAIN peers \ {id} : Unset(peers, id)[i] = peers[i]
    BY DEF Unset, Restrict
  <1>3. evs \in Seq(Event)
    BY ConcatProperties DEF QueuesTyped
  <1> HIDE DEF x
  <1>4. Events' = Append(evs, x)
    <2>1. /\ m_peer_change_queue' = m_peer_change_queue /\ received' = received
          /\ m_event_queue' = Append(events, x)
      BY <1>1 DEF serverVars
    <2>2. (m_peer_change_queue \o received) \o Append(events, x) =
              Append(evs, x)
      BY <1>1, EventsPut
    <2> QED BY <2>1, <2>2 DEF Events
  <1> HIDE DEF evs
  <1>5. Follows(evs, peers, m_clients, m_command_queue)
    BY DEF evs
  <1>6. Follows(Append(evs, x), Unset(peers, id), m_clients, m_command_queue)
    <2>1. DOMAIN Unset(peers, id) \subseteq Ids
      BY <1>2
    <2>2. \A i \in Ids \ {x.id} :
              /\ i \in DOMAIN Unset(peers, id) <=> i \in DOMAIN peers
              /\ i \in DOMAIN peers => Unset(peers, id)[i] = peers[i]
      BY <1>1, <1>2
    <2>3. x.id \notin DOMAIN Unset(peers, id)
      BY <1>1, <1>2
    <2> QED BY <1>1, <1>3, <1>5, <2>1, <2>2, <2>3, FollowsAppend
  <1>7. Follows(Append(evs, x), Unset(peers, id), m_clients, m_command_queue')
    <2>1. \A i \in DOMAIN Unset(peers, id) :
              \/ i \in DOMAIN m_clients \ DOMAIN m_clients
              \/ \E k \in DOMAIN m_command_queue : m_command_queue[k] = i
              => \E k \in DOMAIN m_command_queue' : m_command_queue'[k] = i
      BY <1>2
    <2> QED BY <1>6, <2>1, FollowsFewer
  <1>8. Follows(Events, m_peers, m_clients, m_command_queue)'
    BY <1>1, <1>4, <1>7 DEF serverVars
  <1>9. QueuesTyped'
    <2>1. m_event_queue' \in Seq(Event)
      BY <1>1
    <2>2. DOMAIN m_peers' \subseteq Ids
          /\ \A i \in DOMAIN m_peers' : m_peers'[i] \in Addresses
      BY <1>1, <1>2
    <2> QED BY <2>1, <2>2 DEF QueuesTyped, serverVars
  <1> QED BY <1>8, <1>9, TakenStays DEF PeerInv

LEMMA ReceiveDatagramKeeps ==
    ASSUME PeerInv, NEW d \in net, ReceiveDatagram(d)
    PROVE  PeerInv'
  <1> DEFINE
        a     == d.address
        same  == {i \in DOMAIN m_peers : m_peers[i] = a}
        isNew == d.id = PEER_ID_INEXISTENT /\ same = {} /\ FreeIds # {}
        id    == IF d.id # PEER_ID_INEXISTENT THEN d.id
                 ELSE IF same # {} THEN Min(same)
                 ELSE IF isNew THEN Min(FreeIds)
                 ELSE PEER_ID_INEXISTENT
        peers == IF isNew THEN Set(m_peers, id, a) ELSE m_peers
        added == IF isNew THEN Append(m_event_queue, Added(id, a))
                          ELSE m_event_queue
        taken == m_peer_change_queue \o received
  <1>1. UNCHANGED <<m_command_queue, serverVars, net>>
    BY DEF ReceiveDatagram
  <1>2. \/ id \in DOMAIN peers /\ peers[id] = a /\ DeletePeer(peers, added, id)
        \/ /\ id \in DOMAIN peers /\ peers[id] = a
           /\ m_peers' = peers
           /\ m_event_queue' = Append(added, Data(id, a))
        \/ m_peers' = peers /\ m_event_queue' = added
    BY DEF ReceiveDatagram
  <1>3. a \in Addresses
    BY DEF PeerInv, QueuesTyped
  <1>4. isNew => id \in Ids /\ id \notin DOMAIN m_peers
    <2>1. isNew => id = Min(FreeIds) /\ FreeIds # {}
      OBVIOUS
    <2>2. FreeIds \in SUBSET Nat
      BY PeerConstants DEF FreeIds, Ids
    <2> HIDE DEF isNew, id
    <2>3. isNew => id \in FreeIds
      BY <2>1, <2>2, MinOfNats
    <2> QED BY <2>3 DEF FreeIds
  <1> HIDE DEF isNew, id, a
  <1>5. /\ DOMAIN peers \subseteq Ids
        /\ \A i \in DOMAIN peers : peers[i] \in Addresses
        /\ added \in Seq(Event)
        /\ isNew => Added(id, a) \in Event
    <2>1. isNew => Added(id, a) \in Event
      BY <1>3, <1>4 DEF Added, Event
    <2>2. added \in Seq(Event)
      BY <2>1 DEF PeerInv, QueuesTyped
    <2> QED BY <1>3, <1>4, <2>1, <2>2 DEF PeerInv, QueuesTyped, Set
  <1>6. Follows(taken \o added, peers, m_clients, m_command_queue)
    <2>1. CASE ~isNew
      BY <2>1 DEF PeerInv, Events
    <2>2. CASE isNew
      <3> DEFINE x == Added(id, a)
      <3>1. /\ x \in Event /\ x.type = "added" /\ x.id = id /\ x.address = a
            /\ Events \in Seq(Event) /\ DOMAIN m_peers \subseteq Ids
        BY <1>5, <2>2, ConcatProperties
           DEF Added, Events, PeerInv, QueuesTyped
      <3>2. taken \o added = Append(Events, x)
        <4>1. added = Append(m_event_queue, x) /\ m_event_queue \in Seq(Event)
          BY <2>2 DEF PeerInv, QueuesTyped
        <4> HIDE DEF x
        <4> QED BY <3>1, <4>1, EventsPut DEF PeerInv, Events
      <3> HIDE DEF x
      <3>3. /\ id \notin DOMAIN m_peers /\ id \in DOMAIN peers /\ peers[id] = a
            /\ \A i \in Ids \ {id} :
                   /\ i \in DOMAIN peers <=> i \in DOMAIN m_peers
                   /\ i \in DOMAIN m_peers => peers[i] = m_peers[i]
        BY <1>4, <2>2 DEF Set
      <3>4. Follows(Events, m_peers, m_clients, m_command_queue)
        BY DEF PeerInv
      <3> HIDE DEF peers, added, taken
      <3>5. DOMAIN peers \subseteq Ids
        BY <1>5
      <3>6. Follows(Append(Events, x), peers, m_clients, m_command_queue)
        BY <3>1, <3>3, <3>4, <3>5, FollowsAppend
      <3> QED BY <3>2, <3>6
    <2> QED BY <2>1, <2>2
  <1> HIDE DEF peers, added
  <1>7. CASE /\ id \in DOMAIN peers /\ peers[id] = a
             /\ DeletePeer(peers, added, id)
    <2>1. /\ QueuesTyped /\ Taken /\ m_command_queue' = m_command_queue
          /\ m_command_queue' \in Seq(Ids)
      BY <1>1 DEF PeerInv, QueuesTyped
    <2> QED BY <1>1, <1>5, <1>6, <1>7, <2>1, DeleteFollows
  <1>8. CASE /\ id \in DOMAIN peers /\ peers[id] = a
             /\ m_peers' = peers
             /\ m_event_queue' = Append(added, Data(id, a))
    <2> DEFINE x == Data(id, a)
    <2>1. /\ x \in Event /\ x.type = "data" /\ x.id = id /\ x.address = a
          /\ taken \o added \in Seq(Event)
      BY <1>3, <1>5, <1>8, ConcatProperties
         DEF Data, Event, PeerInv, QueuesTyped
    <2> HIDE DEF x
    <2>2. Follows(Append(taken \o added, x), peers, m_clients, m_command_queue)
      BY <1>5, <1>6, <1>8, <2>1, FollowsAppend
    <2>3. taken \o Append(added, x) = Append(taken \o added, x)
      BY <1>5, <2>1, EventsPut DEF PeerInv
    <2>4. Follows(Events, m_peers, m_clients, m_command_queue)'
      BY <1>1, <1>8, <2>2, <2>3 DEF Events, serverVars, x
    <2>5. m_event_queue' \in Seq(Event)
      BY <1>5, <1>8, <2>1 DEF x
    <2>6. QueuesTyped'
      BY <1>1, <1>5, <1>8, <2>5 DEF PeerInv, QueuesTyped, serverVars
    <2> QED BY <1>1, <2>4, <2>6, TakenStays DEF PeerInv
  <1>9. CASE m_peers' = peers /\ m_event_queue' = added
    <2>1. Follows(Events, m_peers, m_clients, m_command_queue)'
      BY <1>1, <1>6, <1>9 DEF Events, serverVars
    <2>2. QueuesTyped'
      BY <1>1, <1>5, <1>9 DEF PeerInv, QueuesTyped, serverVars
    <2> QED BY <1>1, <2>1, <2>2, TakenStays DEF PeerInv
  <1> QED BY <1>2, <1>7, <1>8, <1>9

LEMMA TimeoutPeerKeeps ==
    ASSUME PeerInv, NEW id \in Ids, TimeoutPeer(id)
    PROVE  PeerInv'
  <1>1. /\ id \in DOMAIN m_peers
        /\ DeletePeer(m_peers, m_event_queue, id)
        /\ UNCHANGED <<m_command_queue, serverVars, net>>
    BY DEF TimeoutPeer
  <1>2. /\ QueuesTyped /\ Taken
        /\ Follows((m_peer_change_queue \o received) \o m_event_queue, m_peers,
                   m_clients, m_command_queue)
    BY DEF PeerInv, Events
  <1>3. /\ DOMAIN m_peers \subseteq Ids
        /\ \A i \in DOMAIN m_peers : m_peers[i] \in Addresses
        /\ m_event_queue \in Seq(Event) /\ m_command_queue' \in Seq(Ids)
    BY <1>1, <1>2 DEF QueuesTyped
  <1> QED BY <1>1, <1>2, <1>3, DeleteFollows

LEMMA ProcessCommandKeeps ==
    ASSUME PeerInv, ProcessCommand
    PROVE  PeerInv'
  <1> DEFINE id == Head(m_command_queue)
  <1>1. /\ m_command_queue # <<>>
        /\ m_command_queue' = Tail(m_command_queue)
        /\ IF id \in DOMAIN m_peers
           THEN DeletePeer(m_peers, m_event_queue, id)
           ELSE UNCHANGED connVars
        /\ UNCHANGED <<serverVars, net>>
    BY DEF ProcessCommand
  <1>2. /\ QueuesTyped /\ Taken
        /\ Follows((m_peer_change_queue \o received) \o m_event_queue, m_peers,
                   m_clients, m_command_queue)
    BY DEF PeerInv, Events
  <1>3. /\ DOMAIN m_peers \subseteq Ids
        /\ \A i \in DOMAIN m_peers : m_peers[i] \in Addresses
        /\ m_event_queue \in Seq(Event) /\ m_command_queue \in Seq(Ids)
    BY <1>2 DEF QueuesTyped
  <1>4. m_command_queue' \in Seq(Ids)
    BY <1>1, <1>3
  <1>5. \A i :
            i # id
                /\ (\E k \in DOMAIN m_command_queue : m_command_queue[k] = i) =>
            \E k \in DOMAIN m_command_queue' : m_command_queue'[k] = i
    <2> SUFFICES ASSUME NEW i, i # id,
                        NEW k \in DOMAIN m_command_queue, m_command_queue[k] = i
                 PROVE  \E l \in DOMAIN m_command_queue' :
                            m_command_queue'[l] = i
      OBVIOUS
    <2>1. k # 1
      BY <1>1, <1>3
    <2>2. /\ k - 1 \in DOMAIN Tail(m_command_queue)
          /\ Tail(m_command_queue)[k - 1] = m_command_queue[k]
      BY <1>1, <1>3, <2>1
    <2> QED BY <1>1, <2>2
  <1> HIDE DEF id
  <1>6. CASE id \in DOMAIN m_peers
    BY <1>1, <1>2, <1>3, <1>4, <1>5, <1>6, DeleteFollows
  <1>7. CASE id \notin DOMAIN m_peers
    <2>1. UNCHANGED <<m_peers, m_event_queue, serverVars, net>>
      BY <1>1, <1>7 DEF connVars
    <2>2. \A i \in DOMAIN m_peers :
              \/ i \in DOMAIN m_clients \ DOMAIN m_clients
              \/ \E k \in DOMAIN m_command_queue : m_command_queue[k] = i
              => \E k \in DOMAIN m_command_queue' : m_command_queue'[k] = i
      BY <1>5, <1>7
    <2>3. Follows(Events, m_peers, m_clients, m_command_queue')
      BY <1>2, <2>2, FollowsFewer DEF Events
    <2>4. Follows(Events, m_peers, m_clients, m_command_queue)'
      BY <2>1, <2>3 DEF Events, serverVars
    <2>5. QueuesTyped'
      BY <1>2, <1>4, <2>1 DEF QueuesTyped, serverVars
    <2> QED BY <1>2, <2>1, <2>4, <2>5, TakenStays DEF PeerInv
  <1> QED BY <1>6, <1>7

-----------------------------------------------------------------------------
(* The steps of the Server thread. *)

LEMMA HandlePeerChangesKeeps ==
    ASSUME PeerInv, HandlePeerChanges
    PROVE  PeerInv'
  <1> DEFINE c == Head(m_peer_change_queue)
  <1>1. /\ m_peer_change_queue # <<>>
        /\ m_clients' = HandlePeerChange(m_clients, c)
        /\ m_peer_change_queue' = Tail(m_peer_change_queue)
        /\ UNCHANGED <<m_peers, m_event_queue, m_command_queue, pc, received,
                       net>>
    BY DEF HandlePeerChanges, connVars
  <1>2. /\ QueuesTyped /\ Taken
        /\ m_peer_change_queue \in Seq(Event) /\ received \in Seq(Event)
        /\ m_event_queue \in Seq(Event) /\ DOMAIN m_peers \subseteq Ids
        /\ Follows(Events, m_peers, m_clients, m_command_queue)
    BY DEF PeerInv, QueuesTyped
  <1>3. c.type # "data"
    BY <1>1, <1>2 DEF Taken
  <1>4. /\ Events \in Seq(Event) /\ Events # <<>> /\ Events[1] = c
        /\ Tail(Events) = Events'
    <2> DEFINE s == m_peer_change_queue \o received
    <2>1. /\ s \in Seq(Event) /\ s # <<>> /\ s[1] = c
          /\ Tail(s) = Tail(m_peer_change_queue) \o received
      BY <1>1, <1>2, ConcatHead
    <2>2. s[1] = Head(s)
      BY <2>1
    <2> HIDE DEF s
    <2>3. /\ s \o m_event_queue \in Seq(Event) /\ s \o m_event_queue # <<>>
          /\ (s \o m_event_queue)[1] = c
          /\ Tail(s \o m_event_queue) = Tail(s) \o m_event_queue
      BY <1>2, <2>1, <2>2, ConcatHead
    <2> QED BY <1>1, <2>1, <2>3 DEF Events, s
  <1>5. Follows(Tail(Events), m_peers, m_clients', m_command_queue)
    BY <1>1, <1>2, <1>3, <1>4, FollowsTail
  <1>6. Follows(Events, m_peers, m_clients, m_command_queue)'
    BY <1>1, <1>4, <1>5
  <1>7. QueuesTyped'
    BY <1>1, <1>2 DEF QueuesTyped
  <1>8. Taken'
    <2>1. /\ pc # "process"
          /\ \A i \in DOMAIN Tail(m_peer_change_queue) :
                 Tail(m_peer_change_queue)[i].type # "data"
      BY <1>1, <1>2 DEF Taken
    <2> QED BY <1>1, <1>2, <2>1 DEF Taken
  <1> QED BY <1>6, <1>7, <1>8 DEF PeerInv

LEMMA ReceiveEventKeeps ==
    ASSUME PeerInv, ReceiveEvent
    PROVE  PeerInv'
  <1> DEFINE h == Head(m_event_queue)
  <1>1. /\ pc = "receive"
        /\ UNCHANGED <<m_peers, m_command_queue, m_clients, net>>
    BY DEF ReceiveEvent
  <1>2. /\ QueuesTyped /\ Taken /\ received = <<>>
        /\ m_peer_change_queue \in Seq(Event)
        /\ m_event_queue \in Seq(Event)
        /\ Follows(Events, m_peers, m_clients, m_command_queue)
    BY <1>1 DEF PeerInv, QueuesTyped, Taken
  <1>3. Events = m_peer_change_queue \o m_event_queue
    BY <1>2, ConcatEmptySeq DEF Events
  <1>4. CASE /\ pc' = "step"
             /\ UNCHANGED <<m_event_queue, m_peer_change_queue, received>>
    <2>1. QueuesTyped' /\ Taken' /\ Events' = Events
      BY <1>1, <1>2, <1>4 DEF QueuesTyped, Taken, Events
    <2> QED BY <1>1, <1>2, <2>1 DEF PeerInv
  <1>5. CASE /\ m_event_queue # <<>>
             /\ m_event_queue' = Tail(m_event_queue)
             /\ h.type = "data"
             /\ received' = <<h>> /\ pc' = "sync"
             /\ UNCHANGED m_peer_change_queue
    <2>1. h \in Event /\ Tail(m_event_queue) \in Seq(Event)
      BY <1>2, <1>5
    <2>2. Events' = Events
      BY <1>2, <1>3, <1>5, ConcatMoves DEF Events
    <2>3. QueuesTyped'
      BY <1>1, <1>2, <1>5, <2>1 DEF QueuesTyped
    <2>4. Taken'
      <3> HIDE DEF h
      <3> QED BY <1>2, <1>5, <2>1 DEF Taken
    <2> QED BY <1>1, <1>2, <2>2, <2>3, <2>4 DEF PeerInv
  <1>6. CASE /\ m_event_queue # <<>>
             /\ m_event_queue' = Tail(m_event_queue)
             /\ h.type # "data"
             /\ m_peer_change_queue' = Append(m_peer_change_queue, h)
             /\ UNCHANGED <<received, pc>>
    <2>1. h \in Event /\ Tail(m_event_queue) \in Seq(Event)
      BY <1>2, <1>6
    <2>2. m_peer_change_queue' = m_peer_change_queue \o <<h>>
      BY <1>2, <1>6, <2>1, AppendIsConcat
    <2>3. /\ m_peer_change_queue' \o <<>> = m_peer_change_queue'
          /\ m_peer_change_queue' \in Seq(Event)
      BY <1>2, <1>6, <2>1, ConcatEmptySeq
    <2>4. Events' = Events
      BY <1>2, <1>3, <1>6, <2>2, <2>3, ConcatMoves DEF Events
    <2>5. QueuesTyped'
      BY <1>1, <1>2, <1>6, <2>1, <2>3 DEF QueuesTyped
    <2>6. \A i \in DOMAIN m_peer_change_queue' :
              m_peer_change_queue'[i].type # "data"
      <3> HIDE DEF h
      <3> QED BY <1>2, <1>6, <2>1 DEF Taken
    <2>7. Taken'
      BY <1>1, <1>2, <1>6, <2>6 DEF Taken
    <2> QED BY <1>1, <1>2, <2>4, <2>5, <2>7 DEF PeerInv
  <1> QED BY <1>4, <1>5, <1>6 DEF ReceiveEvent

\* DenyAccess leaves commands for the peers whose clients it forgets.
LEMMA DenyAccessFollows ==
    ASSUME QueuesTyped, NEW ev, NEW id \in Ids, NEW ban \in Seq(Ids),
           Follows(ev, m_peers, m_clients, m_command_queue),
           DenyAccess(id, ban)
    PROVE  /\ Follows(ev, m_peers, m_clients', m_command_queue')
           /\ m_command_queue' \in Seq(Ids)
  <1>1. /\ m_command_queue \in Seq(Ids) /\ ban \in Seq(Ids)
        /\ <<id>> \in Seq(Ids) /\ <<id>>[1] = id
    BY DEF QueuesTyped
  <1>2. \A s, t \in Seq(Ids) :
            /\ s \o t \in Seq(Ids)
            /\ \A i : (\E k \in DOMAIN s : s[k] = i) =>
                      \E k \in DOMAIN (s \o t) : (s \o t)[k] = i
    <2> SUFFICES ASSUME NEW s \in Seq(Ids), NEW t \in Seq(Ids)
                 PROVE  /\ s \o t \in Seq(Ids)
                        /\ \A k \in DOMAIN s : /\ k \in DOMAIN (s \o t)
                                               /\ (s \o t)[k] = s[k]
      BY Zenon
    <2> QED OBVIOUS
  <1>3. CASE m_command_queue' = m_command_queue \o ban /\ UNCHANGED m_clients
    <2>1. \A i \in DOMAIN m_peers :
              \/ i \in DOMAIN m_clients \ DOMAIN m_clients'
              \/ \E k \in DOMAIN m_command_queue : m_command_queue[k] = i
              => \E k \in DOMAIN m_command_queue' : m_command_queue'[k] = i
      <3>1. \A i :
                (\E k \in DOMAIN m_command_queue : m_command_queue[k] = i) =>
                \E k \in DOMAIN (m_command_queue \o ban) :
                    (m_command_queue \o ban)[k] = i
        BY <1>1, <1>2
      <3> QED BY <1>3, <3>1, Zenon
    <2>2. \A i \in DOMAIN m_clients' : /\ i \in DOMAIN m_clients
                                       /\ m_clients'[i] = m_clients[i]
      BY <1>3
    <2>3. Follows(ev, m_peers, m_clients', m_command_queue')
      BY <2>1, <2>2, FollowsFewer
    <2> QED BY <1>1, <1>2, <1>3, <2>3
  <1>4. CASE /\ m_command_queue' = (m_command_queue \o <<id>>) \o ban
             /\ m_clients' = Unset(m_clients, id)
    <2> DEFINE s == m_command_queue \o <<id>>
    <2>1. s \in Seq(Ids)
      BY <1>1, <1>2
    <2>2. \E k \in DOMAIN s : s[k] = id
      <3>1. /\ Len(m_command_queue) + 1 \in DOMAIN s
            /\ s[Len(m_command_queue) + 1] = id
        BY <1>1
      <3> QED BY <3>1
    <2>3. \A i : (\E k \in DOMAIN m_command_queue : m_command_queue[k] = i) =>
                 \E k \in DOMAIN s : s[k] = i
      BY <1>1, <1>2
    <2> HIDE DEF s
    <2>4. \A i : (\E k \in DOMAIN s : s[k] = i) =>
                 \E k \in DOMAIN m_command_queue' : m_command_queue'[k] = i
      BY <1>1, <1>2, <1>4, <2>1 DEF s
    <2>5. /\ DOMAIN m_clients' = DOMAIN m_clients \ {id}
          /\ \A i \in DOMAIN m_clients' : m_clients'[i] = m_clients[i]
      BY <1>4 DEF Unset, Restrict
    <2>6. \A i \in DOMAIN m_peers :
              \/ i \in DOMAIN m_clients \ DOMAIN m_clients'
              \/ \E k \in DOMAIN m_command_queue : m_command_queue[k] = i
              => \E k \in DOMAIN m_command_queue' : m_command_queue'[k] = i
      BY <2>2, <2>3, <2>4, <2>5
    <2>7. Follows(ev, m_peers, m_clients', m_command_queue')
      BY <2>5, <2>6, FollowsFewer
    <2>8. m_command_queue' \in Seq(Ids)
      BY <1>1, <1>2, <1>4, <2>1 DEF s
    <2> QED BY <2>7, <2>8
  <1> QED BY <1>3, <1>4 DEF DenyAccess

LEMMA ProcessDataKeeps ==
    ASSUME PeerInv, ProcessData
    PROVE  PeerInv'
  <1> DEFINE id == Head(received).id
  <1>1. /\ pc = "process" /\ pc' = "step" /\ received' = <<>>
        /\ UNCHANGED <<m_peers, m_event_queue, m_peer_change_queue, net>>
        /\ \/ UNCHANGED <<m_command_queue, m_clients>>
           \/ DenyAccess(id, <<>>)
           \/ DenyAccess(id, <<id>>)
    BY DEF ProcessData, connVars
  <1>2. /\ QueuesTyped /\ Taken /\ m_peer_change_queue = <<>>
        /\ m_event_queue \in Seq(Event) /\ DOMAIN m_peers \subseteq Ids
        /\ m_command_queue \in Seq(Ids)
        /\ Follows(Events, m_peers, m_clients, m_command_queue)
    BY <1>1 DEF PeerInv, QueuesTyped, Taken
  <1>3. PICK e \in Event : received = <<e>> /\ e.type = "data"
    BY <1>1, <1>2 DEF Taken
  <1>4. id = e.id /\ id \in Ids
    BY <1>3 DEF Event
  <1>10. <<>> \in Seq(Ids) /\ <<id>> \in Seq(Ids)
    BY <1>4
  <1>5. /\ Events \in Seq(Event) /\ Events # <<>> /\ Events[1] = e
        /\ Tail(Events) = Events'
    <2>1. /\ <<e>> \in Seq(Event) /\ Events = <<e>> \o m_event_queue
          /\ Head(<<e>>) = e /\ Tail(<<e>>) = <<>> /\ <<e>> # <<>>
          /\ Events' = <<>> \o m_event_queue
      BY <1>1, <1>2, <1>3, ConcatEmptySeq DEF Events
    <2> QED BY <1>2, <2>1, ConcatHead
  <1>6. Follows(Tail(Events), m_peers, m_clients, m_command_queue)
    BY <1>2, <1>3, <1>5, FollowsTail
  <1> HIDE DEF id
  <1>7. /\ Follows(Events', m_peers, m_clients', m_command_queue')
        /\ m_command_queue' \in Seq(Ids)
    <2>1. CASE UNCHANGED <<m_command_queue, m_clients>>
      BY <1>2, <1>5, <1>6, <2>1
    <2>2. CASE DenyAccess(id, <<>>)
      BY <1>2, <1>4, <1>5, <1>6, <1>10, <2>2, DenyAccessFollows
    <2>3. CASE DenyAccess(id, <<id>>)
      BY <1>2, <1>4, <1>5, <1>6, <1>10, <2>3, DenyAccessFollows
    <2> QED BY <1>1, <2>1, <2>2, <2>3
  <1>8. QueuesTyped'
    BY <1>1, <1>2, <1>7 DEF QueuesTyped
  <1>9. Taken'
    BY <1>1, <1>2 DEF Taken
  <1> QED BY <1>1, <1>7, <1>8, <1>9 DEF PeerInv

\* AsyncRunStep, and the end of handlePeerChanges.
LEMMA PhaseKeeps ==
    ASSUME PeerInv, AsyncRunStep \/ ChangesHandled
    PROVE  PeerInv'
  <1>1. /\ UNCHANGED <<m_peers, m_event_queue, m_command_queue, m_clients,
                       m_peer_change_queue, received, net>>
        /\ \/ pc = "step" /\ pc' \in {"changes", "receive"}
           \/ pc = "changes" /\ pc' = "receive"
           \/ pc = "sync" /\ pc' = "process" /\ m_peer_change_queue = <<>>
    BY DEF AsyncRunStep, ChangesHandled, connVars
  <1>2. Taken'
    BY <1>1 DEF PeerInv, Taken
  <1>3. QueuesTyped' /\ Events' = Events
    BY <1>1 DEF PeerInv, QueuesTyped, Events
  <1> QED BY <1>1, <1>2, <1>3 DEF PeerInv

-----------------------------------------------------------------------------
(* The steps of the other ends. *)

LEMMA EndsKeep ==
    ASSUME PeerInv,
           \/ \E a \in Addresses : SendDatagram(a) \/ Disconnect(a)
           \/ \E s \in ids_sent : ReceiveSetPeerId(s)
           \/ UNCHANGED vars
    PROVE  PeerInv'
  <1>1. /\ UNCHANGED <<m_peers, m_event_queue, m_command_queue, serverVars>>
        /\ \A d \in net' : d \in net \/ d.address \in Addresses
    BY DEF SendDatagram, Disconnect, ReceiveSetPeerId, vars, connVars
  <1>2. QueuesTyped' /\ Events' = Events
    BY <1>1 DEF PeerInv, QueuesTyped, Events, serverVars
  <1> QED BY <1>1, <1>2, TakenStays DEF PeerInv, serverVars

-----------------------------------------------------------------------------
LEMMA PeerInvInit == Init => PeerInv
  <1> SUFFICES ASSUME Init PROVE PeerInv
    OBVIOUS
  <1>1. /\ m_peers = Nothing /\ m_clients = Nothing /\ DOMAIN Nothing = {}
        /\ m_event_queue = <<>> /\ m_peer_change_queue = <<>>
        /\ received = <<>> /\ m_command_queue = <<>> /\ net = {} /\ pc = "step"
    BY DEF Init, Nothing
  <1>2. QueuesTyped /\ Taken
    BY <1>1 DEF QueuesTyped, Taken
  <1>3. Events = <<>>
    BY <1>1 DEF Events
  <1>4. Follows(<<>>, Nothing, Nothing, <<>>)
    <2>1. DataFollows(<<>>, Nothing) /\ AddedFollows(<<>>, Nothing)
      BY DEF DataFollows, AddedFollows
    <2>2. EndsWithPeers(<<>>, Nothing, Nothing)
      BY <1>1 DEF EndsWithPeers, Unknown, Prior, Places
    <2>3. DeniedAreDeleted(<<>>, Nothing, Nothing, <<>>)
      BY <1>1 DEF DeniedAreDeleted
    <2> QED BY <2>1, <2>2, <2>3 DEF Follows
  <1> QED BY <1>1, <1>2, <1>3, <1>4 DEF PeerInv

LEMMA PeerInvStep == PeerInv /\ [Next]_vars => PeerInv'
  <1> SUFFICES ASSUME PeerInv, [Next]_vars PROVE PeerInv'
    OBVIOUS
  <1>1. CASE \E d \in net : ReceiveDatagram(d)
    BY <1>1, ReceiveDatagramKeeps
  <1>2. CASE \E id \in Ids : TimeoutPeer(id)
    BY <1>2, TimeoutPeerKeeps
  <1>3. CASE ProcessCommand
    BY <1>3, ProcessCommandKeeps
  <1>4. CASE AsyncRunStep \/ ChangesHandled
    BY <1>4, PhaseKeeps
  <1>5. CASE HandlePeerChanges
    BY <1>5, HandlePeerChangesKeeps
  <1>6. CASE ReceiveEvent
    BY <1>6, ReceiveEventKeeps
  <1>7. CASE ProcessData
    BY <1>7, ProcessDataKeeps
  <1>8. CASE \/ \E a \in Addresses : SendDatagram(a) \/ Disconnect(a)
             \/ \E s \in ids_sent : ReceiveSetPeerId(s)
             \/ UNCHANGED vars
    BY <1>8, EndsKeep
  <1> QED BY <1>1, <1>2, <1>3, <1>4, <1>5, <1>6, <1>7, <1>8 DEF Next

\* What the events say of the peers and of the clients, at any time.
THEOREM PeerInvariance == Spec => []PeerInv
  BY PeerInvInit, PeerInvStep, PTL DEF Spec

-----------------------------------------------------------------------------
(* The properties. *)

\* The places before i of changes of id, and the last of them.
LEMMA LastBefore ==
    ASSUME NEW ev \in Seq(Event), NEW id, NEW k \in Nat
    PROVE  LET before == {j \in Places(ev, id) : j < k}
           IN  IF before = {} THEN NoPrior(ev, id, k)
                              ELSE /\ Max(before) \in Nat
                                   /\ Prior(ev, id, Max(before), k)
  <1> DEFINE before == {j \in Places(ev, id) : j < k}
  <1>1. Len(ev) \in Nat /\ before \in SUBSET (1 .. Len(ev))
    BY DEF Places
  <1>2. CASE before = {}
    BY <1>2 DEF NoPrior
  <1>3. CASE before # {}
    <2>1. Max(before) \in before /\ \A j \in before : j <= Max(before)
      <3> HIDE DEF before
      <3> QED BY <1>1, <1>3, MaxOfNats
    <2>2. Max(before) \in Nat
      BY <1>1, <2>1
    <2> DEFINE m == Max(before)
    <2>3. /\ m \in Nat /\ m \in Places(ev, id) /\ m < k
          /\ \A l \in Places(ev, id) : l < k => l <= m
      BY <2>1, <2>2
    <2> HIDE DEF m
    <2>4. Prior(ev, id, m, k)
      BY <2>3 DEF Prior
    <2> QED BY <1>3, <2>2, <2>4 DEF m
  <1> QED BY <1>2, <1>3

LEMMA EventsTyped == PeerInv => Events \in Seq(Event)
  BY ConcatProperties DEF PeerInv, QueuesTyped, Events

LEMMA ClientsFollow == PeerInv => ClientsFollowPeers
  <1> SUFFICES ASSUME PeerInv, NEW id \in Ids
               PROVE  LET last == Events[Max(Changes(id))]
                          is   == IF Changes(id) = {}
                                  THEN id \in DOMAIN m_clients
                                  ELSE last.type = "added"
                          at   == IF Changes(id) = {} THEN m_clients[id]
                                                     ELSE last.address
                      IN  /\ is => id \in DOMAIN m_peers /\ m_peers[id] = at
                          /\ id \in DOMAIN m_peers /\ ~is =>
                                 \E i \in DOMAIN m_command_queue :
                                     m_command_queue[i] = id
    BY DEF ClientsFollowPeers
  <1> DEFINE n == Len(Events) + 1
             m == Max(Changes(id))
  <1>1. /\ Events \in Seq(Event) /\ n \in Nat
        /\ Changes(id) = Places(Events, id)
        /\ Changes(id) = {j \in Places(Events, id) : j < n}
    BY EventsTyped DEF Changes, Places
  <1>2. IF Changes(id) = {} THEN NoPrior(Events, id, n)
                            ELSE m \in Nat /\ Prior(Events, id, m, n)
    <2> HIDE DEF n, m
    <2>1. LET before == {j \in Places(Events, id) : j < n}
          IN  IF before = {} THEN NoPrior(Events, id, n)
                             ELSE /\ Max(before) \in Nat
                                  /\ Prior(Events, id, Max(before), n)
      BY <1>1, LastBefore
    <2> QED BY <1>1, <2>1 DEF m
  <1>3. Changes(id) # {} => ~NoPrior(Events, id, n)
    BY <1>1 DEF NoPrior
  <1>4. Events[m].type = "removed" => Events[m].type # "added"
    OBVIOUS
  <1>5. /\ IF id \in DOMAIN m_peers
           THEN KnownAt(Events, m_clients, id, m_peers[id], n)
           ELSE Unknown(Events, m_clients, id, n)
        /\ id \in DOMAIN m_peers
              /\ NoPrior(Events, id, n) /\ id \notin DOMAIN m_clients =>
               \E i \in DOMAIN m_command_queue : m_command_queue[i] = id
    BY DEF PeerInv, Follows, EndsWithPeers, DeniedAreDeleted
  <1> HIDE DEF n, m
  <1>6. CASE id \in DOMAIN m_peers
    BY <1>2, <1>5, <1>6 DEF KnownAt, m
  <1>7. CASE id \notin DOMAIN m_peers
    BY <1>2, <1>4, <1>5, <1>7 DEF Unknown, m
  <1> QED BY <1>6, <1>7

LEMMA AddedNew == PeerInv => AddedIsNew
  <1> SUFFICES ASSUME PeerInv, NEW id \in Ids, NEW i \in Changes(id),
                      Events[i].type = "added"
               PROVE  LET before == {j \in Changes(id) : j < i}
                      IN  IF before = {} THEN id \notin DOMAIN m_clients
                          ELSE Events[Max(before)].type = "removed"
    BY DEF AddedIsNew
  <1> DEFINE before == {j \in Changes(id) : j < i}
  <1>1. /\ Events \in Seq(Event) /\ i \in DOMAIN Events /\ i \in Nat
        /\ Events[i].id = id /\ Changes(id) = Places(Events, id)
    BY EventsTyped DEF Changes, Places
  <1>2. IF before = {} THEN NoPrior(Events, id, i)
                       ELSE /\ Max(before) \in Nat
                            /\ Prior(Events, id, Max(before), i)
    BY <1>1, LastBefore
  <1>3. Unknown(Events, m_clients, id, i)
    BY <1>1 DEF PeerInv, Follows, AddedFollows
  <1> HIDE DEF before
  <1>4. IF before = {} THEN id \notin DOMAIN m_clients
                       ELSE Events[Max(before)].type = "removed"
    BY <1>2, <1>3 DEF Unknown
  <1> QED BY <1>4 DEF before

LEMMA DataFromClient == PeerInv => DataIsFromItsClient
  <1> SUFFICES ASSUME PeerInv, pc = "process",
                      Head(received).id \in DOMAIN m_clients
               PROVE  m_clients[Head(received).id] = Head(received).address
    BY DEF DataIsFromItsClient
  <1>1. PICK e \in Event : received = <<e>> /\ e.type = "data"
    BY DEF PeerInv, Taken
  <1>2. /\ m_peer_change_queue = <<>> /\ m_event_queue \in Seq(Event)
        /\ <<e>> \in Seq(Event) /\ Events = <<e>> \o m_event_queue
    BY <1>1, ConcatEmptySeq DEF PeerInv, QueuesTyped, Taken, Events
  <1>3. /\ Events \in Seq(Event) /\ Events # <<>> /\ Events[1] = e
        /\ Head(received) = e
    BY <1>1, <1>2, ConcatHead
  <1>4. KnownAt(Events, m_clients, e.id, e.address, 1)
    BY <1>1, <1>3 DEF PeerInv, Follows, DataFollows
  <1>5. NoPrior(Events, e.id, 1)
    BY <1>3 DEF NoPrior, Places
  <1> QED BY <1>3, <1>4, <1>5 DEF KnownAt

(***************************************************************************)
(* The list of clients follows the list of peers (handlePeerChanges): at   *)
(* any time, what is queued leads from the clients there are to the peers  *)
(* there are, each at its own address, but for those denied access, which  *)
(* the Connection thread is about to be told to delete.                    *)
(***************************************************************************)
THEOREM ListsAgree == Spec => []ClientsFollowPeers
  BY PeerInvariance, ClientsFollow, PTL

(***************************************************************************)
(* The assertion of handlePeerChange holds, that a peer that is added is   *)
(* not a client already, in whatever order ids are freed and given again.  *)
(***************************************************************************)
THEOREM AddedWasUnknown == Spec => []AddedIsNew
  BY PeerInvariance, AddedNew, PTL

(***************************************************************************)
(* Receive handles the changes that were queued before the data, so that   *)
(* ProcessData takes no data for that of another client with the same id.  *)
(***************************************************************************)
THEOREM DataFindsItsClient == Spec => []DataIsFromItsClient
  BY PeerInvariance, DataFromClient, PTL
==============================================================================
