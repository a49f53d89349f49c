-------------------------- MODULE ReliableChannel --------------------------
(***************************************************************************)
(* One direction of one channel of the reliable UDP protocol of            *)
(* connection.cpp: the Connection thread that sends RELIABLE packets, the  *)
(* one that receives them, and the datagram network between the two.       *)
(*                                                                         *)
(* A packet carries the sequence number the code writes into its header    *)
(* and, as a ghost, its position in the order of rawSendAsPacket calls.    *)
(* The receiver's steps compare sequence numbers only; the position is     *)
(* what the properties are stated with.                                    *)
(*                                                                         *)
(* The network loses, duplicates, delays and reorders datagrams: `net' and *)
(* `acks' are sets, a receive step may leave the datagram in them.         *)
(***************************************************************************)
EXTENDS Integers, Sequences, FiniteSets, FiniteSetsExt

CONSTANTS
    SEQNUM_MAX,       \* largest value of the u16 sequence number
    SEQNUM_INITIAL,   \* the number of the first packet of a channel
    WINDOW,           \* unacknowledged packets that make send() postpone
    MaxPackets,       \* bound: packets given a sequence number
    MaxSends,         \* bound: Send commands of the application
    MaxPings          \* bound: keepalive packets of runTimeouts

ASSUME ChannelConstants ==
    /\ SEQNUM_MAX \in Nat \ {0}
    /\ SEQNUM_INITIAL \in 0 .. SEQNUM_MAX
    /\ WINDOW \in Nat \ {0}
    /\ MaxPackets \in Nat
    /\ MaxSends \in Nat
    /\ MaxPings \in Nat

VARIABLES
    \* the sender's Connection thread
    connected,              \* it has a Peer for the other end
    outgoing_queue,         \* m_outgoing_queue: payloads not sent yet
    next_outgoing_seqnum,
    outgoing_reliables,     \* sent and not acknowledged
    \* the network
    net,                    \* data packets under way
    acks,                   \* sequence numbers of the ACKs under way
    \* the receiver's Connection thread
    receiving,              \* it has a Peer for the sender
    next_incoming_seqnum,
    incoming_reliables,     \* packets that came too early, a sorted list
    delivered,              \* payloads handed to the application
    \* history
    nsent,                  \* payloads the application asked to send
    wire,                   \* bodies in the order they got their numbers
    accepted,               \* positions the receiver processed, in order
    mistaken                \* <<awaited, dropped>>: the position of a packet
                            \* dropped as old before its turn had come, and
                            \* the position whose turn it was

senderVars   == <<connected, outgoing_queue, next_outgoing_seqnum,
                  outgoing_reliables>>
receiverVars == <<receiving, next_incoming_seqnum, incoming_reliables,
                  delivered, accepted, mistaken>>
vars == <<senderVars, net, acks, receiverVars, nsent, wire>>

-----------------------------------------------------------------------------
(* Sequence numbers. *)

SeqNum == 0 .. SEQNUM_MAX

\* Mutant: the number grows past its width.
SeqNextNoWrap(s) == s + 1

\* Mutant: the number stays at its maximum.
SeqNextSaturating(s) == IF s = SEQNUM_MAX THEN s ELSE s + 1

\* The increment of a u16.
SeqNext(s) == IF s = SEQNUM_MAX THEN 0 ELSE s + 1

seqnum_higher(higher, lower) ==
    \/ lower > higher /\ lower - higher > SEQNUM_MAX \div 2
    \/ higher > lower

-----------------------------------------------------------------------------
(* Packets. A body is the n-th payload of the application, or a PING sent  *)
(* after n payloads.                                                       *)

Body   == [kind : {"data", "ping"}, n : Nat]
Packet == [seq : SeqNum, pos : Nat \ {0}]

(***************************************************************************)
(* The list of early packets. ReliablePacketBuffer::insert walks it from   *)
(* the front and stops at the first equal or higher number.                *)
(***************************************************************************)
StopsAt(buf, s) ==
    {i \in 1 .. Len(buf) : buf[i].seq = s \/ seqnum_higher(buf[i].seq, s)}

\* Mutant: any number found at or above the new one counts as a duplicate.
InsertPacketAtEnd(buf, p) ==
    IF StopsAt(buf, p.seq) = {} THEN Append(buf, p) ELSE buf

InsertPacket(buf, p) ==
    IF StopsAt(buf, p.seq) = {}
    THEN Append(buf, p)
    ELSE LET i == Min(StopsAt(buf, p.seq))
         IN  IF buf[i].seq = p.seq
             THEN buf                             \* AlreadyExistsException
             ELSE SubSeq(buf, 1, i - 1) \o <<p>> \o SubSeq(buf, i, Len(buf))

\* Mutant: the packet whose turn has come is dropped with the old ones.
WithoutOldOrDue(buf, next) ==
    LET kept == {i \in 1 .. Len(buf) : seqnum_higher(buf[i].seq, next)}
    IN  IF kept = {} THEN <<>> ELSE SubSeq(buf, Min(kept), Len(buf))

\* What is left once checkIncomingBuffers popped the old packets in front.
WithoutOld(buf, next) ==
    LET kept == {i \in 1 .. Len(buf) : ~seqnum_higher(next, buf[i].seq)}
    IN  IF kept = {} THEN <<>> ELSE SubSeq(buf, Min(kept), Len(buf))

-----------------------------------------------------------------------------
Init ==
    /\ connected = TRUE
    /\ outgoing_queue = <<>>
    /\ next_outgoing_seqnum = SEQNUM_INITIAL
    /\ outgoing_reliables = {}
    /\ net = {}
    /\ acks = {}
    /\ receiving = TRUE
    /\ next_incoming_seqnum = SEQNUM_INITIAL
    /\ incoming_reliables = <<>>
    /\ delivered = <<>>
    /\ nsent = 0
    /\ wire = <<>>
    /\ accepted = <<>>
    /\ mistaken = {}

-----------------------------------------------------------------------------
(* The sender. *)

\* Connection::Send and the CONNCMD_SEND it queues.
Send ==
    /\ connected
    /\ nsent < MaxSends
    /\ nsent' = nsent + 1
    /\ outgoing_queue' = Append(outgoing_queue, nsent + 1)
    /\ UNCHANGED <<connected, next_outgoing_seqnum, outgoing_reliables, net,
                   acks, receiverVars, wire>>

\* rawSendAsPacket with reliable = true: number the packet, keep it, send it.
RawSendReliable(body) ==
    LET p == [seq |-> next_outgoing_seqnum, pos |-> Len(wire) + 1]
    IN  /\ Len(wire) < MaxPackets
        /\ wire' = Append(wire, body)
        /\ next_outgoing_seqnum' = SeqNext(next_outgoing_seqnum)
        /\ outgoing_reliables' =
               IF \E q \in outgoing_reliables : q.seq = p.seq
               THEN outgoing_reliables            \* AlreadyExistsException
               ELSE outgoing_reliables \cup {p}
        /\ net' = net \cup {p}

\* Mutant: the window is not looked at.
SendQueuedAnyway ==
    /\ connected
    /\ outgoing_queue # <<>>
    /\ RawSendReliable([kind |-> "data", n |-> Head(outgoing_queue)])
    /\ outgoing_queue' = Tail(outgoing_queue)
    /\ UNCHANGED <<connected, acks, receiverVars, nsent>>

(***************************************************************************)
(* One iteration of the loop of send(dtime): a packet leaves the queue     *)
(* unless the window is full. The congestion budget may stop the loop      *)
(* after any number of packets.                                            *)
(***************************************************************************)
SendQueued ==
    /\ connected
    /\ outgoing_queue # <<>>
    /\ Cardinality(outgoing_reliables) < WINDOW
    /\ RawSendReliable([kind |-> "data", n |-> Head(outgoing_queue)])
    /\ outgoing_queue' = Tail(outgoing_queue)
    /\ UNCHANGED <<connected, acks, receiverVars, nsent>>

\* Payloads that were given a sequence number.
PayloadsSent == IF wire = <<>> THEN 0 ELSE wire[Len(wire)].n

\* runTimeouts sends a reliable PING now and then, past queue and window.
Ping ==
    /\ connected
    /\ Cardinality({i \in DOMAIN wire : wire[i].kind = "ping"}) < MaxPings
    /\ RawSendReliable([kind |-> "ping", n |-> PayloadsSent])
    /\ UNCHANGED <<connected, outgoing_queue, acks, receiverVars, nsent>>

\* runTimeouts sends an unacknowledged packet again.
Resend(p) ==
    /\ connected
    /\ p \in outgoing_reliables
    /\ net' = net \cup {p}
    /\ UNCHANGED <<senderVars, acks, receiverVars, nsent, wire>>

\* processPacket on a CONTROLTYPE_ACK.
ReceiveAck(s) ==
    /\ s \in acks
    /\ acks' \in {acks, acks \ {s}}
    /\ outgoing_reliables' =
           IF connected THEN {p \in outgoing_reliables : p.seq # s}
                        ELSE outgoing_reliables
    /\ UNCHANGED <<connected, outgoing_queue, next_outgoing_seqnum, net,
                   receiverVars, nsent, wire>>

(***************************************************************************)
(* deletePeer at the sender: a timeout, or a DISCO. The Channel is freed,  *)
(* and what is queued for the peer is dropped by the loop of send().       *)
(***************************************************************************)
SenderDeletesPeer ==
    /\ connected
    /\ connected' = FALSE
    /\ outgoing_queue' = <<>>
    /\ outgoing_reliables' = {}
    /\ UNCHANGED <<next_outgoing_seqnum, net, acks, receiverVars, nsent, wire>>

-----------------------------------------------------------------------------
(* The receiver. *)

\* Mutant: what a PING carries is handed to the application.
ProcessAsData(pos) ==
    /\ accepted' = Append(accepted, pos)
    /\ delivered' = Append(delivered, wire[pos].n)

\* processPacket on the payload of the packet at position pos.
Process(pos) ==
    /\ accepted' = Append(accepted, pos)
    /\ delivered' = IF wire[pos].kind = "data"
                    THEN Append(delivered, wire[pos].n)
                    ELSE delivered

\* The packets of `gone', dropped as old, that were never processed.
Mistake(gone) ==
    mistaken' = mistaken \cup
        {<<Len(accepted) + 1, i>> : i \in {p.pos : p \in gone}
                                            \ (1 .. Len(accepted))}

\* checkIncomingBuffers would pop something.
BufferHasWork ==
    /\ incoming_reliables # <<>>
    /\ LET s == Head(incoming_reliables).seq
       IN  s = next_incoming_seqnum \/ seqnum_higher(next_incoming_seqnum, s)

(***************************************************************************)
(* checkIncomingBuffers: drop the old packets in front, then process the   *)
(* first one if its turn has come.                                         *)
(***************************************************************************)
CheckIncomingBuffers ==
    /\ receiving
    /\ BufferHasWork
    /\ LET buf == WithoutOld(incoming_reliables, next_incoming_seqnum)
           old == Len(incoming_reliables) - Len(buf)
       IN  /\ Mistake({incoming_reliables[i] : i \in 1 .. old})
           /\ IF buf # <<>> /\ Head(buf).seq = next_incoming_seqnum
              THEN /\ incoming_reliables' = Tail(buf)
                   /\ next_incoming_seqnum' = SeqNext(next_incoming_seqnum)
                   /\ Process(Head(buf).pos)
              ELSE /\ incoming_reliables' = buf
                   /\ UNCHANGED <<next_incoming_seqnum, accepted, delivered>>
    /\ UNCHANGED <<senderVars, net, acks, receiving, nsent, wire>>

(***************************************************************************)
(* processPacket on a RELIABLE packet. receive() reads the socket only     *)
(* after getFromBuffers found nothing to do.                               *)
(***************************************************************************)
ReceiveReliable(p) ==
    /\ receiving
    /\ ~BufferHasWork
    /\ p \in net
    /\ net' \in {net, net \ {p}}
    /\ acks' = acks \cup {p.seq}
    /\ IF seqnum_higher(p.seq, next_incoming_seqnum)
       THEN /\ incoming_reliables' = InsertPacket(incoming_reliables, p)
            /\ UNCHANGED <<next_incoming_seqnum, accepted, delivered,
                           mistaken>>
       ELSE IF seqnum_higher(next_incoming_seqnum, p.seq)
       THEN /\ Mistake({p})
            /\ UNCHANGED <<incoming_reliables, next_incoming_seqnum,
                           accepted, delivered>>
       ELSE /\ next_incoming_seqnum' = SeqNext(next_incoming_seqnum)
            /\ Process(p.pos)
            /\ UNCHANGED <<incoming_reliables, mistaken>>
    /\ UNCHANGED <<senderVars, receiving, nsent, wire>>

\* deletePeer at the receiver frees the Channel with what it buffered.
ReceiverDeletesPeer ==
    /\ receiving
    /\ receiving' = FALSE
    /\ incoming_reliables' = <<>>
    /\ UNCHANGED <<senderVars, net, acks, next_incoming_seqnum, delivered,
                   nsent, wire, accepted, mistaken>>

-----------------------------------------------------------------------------
(* The network. *)

LoseData == \E p \in net :
    /\ net' = net \ {p}
    /\ UNCHANGED <<senderVars, acks, receiverVars, nsent, wire>>

LoseAck == \E s \in acks :
    /\ acks' = acks \ {s}
    /\ UNCHANGED <<senderVars, net, receiverVars, nsent, wire>>

-----------------------------------------------------------------------------
Next ==
    \/ Send
    \/ SendQueued
    \/ Ping
    \/ \E p \in outgoing_reliables : Resend(p)
    \/ \E s \in acks : ReceiveAck(s)
    \/ SenderDeletesPeer
    \/ \E p \in net : ReceiveReliable(p)
    \/ CheckIncomingBuffers
    \/ ReceiverDeletesPeer
    \/ LoseData
    \/ LoseAck

Spec == Init /\ [][Next]_vars

(***************************************************************************)
(* The Connection thread keeps looping, so what it can send it sends, what *)
(* it buffered it checks, and what is unacknowledged it sends again. A     *)
(* datagram that is sent again and again gets through in the end, and one  *)
(* that is not sent any more does not stay in the network for ever.        *)
(* Nothing is assumed of Send, Ping, the deletions and the other losses.   *)
(***************************************************************************)
Fairness ==
    /\ WF_vars(SendQueued)
    /\ WF_vars(CheckIncomingBuffers)
    /\ WF_vars(\E p \in net \ outgoing_reliables : LoseData /\ p \notin net')
    /\ \A i \in 1 .. MaxPackets :
           /\ WF_vars(\E p \in outgoing_reliables : p.pos = i /\ Resend(p))
           /\ SF_vars(\E p \in net : p.pos = i /\ ReceiveReliable(p))
           /\ SF_vars(\E p \in outgoing_reliables :
                          p.pos = i /\ ReceiveAck(p.seq))

FairSpec == Spec /\ Fairness

-----------------------------------------------------------------------------
(* Properties. *)

\* What each variable has. Sequence numbers stay within their width.
TypeOK ==
    /\ connected \in BOOLEAN
    /\ outgoing_queue \in Seq(Nat)
    /\ next_outgoing_seqnum \in SeqNum
    /\ outgoing_reliables \subseteq Packet
    /\ net \subseteq Packet
    /\ acks \subseteq SeqNum
    /\ receiving \in BOOLEAN
    /\ next_incoming_seqnum \in SeqNum
    /\ incoming_reliables \in Seq(Packet)
    /\ delivered \in Seq(Nat)
    /\ nsent \in Nat
    /\ wire \in Seq(Body)
    /\ accepted \in Seq(Nat \ {0})
    /\ mistaken \subseteq (Nat \ {0}) \X (Nat \ {0})

(***************************************************************************)
(* The receiver processes the packets of a channel in the order in which   *)
(* rawSendAsPacket numbered them, each once, with no gap: "they shall be   *)
(* delivered in the same order as sent" (connection.h, Packet types).      *)
(***************************************************************************)
InOrder == \A i \in 1 .. Len(accepted) : accepted[i] = i

\* The last position before the sequence number wraps.
LastBeforeWrap == SEQNUM_MAX - SEQNUM_INITIAL + 1

\* seqnum_higher may take the packet at position i for older than the one at
\* the earlier position j: the wrap or half of all numbers is between them.
Confused(j, i) ==
    \/ j <= LastBeforeWrap /\ LastBeforeWrap < i
    \/ i - j > SEQNUM_MAX \div 2

\* The sender freed its copy of packet i, and the receiver has none.
Lost(i) ==
    /\ \A p \in outgoing_reliables : p.pos # i
    /\ \A j \in 1 .. Len(accepted) : accepted[j] # i
    /\ \A j \in 1 .. Len(incoming_reliables) : incoming_reliables[j].pos # i

(***************************************************************************)
(* A packet the sender no longer keeps, because an ACK of it arrived, has  *)
(* been processed or waits in the receiver's buffer: the ACK that frees    *)
(* the only copy is sent for packets that are kept. The exception is the   *)
(* mistake of seqnum_higher: the receiver drops as old a packet from after *)
(* the wrap while it waits for one from before the wrap, or one that is    *)
(* ahead by more than half of the numbers. Nothing else is mistaken, and   *)
(* nothing else is lost.                                                   *)
(***************************************************************************)
AckedIsKept ==
    /\ connected /\ receiving =>
           \A i \in 1 .. Len(wire) :
               Lost(i) => \E m \in mistaken : m[2] = i
    /\ \A m \in mistaken : Confused(m[1], m[2])

(***************************************************************************)
(* Every payload the application sent reaches the other application,       *)
(* unless an end gives the peer up: "Delivery of all RELIABLE packets      *)
(* shall be forced by ACKs" (connection.h, Packet types).                  *)
(***************************************************************************)
AllDelivered ==
    \A k \in 1 .. MaxSends :
        nsent >= k ~> (Len(delivered) >= k \/ ~connected \/ ~receiving)

(***************************************************************************)
(* Again and again, all the payloads the application has sent have reached *)
(* the other application, unless an end gives the peer up or a packet is   *)
(* lost as AckedIsKept allows: that mistake is all that stops the channel. *)
(* Payloads that MaxPackets, a bound of the model, keeps from being        *)
(* numbered do not count.                                                  *)
(***************************************************************************)
DeliveredUnlessLost ==
    []<>(\/ Len(delivered) =
                IF Len(wire) < MaxPackets THEN nsent ELSE PayloadsSent
         \/ ~connected \/ ~receiving
         \/ \E i \in 1 .. Len(wire) : Lost(i))

(***************************************************************************)
(* send() postpones before the window overflows: whatever order ACKs,      *)
(* resends and pings come in, at most WINDOW payloads are unacknowledged.  *)
(* Pings are on top of that.                                               *)
(***************************************************************************)
WindowRespected ==
    Cardinality({p \in outgoing_reliables : wire[p.pos].kind = "data"})
        <= WINDOW

-----------------------------------------------------------------------------
(* What the channel promises to its users. *)

Stream == INSTANCE MessageStream WITH
              sent <- nsent,
              received <- delivered,
              open <- connected /\ receiving

\* The channel implements MessageStream, for the payloads of its user.
Refinement == Stream!Spec
=============================================================================
