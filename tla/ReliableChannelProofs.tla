----------------------- MODULE ReliableChannelProofs -----------------------
(***************************************************************************)
(* Proofs about ReliableChannel.                                           *)
(*                                                                         *)
(* In-order delivery is proved for every SEQNUM_INITIAL, across the wrap,  *)
(* as long as the channel carries fewer packets than there are sequence    *)
(* numbers. So is that an acknowledged packet is kept, except for those    *)
(* the receiver mistakes for old ones, and where that happens. Then that   *)
(* the channel implements MessageStream, and that the window of            *)
(* unacknowledged payloads holds.                                          *)
(***************************************************************************)
EXTENDS ReliableChannel, FiniteSetTheorems, SequenceTheorems,
        WellFoundedInduction, TLAPS

\* The sequence number of the packet at a position.
SeqOf(i) == IF SEQNUM_INITIAL + i - 1 <= SEQNUM_MAX
            THEN SEQNUM_INITIAL + i - 1
            ELSE SEQNUM_INITIAL + i - 2 - SEQNUM_MAX

\* No two packets of the channel have the same sequence number.
FewPackets == MaxPackets <= SEQNUM_MAX

Known(p) == p.pos \in 1 .. Len(wire) /\ p.seq = SeqOf(p.pos)

(***************************************************************************)
(* The sequence number in a header is the one of its position, whoever     *)
(* holds the packet; what the receiver waits for is the position after     *)
(* the last one it processed.                                              *)
(***************************************************************************)
Numbered ==
    /\ Len(wire) <= MaxPackets
    /\ next_outgoing_seqnum = SeqOf(Len(wire) + 1)
    /\ \A p \in net \cup outgoing_reliables : Known(p)
    /\ \A i \in 1 .. Len(incoming_reliables) : Known(incoming_reliables[i])
    /\ next_incoming_seqnum = SeqOf(Len(accepted) + 1)
    /\ Len(accepted) <= Len(wire)

\* The receiver processed the packet at position i, has it in its buffer, or
\* once dropped it by mistake.
Held(i) ==
    \/ i <= Len(accepted)
    \/ \E j \in 1 .. Len(incoming_reliables) : incoming_reliables[j].pos = i
    \/ \E m \in mistaken : m[2] = i

\* A packet is dropped by mistake only where seqnum_higher may be wrong.
MistakesConfused == \A m \in mistaken : Confused(m[1], m[2])

\* An ACK is under way only for a packet the receiver holds.
AcksHonest ==
    receiving =>
        \A s \in acks : \A i \in 1 .. Len(wire) : SeqOf(i) = s => Held(i)

\* A packet is with the sender or with the receiver.
SomeoneHolds ==
    connected /\ receiving =>
        \A i \in 1 .. Len(wire) :
            (\E p \in outgoing_reliables : p.pos = i) \/ Held(i)

\* Every ACK is about a packet that was sent.
AcksKnown == \A s \in acks : \E i \in 1 .. Len(wire) : s = SeqOf(i)

-----------------------------------------------------------------------------
(* Facts about the operators. *)

\* Two positions of a short enough channel have different numbers.
LEMMA SeqOfInjective ==
    ASSUME FewPackets, NEW i \in 1 .. (MaxPackets + 1),
           NEW j \in 1 .. (MaxPackets + 1), SeqOf(i) = SeqOf(j)
    PROVE  i = j
  BY ChannelConstants, SMT DEF SeqOf, FewPackets

\* Sequence numbers of consecutive positions are consecutive u16 values.
LEMMA SeqOfNext ==
    ASSUME FewPackets, NEW i \in 1 .. (MaxPackets + 1)
    PROVE  /\ SeqOf(i) \in SeqNum
           /\ i <= MaxPackets => SeqOf(i + 1) = SeqNext(SeqOf(i))
  BY ChannelConstants, SMT DEF SeqOf, FewPackets, SeqNext, SeqNum

LEMMA SeqNextType ==
    ASSUME NEW s \in SeqNum
    PROVE  SeqNext(s) \in SeqNum
  BY ChannelConstants, SMT DEF SeqNext, SeqNum

\* A packet that is neither early nor old is the expected one.
LEMMA NeitherIsEqual ==
    ASSUME NEW s \in SeqNum, NEW t \in SeqNum,
           ~seqnum_higher(s, t), ~seqnum_higher(t, s)
    PROVE  s = t
  BY ChannelConstants, SMT DEF seqnum_higher, SeqNum

\* seqnum_higher puts a position before a later one only where Confused.
LEMMA HigherIsLaterOrConfused ==
    ASSUME NEW i \in Nat \ {0}, NEW j \in Nat \ {0}, i >= j,
           seqnum_higher(SeqOf(j), SeqOf(i))
    PROVE  Confused(j, i)
  <1>1. SEQNUM_MAX \div 2 \in Nat
    BY ChannelConstants, SMT
  <1> DEFINE half == SEQNUM_MAX \div 2
  <1>2. seqnum_higher(SeqOf(j), SeqOf(i)) <=>
            \/ SeqOf(i) > SeqOf(j) /\ SeqOf(i) - SeqOf(j) > half
            \/ SeqOf(j) > SeqOf(i)
    BY DEF seqnum_higher
  <1>3. Confused(j, i) <=>
            \/ j <= LastBeforeWrap /\ LastBeforeWrap < i
            \/ i - j > half
    BY DEF Confused
  <1>4. half \in Nat
    BY <1>1
  <1> HIDE DEF half
  <1> QED BY <1>2, <1>3, <1>4, ChannelConstants, SMT DEF SeqOf, LastBeforeWrap

\* Mistake remembers every packet dropped before its turn, and forgets none.
LEMMA MistakeRemembers ==
    ASSUME NEW gone, Mistake(gone)
    PROVE  /\ mistaken \subseteq mistaken'
           /\ \A p \in gone : \/ p.pos \in 1 .. Len(accepted)
                             \/ \E m \in mistaken' : m[2] = p.pos
  <1>1. mistaken \subseteq mistaken'
    BY DEF Mistake
  <1>2. ASSUME NEW p \in gone, p.pos \notin 1 .. Len(accepted)
        PROVE  \E m \in mistaken' : m[2] = p.pos
    <2>1. <<Len(accepted) + 1, p.pos>> \in mistaken'
      BY <1>2 DEF Mistake
    <2>2. <<Len(accepted) + 1, p.pos>>[2] = p.pos
      OBVIOUS
    <2> QED BY <2>1, <2>2
  <1> QED BY <1>1, <1>2

\* What Mistake adds: the position that was awaited, and one dropped.
LEMMA MistakeAdds ==
    ASSUME NEW gone, Mistake(gone), NEW m \in mistaken'
    PROVE  \/ m \in mistaken
           \/ \E p \in gone : /\ m = <<Len(accepted) + 1, p.pos>>
                             /\ p.pos \notin 1 .. Len(accepted)
  BY DEF Mistake

LEMMA MistakeType ==
    ASSUME TypeOK, NEW gone, \A p \in gone : p.pos \in Nat \ {0},
           Mistake(gone)
    PROVE  mistaken' \subseteq (Nat \ {0}) \X (Nat \ {0})
  <1> SUFFICES ASSUME NEW m \in mistaken'
               PROVE  m \in (Nat \ {0}) \X (Nat \ {0})
    OBVIOUS
  <1>1. Len(accepted) + 1 \in Nat \ {0}
    <2>1. Len(accepted) \in Nat
      BY DEF TypeOK
    <2> QED BY <2>1
  <1>2. m \in mistaken => m \in (Nat \ {0}) \X (Nat \ {0})
    BY DEF TypeOK
  <1> QED BY <1>1, <1>2, MistakeAdds

\* Packets dropped for an old number are mistaken only where Confused.
LEMMA MistakeConfused ==
    ASSUME TypeOK, MistakesConfused,
           next_incoming_seqnum = SeqOf(Len(accepted) + 1),
           NEW gone,
           \A p \in gone :
               /\ p.pos \in Nat \ {0}
               /\ p.seq = SeqOf(p.pos)
               /\ seqnum_higher(next_incoming_seqnum, p.seq),
           Mistake(gone)
    PROVE  MistakesConfused'
  <1> SUFFICES ASSUME NEW m \in mistaken' PROVE Confused(m[1], m[2])
    BY DEF MistakesConfused, Confused, LastBeforeWrap
  <1>1. CASE m \in mistaken
    BY <1>1 DEF MistakesConfused
  <1>2. ASSUME NEW p \in gone, m = <<Len(accepted) + 1, p.pos>>,
               p.pos \notin 1 .. Len(accepted)
        PROVE  Confused(m[1], m[2])
    <2>1. Len(accepted) \in Nat
      BY DEF TypeOK
    <2>2. /\ p.pos \in Nat \ {0} /\ Len(accepted) + 1 \in Nat \ {0}
          /\ p.pos >= Len(accepted) + 1
      BY <1>2, <2>1
    <2>3. seqnum_higher(SeqOf(Len(accepted) + 1), SeqOf(p.pos))
      OBVIOUS
    <2>4. Confused(Len(accepted) + 1, p.pos)
      BY <2>2, <2>3, HigherIsLaterOrConfused
    <2>5. m[1] = Len(accepted) + 1 /\ m[2] = p.pos
      BY <1>2
    <2> QED BY <2>4, <2>5
  <1> QED BY <1>1, <1>2, MistakeAdds

\* A nonempty set of list positions has a least one, and Min returns it.
LEMMA MinOfPositions ==
    ASSUME NEW n \in Nat, NEW S \in SUBSET (1 .. n), S # {}
    PROVE  /\ Min(S) \in S
           /\ \A x \in S : Min(S) <= x
  <1>1. PICK m \in S : \A x \in S : ~(<<x, m>> \in OpToRel(<, Nat))
    <2>1. S \subseteq Nat
      BY SMT
    <2> QED BY <2>1, NatLessThanWellFounded, WFMin, Zenon
  <1>2. \A x \in S : m <= x
    <2> TAKE x \in S
    <2>1. x \in Nat /\ m \in Nat
      BY SMT
    <2>2. ~(x < m)
      BY <1>1, <2>1, Zenon DEF OpToRel
    <2> QED BY <2>1, <2>2, SMT
  <1> QED BY <1>2 DEF Min

(***************************************************************************)
(* InsertPacket keeps what was in the list, and afterwards the list has    *)
(* the packet or one of the same number.                                   *)
(***************************************************************************)
LEMMA InsertPacketProperties ==
    ASSUME NEW buf \in Seq(Packet), NEW p \in Packet
    PROVE  /\ InsertPacket(buf, p) \in Seq(Packet)
           /\ \A i \in 1 .. Len(InsertPacket(buf, p)) :
                  \/ InsertPacket(buf, p)[i] = p
                  \/ \E j \in 1 .. Len(buf) : InsertPacket(buf, p)[i] = buf[j]
           /\ \A j \in 1 .. Len(buf) :
                  \E i \in 1 .. Len(InsertPacket(buf, p)) :
                      InsertPacket(buf, p)[i] = buf[j]
           /\ \E i \in 1 .. Len(InsertPacket(buf, p)) :
                  InsertPacket(buf, p)[i].seq = p.seq
           /\ \/ \E i \in 1 .. Len(InsertPacket(buf, p)) :
                       InsertPacket(buf, p)[i] = p
              \/ \E j \in 1 .. Len(buf) : buf[j].seq = p.seq
  <1>1. CASE StopsAt(buf, p.seq) = {}
    <2>1. InsertPacket(buf, p) = Append(buf, p)
      BY <1>1 DEF InsertPacket
    <2>2. /\ Append(buf, p) \in Seq(Packet)
          /\ Len(Append(buf, p)) = Len(buf) + 1
          /\ Append(buf, p)[Len(buf) + 1] = p
          /\ \A j \in 1 .. Len(buf) : Append(buf, p)[j] = buf[j]
      BY AppendProperties
    <2> QED BY <2>1, <2>2
  <1>2. CASE StopsAt(buf, p.seq) # {}
    <2> DEFINE i == Min(StopsAt(buf, p.seq))
    <2>0. StopsAt(buf, p.seq) \in SUBSET (1 .. Len(buf)) /\ Len(buf) \in Nat
      BY DEF StopsAt
    <2>1. i \in 1 .. Len(buf)
      BY <1>2, <2>0, MinOfPositions
    <2>2. CASE buf[i].seq = p.seq
      BY <1>2, <2>1, <2>2 DEF InsertPacket
    <2>3. CASE buf[i].seq # p.seq
      <3> DEFINE before == SubSeq(buf, 1, i - 1)
                 after  == SubSeq(buf, i, Len(buf))
                 result == before \o <<p>> \o after
      <3>1. InsertPacket(buf, p) = result
        BY <1>2, <2>3 DEF InsertPacket
      <3>2. /\ before \in Seq(Packet)
            /\ Len(before) = i - 1
            /\ \A j \in 1 .. (i - 1) : before[j] = buf[j]
        BY <2>1, SubSeqProperties
      <3>3. /\ after \in Seq(Packet)
            /\ Len(after) = Len(buf) - i + 1
            /\ \A j \in 1 .. (Len(buf) - i + 1) : after[j] = buf[i + j - 1]
        BY <2>1, SubSeqProperties
      <3> HIDE DEF i, before, after
      <3>4. /\ result \in Seq(Packet)
            /\ Len(result) = Len(buf) + 1
            /\ \A j \in 1 .. (i - 1) : result[j] = buf[j]
            /\ result[i] = p
            /\ \A j \in (i + 1) .. (Len(buf) + 1) : result[j] = buf[j - 1]
        <4> DEFINE one   == <<p>>
                   front == before \o one
        <4>1. one \in Seq(Packet) /\ Len(one) = 1 /\ one[1] = p
          OBVIOUS
        <4>2. /\ front \in Seq(Packet)
              /\ Len(front) = i
              /\ \A j \in 1 .. i : front[j] = IF j <= i - 1 THEN before[j] ELSE p
          <5>1. /\ front \in Seq(Packet)
                /\ Len(front) = Len(before) + Len(one)
                /\ \A j \in 1 .. (Len(before) + Len(one)) :
                      front[j] = IF j <= Len(before)
                                 THEN before[j] ELSE one[j - Len(before)]
            BY <3>2, <4>1, ConcatProperties, Zenon
          <5> HIDE DEF front, result, one
          <5>2. i - 1 \in Nat
            BY <2>1
          <5> QED BY <2>1, <3>2, <4>1, <5>1, <5>2
        <4>3. /\ result \in Seq(Packet)
              /\ Len(result) = Len(buf) + 1
              /\ \A j \in 1 .. (Len(buf) + 1) :
                     result[j] = IF j <= i THEN front[j] ELSE after[j - i]
          <5>1. /\ front \o after \in Seq(Packet)
                /\ Len(front \o after) = Len(front) + Len(after)
                /\ \A j \in 1 .. (Len(front) + Len(after)) :
                      (front \o after)[j] = IF j <= Len(front)
                                 THEN front[j] ELSE after[j - Len(front)]
            <6> HIDE DEF front
            <6> QED BY <3>3, <4>2, ConcatProperties, Zenon
          <5>2. result = front \o after
            OBVIOUS
          <5>3. Len(front) + Len(after) = Len(buf) + 1
            <6> HIDE DEF front, result
            <6> QED BY <2>1, <3>3, <4>2
          <5> HIDE DEF front, result
          <5> QED BY <4>2, <5>1, <5>2, <5>3, ZenonT(40)
        <4> HIDE DEF front, result
        <4>4. \A j \in 1 .. (i - 1) : result[j] = buf[j]
          BY <2>1, <3>2, <4>2, <4>3
        <4>5. result[i] = p
          BY <2>1, <4>2, <4>3
        <4>6. \A j \in (i + 1) .. (Len(buf) + 1) : result[j] = buf[j - 1]
          <5> TAKE j \in (i + 1) .. (Len(buf) + 1)
          <5>1. /\ j \in 1 .. (Len(buf) + 1) /\ ~(j <= i)
                /\ j - i \in 1 .. (Len(buf) - i + 1)
                /\ i + (j - i) - 1 = j - 1
            BY <2>1
          <5> QED BY <3>3, <4>3, <5>1
        <4> QED BY <4>3, <4>4, <4>5, <4>6
      <3> HIDE DEF result
      <3>5. \A j \in 1 .. Len(result) :
                result[j] = p \/ \E k \in 1 .. Len(buf) : result[j] = buf[k]
        <4> SUFFICES ASSUME NEW j \in 1 .. Len(result), j # i
                     PROVE  \E k \in 1 .. Len(buf) : result[j] = buf[k]
          BY <3>4
        <4>1. CASE j < i
          BY <2>1, <3>4, <4>1
        <4>2. CASE j > i
          <5>1. j - 1 \in 1 .. Len(buf) /\ result[j] = buf[j - 1]
            BY <2>1, <3>4, <4>2
          <5> QED BY <5>1
        <4> QED BY <2>1, <4>1, <4>2
      <3>6. \A j \in 1 .. Len(buf) : \E k \in 1 .. Len(result) :
                result[k] = buf[j]
        <4> TAKE j \in 1 .. Len(buf)
        <4>1. CASE j < i
          BY <2>1, <3>4, <4>1
        <4>2. CASE j >= i
          <5>1. j + 1 \in 1 .. Len(result) /\ result[j + 1] = buf[j]
            BY <2>1, <3>4, <4>2
          <5> QED BY <5>1
        <4> QED BY <2>1, <4>1, <4>2
      <3>7. i \in 1 .. Len(result) /\ result[i] = p
        BY <2>1, <3>4
      <3> QED BY <3>1, <3>4, <3>5, <3>6, <3>7
    <2> QED BY <2>2, <2>3
  <1> QED BY <1>1, <1>2

(***************************************************************************)
(* WithoutOld returns the end of the list, and leaves out only old packets *)
(* in front.                                                               *)
(***************************************************************************)
LEMMA WithoutOldProperties ==
    ASSUME NEW buf \in Seq(Packet), NEW next \in SeqNum
    PROVE  /\ WithoutOld(buf, next) \in Seq(Packet)
           /\ \A i \in 1 .. Len(WithoutOld(buf, next)) :
                  \E j \in 1 .. Len(buf) : WithoutOld(buf, next)[i] = buf[j]
           /\ Len(WithoutOld(buf, next)) <= Len(buf)
           /\ \A j \in 1 .. Len(buf) :
                  \/ /\ j \in 1 .. (Len(buf) - Len(WithoutOld(buf, next)))
                     /\ seqnum_higher(next, buf[j].seq)
                  \/ /\ j \notin 1 .. (Len(buf) - Len(WithoutOld(buf, next)))
                     /\ \E i \in 1 .. Len(WithoutOld(buf, next)) :
                           WithoutOld(buf, next)[i] = buf[j]
  <1> DEFINE kept == {i \in 1 .. Len(buf) : ~seqnum_higher(next, buf[i].seq)}
  <1>1. CASE kept = {}
    <2>1. WithoutOld(buf, next) = <<>>
      BY <1>1 DEF WithoutOld
    <2>2. <<>> \in Seq(Packet) /\ Len(<<>>) = 0
      OBVIOUS
    <2>3. \A j \in 1 .. Len(buf) : seqnum_higher(next, buf[j].seq)
      BY <1>1
    <2>4. Len(buf) - 0 = Len(buf) /\ 0 <= Len(buf)
      OBVIOUS
    <2> QED BY <2>1, <2>2, <2>3, <2>4
  <1>2. CASE kept # {}
    <2> DEFINE m == Min(kept)
               result == SubSeq(buf, m, Len(buf))
    <2>1. WithoutOld(buf, next) = result
      BY <1>2 DEF WithoutOld
    <2>0. kept \in SUBSET (1 .. Len(buf)) /\ Len(buf) \in Nat
      OBVIOUS
    <2>2. m \in 1 .. Len(buf) /\ \A i \in kept : m <= i
      <3> HIDE DEF kept
      <3> QED BY <1>2, <2>0, MinOfPositions
    <2>3. /\ result \in Seq(Packet)
          /\ Len(result) = Len(buf) - m + 1
          /\ \A i \in 1 .. (Len(buf) - m + 1) : result[i] = buf[m + i - 1]
      <3> HIDE DEF m
      <3> QED BY <2>2, SubSeqProperties
    <2>4. \A j \in 1 .. Len(buf) :
              j < m => seqnum_higher(next, buf[j].seq)
      <3> HIDE DEF m
      <3> QED BY <2>2
    <2> HIDE DEF m, result, kept
    <2>5. \A i \in 1 .. Len(result) :
              \E j \in 1 .. Len(buf) : result[i] = buf[j]
      <3> TAKE i \in 1 .. Len(result)
      <3>1. m + i - 1 \in 1 .. Len(buf) /\ result[i] = buf[m + i - 1]
        BY <2>2, <2>3
      <3> QED BY <3>1
    <2>6. \A j \in 1 .. Len(buf) :
              j >= m => \E i \in 1 .. Len(result) : result[i] = buf[j]
      <3> TAKE j \in 1 .. Len(buf)
      <3> HAVE j >= m
      <3>1. j - m + 1 \in 1 .. Len(result) /\ result[j - m + 1] = buf[j]
        BY <2>2, <2>3
      <3> QED BY <3>1
    <2>7. /\ Len(result) <= Len(buf)
          /\ \A j \in 1 .. Len(buf) :
                 j \in 1 .. (Len(buf) - Len(result)) <=> j < m
      BY <2>0, <2>2, <2>3
    <2>8. \A j \in 1 .. Len(buf) : j < m \/ j >= m
      BY <2>0, <2>2
    <2> QED BY <2>1, <2>3, <2>4, <2>5, <2>6, <2>7, <2>8
  <1> QED BY <1>1, <1>2

-----------------------------------------------------------------------------
(* Type correctness. A receiver's step looks the body of a packet up by    *)
(* its position, so the positions must exist.                              *)

PositionsExist ==
    /\ \A p \in net \cup outgoing_reliables : p.pos \in 1 .. Len(wire)
    /\ \A i \in 1 .. Len(incoming_reliables) :
           incoming_reliables[i].pos \in 1 .. Len(wire)

TypeInv == TypeOK /\ PositionsExist

\* What the numbering of a packet does to the sender's state.
LEMMA RawSendProperties ==
    ASSUME TypeOK, NEW body \in Body, RawSendReliable(body)
    PROVE  LET p == [seq |-> next_outgoing_seqnum, pos |-> Len(wire) + 1]
           IN  /\ p \in Packet
               /\ wire' \in Seq(Body)
               /\ Len(wire) \in Nat
               /\ Len(wire') = Len(wire) + 1
               /\ \A i \in 1 .. Len(wire) : wire'[i] = wire[i]
               /\ next_outgoing_seqnum' \in SeqNum
               /\ net' = net \cup {p}
               /\ outgoing_reliables' \subseteq outgoing_reliables \cup {p}
  <1> DEFINE p == [seq |-> next_outgoing_seqnum, pos |-> Len(wire) + 1]
  <1>1. /\ wire \in Seq(Body) /\ Len(wire) \in Nat
        /\ next_outgoing_seqnum \in SeqNum
    BY DEF TypeOK
  <1>2. p \in Packet /\ p.pos = Len(wire) + 1
    BY <1>1 DEF Packet
  <1>3. /\ wire' \in Seq(Body)
        /\ Len(wire') = Len(wire) + 1
        /\ \A i \in 1 .. Len(wire) : wire'[i] = wire[i]
    BY <1>1, AppendProperties DEF RawSendReliable
  <1>4. next_outgoing_seqnum' \in SeqNum
    BY <1>1, SeqNextType DEF RawSendReliable
  <1>5. /\ net' = net \cup {p}
        /\ outgoing_reliables' \subseteq outgoing_reliables \cup {p}
    BY DEF RawSendReliable
  <1> QED BY <1>1, <1>2, <1>3, <1>4, <1>5

\* Processing a packet whose position exists keeps the types.
LEMMA ProcessType ==
    ASSUME TypeOK, NEW pos \in 1 .. Len(wire), Process(pos)
    PROVE  accepted' \in Seq(Nat \ {0}) /\ delivered' \in Seq(Nat)
  <1>1. /\ accepted \in Seq(Nat \ {0})
        /\ delivered \in Seq(Nat)
        /\ wire[pos] \in Body
        /\ pos \in Nat \ {0}
    BY DEF TypeOK
  <1>2. accepted' \in Seq(Nat \ {0})
    BY <1>1 DEF Process
  <1>3. delivered' \in Seq(Nat)
    BY <1>1 DEF Process, Body
  <1> QED BY <1>2, <1>3

LEMMA PayloadsSentType ==
    ASSUME TypeInv PROVE PayloadsSent \in Nat
  <1>1. CASE wire = <<>>
    BY <1>1 DEF PayloadsSent
  <1>2. CASE wire # <<>>
    <2>1. wire \in Seq(Body) /\ Len(wire) \in 1 .. Len(wire)
      BY <1>2 DEF TypeInv, TypeOK
    <2>2. wire[Len(wire)] \in Body
      BY <2>1, ElementOfSeq
    <2> QED BY <1>2, <2>2 DEF PayloadsSent, Body
  <1> QED BY <1>1, <1>2

\* A numbered packet has a position in wire, and so have the older ones.
LEMMA RawSendPositions ==
    ASSUME TypeInv, NEW body \in Body, RawSendReliable(body),
           UNCHANGED incoming_reliables
    PROVE  PositionsExist'
  <1> DEFINE p == [seq |-> next_outgoing_seqnum, pos |-> Len(wire) + 1]
  <1>1. /\ Len(wire) \in Nat /\ Len(wire') = Len(wire) + 1
        /\ net' = net \cup {p}
        /\ outgoing_reliables' \subseteq outgoing_reliables \cup {p}
    BY RawSendProperties DEF TypeInv
  <1>2. p.pos = Len(wire) + 1
    OBVIOUS
  <1> HIDE DEF p
  <1>3. 1 .. Len(wire) \subseteq 1 .. Len(wire') /\ p.pos \in 1 .. Len(wire')
    BY <1>1, <1>2
  <1>4. \A q \in net \cup outgoing_reliables : q.pos \in 1 .. Len(wire')
    BY <1>3 DEF TypeInv, PositionsExist
  <1>5. \A q \in net' \cup outgoing_reliables' : q.pos \in 1 .. Len(wire')
    BY <1>1, <1>3, <1>4
  <1>6. \A i \in 1 .. Len(incoming_reliables) :
           incoming_reliables[i].pos \in 1 .. Len(wire')
    BY <1>3 DEF TypeInv, PositionsExist
  <1> QED BY <1>5, <1>6 DEF PositionsExist

LEMMA TypeInvInit == Init => TypeInv
  BY ChannelConstants DEF Init, TypeInv, TypeOK, PositionsExist, SeqNum

\* The packets checkIncomingBuffers drops in front when it leaves buf.
Gone(buf) ==
    {incoming_reliables[i] : i \in 1 .. (Len(incoming_reliables) - Len(buf))}

\* They are packets of the list, and old.
LEMMA GoneKnown ==
    ASSUME TypeOK,
           NEW p \in Gone(WithoutOld(incoming_reliables, next_incoming_seqnum))
    PROVE  /\ p.pos \in Nat \ {0}
           /\ \E j \in 1 .. Len(incoming_reliables) : p = incoming_reliables[j]
           /\ seqnum_higher(next_incoming_seqnum, p.seq)
  <1> DEFINE buf == WithoutOld(incoming_reliables, next_incoming_seqnum)
  <1>1. /\ incoming_reliables \in Seq(Packet)
        /\ next_incoming_seqnum \in SeqNum
    BY DEF TypeOK
  <1>2. /\ Len(buf) \in Nat
        /\ Len(buf) <= Len(incoming_reliables)
        /\ \A j \in 1 .. Len(incoming_reliables) :
               \/ seqnum_higher(next_incoming_seqnum, incoming_reliables[j].seq)
               \/ j \notin 1 .. (Len(incoming_reliables) - Len(buf))
    BY <1>1, WithoutOldProperties
  <1>3. PICK j \in 1 .. (Len(incoming_reliables) - Len(buf)) :
            p = incoming_reliables[j]
    BY DEF Gone
  <1> HIDE DEF buf
  <1>4. j \in 1 .. Len(incoming_reliables)
    BY <1>1, <1>2
  <1>5. p \in Packet
    BY <1>1, <1>3, <1>4
  <1> QED BY <1>2, <1>3, <1>4, <1>5 DEF Packet

LEMMA TypeInvNext == TypeInv /\ [Next]_vars => TypeInv'
  <1> SUFFICES ASSUME TypeInv, [Next]_vars PROVE TypeInv'
    OBVIOUS
  <1> USE DEF TypeInv
  <1>1. CASE Send
    BY <1>1 DEF Send, TypeOK, PositionsExist, receiverVars
  <1>2. CASE SendQueued
    <2> DEFINE body == [kind |-> "data", n |-> Head(outgoing_queue)]
    <2>1. body \in Body /\ RawSendReliable(body) /\ outgoing_queue' \in Seq(Nat)
      BY <1>2 DEF SendQueued, TypeOK, Body
    <2> HIDE DEF body
    <2>2. TypeOK'
      BY <1>2, <2>1, RawSendProperties DEF SendQueued, TypeOK, receiverVars
    <2>3. PositionsExist'
      <3>1. UNCHANGED incoming_reliables
        BY <1>2 DEF SendQueued, receiverVars
      <3> QED BY <2>1, <3>1, RawSendPositions
    <2> QED BY <2>2, <2>3
  <1>3. CASE Ping
    <2> DEFINE body == [kind |-> "ping", n |-> PayloadsSent]
    <2>1. body \in Body /\ RawSendReliable(body)
      BY <1>3, PayloadsSentType DEF Ping, Body
    <2> HIDE DEF body
    <2>2. TypeOK'
      BY <1>3, <2>1, RawSendProperties DEF Ping, TypeOK, receiverVars
    <2>3. PositionsExist'
      <3>1. UNCHANGED incoming_reliables
        BY <1>3 DEF Ping, receiverVars
      <3> QED BY <2>1, <3>1, RawSendPositions
    <2> QED BY <2>2, <2>3
  <1>4. ASSUME NEW p \in outgoing_reliables, Resend(p) PROVE TypeInv'
    BY <1>4 DEF Resend, TypeOK, PositionsExist, senderVars, receiverVars
  <1>5. ASSUME NEW s \in acks, ReceiveAck(s) PROVE TypeInv'
    BY <1>5 DEF ReceiveAck, TypeOK, PositionsExist, receiverVars
  <1>6. CASE SenderDeletesPeer
    <2>0. connected' \in BOOLEAN /\ outgoing_queue' \in Seq(Nat)
      <3>1. connected' = FALSE /\ outgoing_queue' = <<>>
        BY <1>6 DEF SenderDeletesPeer
      <3>2. <<>> \in Seq(Nat)
        OBVIOUS
      <3> QED BY <3>1, <3>2, Zenon
    <2>1. TypeOK'
      BY <1>6, <2>0 DEF SenderDeletesPeer, TypeOK, receiverVars
    <2>2. PositionsExist'
      BY <1>6 DEF SenderDeletesPeer, PositionsExist, receiverVars
    <2> QED BY <2>1, <2>2
  <1>7. ASSUME NEW p \in net, ReceiveReliable(p) PROVE TypeInv'
    <2>1. /\ p \in Packet
          /\ p.seq \in SeqNum
          /\ p.pos \in 1 .. Len(wire)
          /\ incoming_reliables \in Seq(Packet)
      BY DEF TypeOK, PositionsExist, Packet
    <2>2. /\ net' \subseteq net
          /\ acks' = acks \cup {p.seq}
          /\ UNCHANGED <<senderVars, receiving, nsent, wire>>
      BY <1>7 DEF ReceiveReliable
    <2>3. \/ /\ incoming_reliables' = InsertPacket(incoming_reliables, p)
             /\ UNCHANGED <<next_incoming_seqnum, accepted, delivered,
                            mistaken>>
          \/ /\ Mistake({p})
             /\ UNCHANGED <<incoming_reliables, next_incoming_seqnum,
                            accepted, delivered>>
          \/ /\ next_incoming_seqnum' = SeqNext(next_incoming_seqnum)
             /\ Process(p.pos)
             /\ UNCHANGED <<incoming_reliables, mistaken>>
      BY <1>7 DEF ReceiveReliable
    <2>4. /\ incoming_reliables' \in Seq(Packet)
          /\ \A i \in 1 .. Len(incoming_reliables') :
                incoming_reliables'[i].pos \in 1 .. Len(wire)
      <3> DEFINE new == InsertPacket(incoming_reliables, p)
      <3>1. /\ new \in Seq(Packet)
            /\ \A i \in 1 .. Len(new) :
                  \/ new[i] = p
                  \/ \E j \in 1 .. Len(incoming_reliables) :
                         new[i] = incoming_reliables[j]
        BY <2>1, InsertPacketProperties
      <3> HIDE DEF new
      <3>2. CASE incoming_reliables' = new
        BY <2>1, <3>1, <3>2 DEF PositionsExist
      <3>3. CASE UNCHANGED incoming_reliables
        BY <2>1, <3>3 DEF PositionsExist
      <3> QED BY <2>3, <3>2, <3>3 DEF new
    <2>5. /\ next_incoming_seqnum' \in SeqNum
          /\ accepted' \in Seq(Nat \ {0})
          /\ delivered' \in Seq(Nat)
      BY <2>1, <2>3, SeqNextType, ProcessType DEF TypeOK
    <2>8. mistaken' \subseteq (Nat \ {0}) \X (Nat \ {0})
      <3>1. CASE UNCHANGED mistaken
        BY <3>1 DEF TypeOK
      <3>2. CASE Mistake({p})
        <4>1. \A q \in {p} : q.pos \in Nat \ {0}
          BY <2>1 DEF Packet
        <4> QED BY <3>2, <4>1, MistakeType
      <3> QED BY <2>3, <3>1, <3>2
    <2>6. TypeOK'
      BY <2>1, <2>2, <2>4, <2>5, <2>8 DEF TypeOK, senderVars
    <2>7. PositionsExist'
      BY <2>2, <2>4 DEF PositionsExist, senderVars
    <2> QED BY <2>6, <2>7
  <1>8. CASE CheckIncomingBuffers
    <2> DEFINE buf == WithoutOld(incoming_reliables, next_incoming_seqnum)
    <2>1. /\ buf \in Seq(Packet)
          /\ \A i \in 1 .. Len(buf) : buf[i].pos \in 1 .. Len(wire)
      <3>1. /\ incoming_reliables \in Seq(Packet)
            /\ next_incoming_seqnum \in SeqNum
        BY DEF TypeOK
      <3>2. /\ buf \in Seq(Packet)
            /\ \A i \in 1 .. Len(buf) :
                  \E j \in 1 .. Len(incoming_reliables) :
                      buf[i] = incoming_reliables[j]
        BY <3>1, WithoutOldProperties
      <3> HIDE DEF buf
      <3> QED BY <3>1, <3>2 DEF PositionsExist
    <2>2. UNCHANGED <<senderVars, net, acks, receiving, nsent, wire>>
      BY <1>8 DEF CheckIncomingBuffers
    <2>8. mistaken' \subseteq (Nat \ {0}) \X (Nat \ {0})
      <3> DEFINE gone == Gone(buf)
      <3>1. \A q \in gone : q.pos \in Nat \ {0}
        BY GoneKnown DEF PositionsExist
      <3>2. Mistake(gone)
        BY <1>8 DEF CheckIncomingBuffers, Gone
      <3> HIDE DEF gone
      <3> QED BY <3>1, <3>2, MistakeType
    <2>3. \/ /\ buf # <<>>
             /\ incoming_reliables' = Tail(buf)
             /\ next_incoming_seqnum' = SeqNext(next_incoming_seqnum)
             /\ Process(Head(buf).pos)
          \/ /\ incoming_reliables' = buf
             /\ UNCHANGED <<next_incoming_seqnum, accepted, delivered>>
      BY <1>8 DEF CheckIncomingBuffers
    <2> HIDE DEF buf
    <2>4. /\ incoming_reliables' \in Seq(Packet)
          /\ \A i \in 1 .. Len(incoming_reliables') :
                incoming_reliables'[i].pos \in 1 .. Len(wire)
      <3>1. CASE buf # <<>> /\ incoming_reliables' = Tail(buf)
        <4>1. /\ Tail(buf) \in Seq(Packet)
              /\ Len(Tail(buf)) = Len(buf) - 1
              /\ \A i \in 1 .. Len(Tail(buf)) : Tail(buf)[i] = buf[i + 1]
          BY <2>1, <3>1, HeadTailProperties
        <4>2. \A i \in 1 .. Len(Tail(buf)) : i + 1 \in 1 .. Len(buf)
          BY <2>1, <4>1
        <4> QED BY <2>1, <3>1, <4>1, <4>2
      <3>2. CASE incoming_reliables' = buf
        BY <2>1, <3>2
      <3> QED BY <2>3, <3>1, <3>2
    <2>5. /\ next_incoming_seqnum' \in SeqNum
          /\ accepted' \in Seq(Nat \ {0})
          /\ delivered' \in Seq(Nat)
      <3>1. buf # <<>> => Head(buf).pos \in 1 .. Len(wire)
        BY <2>1
      <3> QED BY <2>3, <3>1, SeqNextType, ProcessType DEF TypeOK
    <2>6. TypeOK'
      BY <2>2, <2>4, <2>5, <2>8 DEF TypeOK, senderVars
    <2>7. PositionsExist'
      BY <2>2, <2>4 DEF PositionsExist, senderVars
    <2> QED BY <2>6, <2>7
  <1>9. CASE ReceiverDeletesPeer
    <2>0. receiving' \in BOOLEAN /\ incoming_reliables' \in Seq(Packet)
      <3>1. receiving' = FALSE /\ incoming_reliables' = <<>>
        BY <1>9 DEF ReceiverDeletesPeer
      <3>2. <<>> \in Seq(Packet)
        OBVIOUS
      <3> QED BY <3>1, <3>2, Zenon
    <2>1. TypeOK'
      BY <1>9, <2>0 DEF ReceiverDeletesPeer, TypeOK, senderVars
    <2>2. PositionsExist'
      BY <1>9 DEF ReceiverDeletesPeer, PositionsExist, senderVars
    <2> QED BY <2>1, <2>2
  <1>10. CASE LoseData
    BY <1>10 DEF LoseData, TypeOK, PositionsExist, senderVars, receiverVars
  <1>11. CASE LoseAck
    BY <1>11 DEF LoseAck, TypeOK, PositionsExist, senderVars, receiverVars
  <1>12. CASE UNCHANGED vars
    BY <1>12 DEF vars, TypeOK, PositionsExist, senderVars, receiverVars
  <1> QED BY <1>1, <1>2, <1>3, <1>4, <1>5, <1>6, <1>7, <1>8, <1>9, <1>10,
             <1>11, <1>12 DEF Next

(***************************************************************************)
(* Every reachable state is well typed, whatever the constants: in         *)
(* particular no number leaves the range of a u16 and every packet in      *)
(* flight or buffered is one that was numbered.                            *)
(***************************************************************************)
THEOREM TypeCorrect == Spec => []TypeOK
  <1>1. TypeInv => TypeOK
    BY DEF TypeInv
  <1> QED BY <1>1, TypeInvInit, TypeInvNext, PTL DEF Spec

-----------------------------------------------------------------------------
(* In-order delivery. *)

\* Numbering one more packet keeps the sequence numbers distinct.
LEMMA RawSendNumbered ==
    ASSUME FewPackets, TypeInv, Numbered, NEW body \in Body,
           RawSendReliable(body),
           UNCHANGED <<incoming_reliables, next_incoming_seqnum, accepted>>
    PROVE  /\ Numbered'
           /\ outgoing_reliables' = outgoing_reliables \cup
                  {[seq |-> next_outgoing_seqnum, pos |-> Len(wire) + 1]}
  <1> DEFINE p == [seq |-> next_outgoing_seqnum, pos |-> Len(wire) + 1]
  <1>1. /\ p \in Packet
        /\ p.seq = next_outgoing_seqnum
        /\ p.pos = Len(wire) + 1
        /\ Len(wire) \in Nat
        /\ Len(wire') = Len(wire) + 1
        /\ Len(wire) < MaxPackets
        /\ net' = net \cup {p}
        /\ outgoing_reliables' \subseteq outgoing_reliables \cup {p}
    BY RawSendProperties DEF TypeInv, RawSendReliable
  <1>2. MaxPackets \in Nat
    BY ChannelConstants
  <1>3. next_outgoing_seqnum = SeqOf(Len(wire) + 1)
    BY DEF Numbered
  <1>4. next_outgoing_seqnum' = SeqOf(Len(wire) + 2)
    <2>1. /\ Len(wire) + 1 \in 1 .. (MaxPackets + 1)
          /\ Len(wire) + 1 <= MaxPackets
          /\ Len(wire) + 2 = (Len(wire) + 1) + 1
      BY <1>1, <1>2
    <2>2. next_outgoing_seqnum' = SeqNext(next_outgoing_seqnum)
      BY DEF RawSendReliable
    <2> QED BY <1>3, <2>1, <2>2, SeqOfNext
  <1>5. \A q \in outgoing_reliables : q.seq # p.seq
    <2> SUFFICES ASSUME NEW q \in outgoing_reliables, q.seq = p.seq
                 PROVE  FALSE
      OBVIOUS
    <2>1. q.pos \in 1 .. Len(wire) /\ q.seq = SeqOf(q.pos)
      BY DEF Numbered, Known
    <2>2. q.pos \in 1 .. (MaxPackets + 1) /\ Len(wire) + 1 \in 1 .. (MaxPackets + 1)
      BY <1>1, <1>2, <2>1
    <2>3. q.pos = Len(wire) + 1
      BY <1>1, <1>3, <2>1, <2>2, SeqOfInjective
    <2> QED BY <1>1, <2>1, <2>3
  <1>6. outgoing_reliables' = outgoing_reliables \cup {p}
    BY <1>5 DEF RawSendReliable
  <1>7. p.pos \in 1 .. Len(wire') /\ p.seq = SeqOf(p.pos)
    BY <1>1, <1>3
  <1>8. \A q : Known(q) => Known(q)'
    BY <1>1 DEF Known
  <1> HIDE DEF p
  <1>9. \A q \in net' \cup outgoing_reliables' : Known(q)'
    <2> TAKE q \in net' \cup outgoing_reliables'
    <2>1. CASE q = p
      BY <1>7, <2>1 DEF Known
    <2>2. CASE q \in net \cup outgoing_reliables
      BY <1>8, <2>2 DEF Numbered
    <2> QED BY <1>1, <1>6, <2>1, <2>2
  <1>10. \A i \in 1 .. Len(incoming_reliables') : Known(incoming_reliables[i])'
    BY <1>8 DEF Numbered
  <1>11. Len(wire') <= MaxPackets /\ Len(accepted) <= Len(wire')
    <2>1. Len(accepted) \in Nat
      BY DEF TypeInv, TypeOK
    <2> QED BY <1>1, <1>2, <2>1 DEF Numbered
  <1>12. Len(wire') + 1 = Len(wire) + 2
    BY <1>1
  <1> QED BY <1>4, <1>6, <1>9, <1>10, <1>11, <1>12 DEF Numbered, p

(***************************************************************************)
(* A known packet that carries the expected number is the packet at the    *)
(* next position, so processing it keeps the order.                        *)
(***************************************************************************)
LEMMA ProcessInOrder ==
    ASSUME FewPackets, TypeInv, Numbered, InOrder,
           NEW p, Known(p), p.seq = next_incoming_seqnum, Process(p.pos),
           next_incoming_seqnum' = SeqNext(next_incoming_seqnum)
    PROVE  /\ p.pos = Len(accepted) + 1
           /\ Len(accepted') = Len(accepted) + 1
           /\ Len(accepted') <= Len(wire)
           /\ next_incoming_seqnum' = SeqOf(Len(accepted') + 1)
           /\ InOrder'
  <1>1. /\ accepted \in Seq(Nat \ {0})
        /\ Len(accepted) \in Nat
        /\ Len(wire) \in Nat
        /\ MaxPackets \in Nat
    BY ChannelConstants DEF TypeInv, TypeOK
  <1>2. /\ p.pos \in 1 .. Len(wire)
        /\ SeqOf(p.pos) = SeqOf(Len(accepted) + 1)
        /\ Len(accepted) <= Len(wire)
        /\ Len(wire) <= MaxPackets
    BY DEF Numbered, Known
  <1>3. /\ p.pos \in 1 .. (MaxPackets + 1)
        /\ Len(accepted) + 1 \in 1 .. (MaxPackets + 1)
    BY <1>1, <1>2
  <1>4. p.pos = Len(accepted) + 1
    BY <1>2, <1>3, SeqOfInjective
  <1>5. /\ accepted' = Append(accepted, p.pos)
        /\ p.pos \in Nat \ {0}
    BY <1>2 DEF Process
  <1>6. /\ Len(accepted') = Len(accepted) + 1
        /\ accepted'[Len(accepted) + 1] = p.pos
        /\ \A i \in 1 .. Len(accepted) : accepted'[i] = accepted[i]
    BY <1>1, <1>5, AppendProperties
  <1>7. InOrder'
    BY <1>1, <1>4, <1>6 DEF InOrder
  <1>8. Len(accepted') <= Len(wire)
    BY <1>1, <1>2, <1>4, <1>6
  <1>9. next_incoming_seqnum' = SeqOf(Len(accepted') + 1)
    <2>1. Len(accepted) + 1 <= MaxPackets
      BY <1>1, <1>2, <1>4
    <2>2. next_incoming_seqnum = SeqOf(Len(accepted) + 1)
      BY DEF Numbered
    <2> QED BY <1>3, <1>6, <2>1, <2>2, SeqOfNext
  <1> QED BY <1>4, <1>6, <1>7, <1>8, <1>9

LEMMA NumberedInit == FewPackets /\ Init => Numbered /\ InOrder
  <1> SUFFICES ASSUME FewPackets, Init PROVE Numbered /\ InOrder
    OBVIOUS
  <1>1. SeqOf(1) = SEQNUM_INITIAL
    BY ChannelConstants DEF SeqOf
  <1>2. /\ wire = <<>> /\ accepted = <<>> /\ incoming_reliables = <<>>
        /\ net = {} /\ outgoing_reliables = {}
        /\ next_outgoing_seqnum = SEQNUM_INITIAL
        /\ next_incoming_seqnum = SEQNUM_INITIAL
    BY DEF Init
  <1>3. Len(<<>>) = 0 /\ 0 <= MaxPackets
    BY ChannelConstants
  <1> QED BY <1>1, <1>2, <1>3 DEF Numbered, InOrder

LEMMA NumberedNext ==
    ASSUME FewPackets, TypeInv, Numbered, InOrder, [Next]_vars
    PROVE  Numbered' /\ InOrder'
  <1>1. CASE Send
    BY <1>1 DEF Send, Numbered, Known, InOrder, receiverVars
  <1>2. CASE SendQueued
    <2> DEFINE body == [kind |-> "data", n |-> Head(outgoing_queue)]
    <2>1. body \in Body /\ RawSendReliable(body)
      BY <1>2 DEF SendQueued, TypeInv, TypeOK, Body
    <2>2. UNCHANGED <<incoming_reliables, next_incoming_seqnum, accepted>>
      BY <1>2 DEF SendQueued, receiverVars
    <2> HIDE DEF body
    <2> QED BY <2>1, <2>2, RawSendNumbered DEF InOrder
  <1>3. CASE Ping
    <2> DEFINE body == [kind |-> "ping", n |-> PayloadsSent]
    <2>1. body \in Body /\ RawSendReliable(body)
      BY <1>3, PayloadsSentType DEF Ping, Body
    <2>2. UNCHANGED <<incoming_reliables, next_incoming_seqnum, accepted>>
      BY <1>3 DEF Ping, receiverVars
    <2> HIDE DEF body
    <2> QED BY <2>1, <2>2, RawSendNumbered DEF InOrder
  <1>4. ASSUME NEW p \in outgoing_reliables, Resend(p) PROVE Numbered' /\ InOrder'
    BY <1>4 DEF Resend, Numbered, Known, InOrder, senderVars, receiverVars
  <1>5. ASSUME NEW s \in acks, ReceiveAck(s) PROVE Numbered' /\ InOrder'
    BY <1>5 DEF ReceiveAck, Numbered, Known, InOrder, receiverVars
  <1>6. CASE SenderDeletesPeer
    BY <1>6 DEF SenderDeletesPeer, Numbered, Known, InOrder, receiverVars
  <1>7. ASSUME NEW p \in net, ReceiveReliable(p) PROVE Numbered' /\ InOrder'
    <2>1. /\ p \in Packet
          /\ Known(p)
          /\ p.seq \in SeqNum
          /\ next_incoming_seqnum \in SeqNum
          /\ incoming_reliables \in Seq(Packet)
      BY DEF TypeInv, TypeOK, Numbered, Packet
    <2>2. /\ net' \subseteq net
          /\ UNCHANGED <<wire, next_outgoing_seqnum, outgoing_reliables>>
      BY <1>7 DEF ReceiveReliable, senderVars
    <2>3. \A q : Known(q) => Known(q)'
      BY <2>2 DEF Known
    <2>4. CASE /\ incoming_reliables' = InsertPacket(incoming_reliables, p)
               /\ UNCHANGED <<next_incoming_seqnum, accepted, delivered>>
      <3>1. \A i \in 1 .. Len(incoming_reliables') : Known(incoming_reliables'[i])
        <4> DEFINE new == InsertPacket(incoming_reliables, p)
        <4>1. \A i \in 1 .. Len(new) :
                  \/ new[i] = p
                  \/ \E j \in 1 .. Len(incoming_reliables) :
                         new[i] = incoming_reliables[j]
          BY <2>1, InsertPacketProperties
        <4> HIDE DEF new
        <4>2. \A i \in 1 .. Len(new) : Known(new[i])
          BY <2>1, <4>1 DEF Numbered
        <4> QED BY <2>4, <4>2 DEF new
      <3> QED BY <2>2, <2>3, <2>4, <3>1 DEF Numbered, Known, InOrder
    <2>5. CASE UNCHANGED <<incoming_reliables, next_incoming_seqnum, accepted>>
      BY <2>2, <2>3, <2>5 DEF Numbered, Known, InOrder
    <2>6. CASE /\ ~seqnum_higher(p.seq, next_incoming_seqnum)
               /\ ~seqnum_higher(next_incoming_seqnum, p.seq)
               /\ next_incoming_seqnum' = SeqNext(next_incoming_seqnum)
               /\ Process(p.pos)
               /\ UNCHANGED incoming_reliables
      <3>1. p.seq = next_incoming_seqnum
        BY <2>1, <2>6, NeitherIsEqual
      <3>2. /\ next_incoming_seqnum' = SeqOf(Len(accepted') + 1)
            /\ Len(accepted') <= Len(wire)
            /\ InOrder'
        BY <2>1, <2>6, <3>1, ProcessInOrder
      <3> QED BY <2>2, <2>3, <2>6, <3>2 DEF Numbered, Known
    <2> QED BY <1>7, <2>4, <2>5, <2>6 DEF ReceiveReliable
  <1>8. CASE CheckIncomingBuffers
    <2> DEFINE buf == WithoutOld(incoming_reliables, next_incoming_seqnum)
    <2>1. buf \in Seq(Packet) /\ \A i \in 1 .. Len(buf) : Known(buf[i])
      <3>1. /\ incoming_reliables \in Seq(Packet)
            /\ next_incoming_seqnum \in SeqNum
        BY DEF TypeInv, TypeOK
      <3>2. /\ buf \in Seq(Packet)
            /\ \A i \in 1 .. Len(buf) :
                  \E j \in 1 .. Len(incoming_reliables) :
                      buf[i] = incoming_reliables[j]
        BY <3>1, WithoutOldProperties
      <3> HIDE DEF buf
      <3> QED BY <3>2 DEF Numbered
    <2>2. UNCHANGED <<senderVars, net, wire>>
      BY <1>8 DEF CheckIncomingBuffers
    <2>3. \/ /\ buf # <<>>
             /\ Head(buf).seq = next_incoming_seqnum
             /\ incoming_reliables' = Tail(buf)
             /\ next_incoming_seqnum' = SeqNext(next_incoming_seqnum)
             /\ Process(Head(buf).pos)
          \/ /\ incoming_reliables' = buf
             /\ UNCHANGED <<next_incoming_seqnum, accepted, delivered>>
      BY <1>8 DEF CheckIncomingBuffers
    <2> HIDE DEF buf
    <2>4. \A q : Known(q) => Known(q)'
      BY <2>2 DEF Known
    <2>5. CASE /\ buf # <<>>
               /\ Head(buf).seq = next_incoming_seqnum
               /\ incoming_reliables' = Tail(buf)
               /\ next_incoming_seqnum' = SeqNext(next_incoming_seqnum)
               /\ Process(Head(buf).pos)
      <3>1. Known(Head(buf))
        BY <2>1, <2>5
      <3>2. /\ next_incoming_seqnum' = SeqOf(Len(accepted') + 1)
            /\ Len(accepted') <= Len(wire)
            /\ InOrder'
        BY <2>5, <3>1, ProcessInOrder
      <3>3. \A i \in 1 .. Len(incoming_reliables') : Known(incoming_reliables'[i])
        <4>1. /\ Len(Tail(buf)) = Len(buf) - 1
              /\ \A i \in 1 .. Len(Tail(buf)) : Tail(buf)[i] = buf[i + 1]
          BY <2>1, <2>5, HeadTailProperties
        <4>2. \A i \in 1 .. Len(Tail(buf)) : i + 1 \in 1 .. Len(buf)
          BY <2>1, <4>1
        <4> QED BY <2>1, <2>5, <4>1, <4>2
      <3> QED BY <2>2, <3>2, <3>3 DEF Numbered, Known, senderVars
    <2>6. CASE /\ incoming_reliables' = buf
               /\ UNCHANGED <<next_incoming_seqnum, accepted, delivered>>
      BY <2>1, <2>2, <2>6 DEF Numbered, Known, InOrder, senderVars
    <2> QED BY <2>3, <2>5, <2>6
  <1>9. CASE ReceiverDeletesPeer
    BY <1>9 DEF ReceiverDeletesPeer, Numbered, Known, InOrder, senderVars
  <1>10. CASE LoseData
    BY <1>10 DEF LoseData, Numbered, Known, InOrder, senderVars, receiverVars
  <1>11. CASE LoseAck
    BY <1>11 DEF LoseAck, Numbered, Known, InOrder, senderVars, receiverVars
  <1>12. CASE UNCHANGED vars
    BY <1>12 DEF vars, Numbered, Known, InOrder, senderVars, receiverVars
  <1> QED BY <1>1, <1>2, <1>3, <1>4, <1>5, <1>6, <1>7, <1>8, <1>9, <1>10,
             <1>11, <1>12 DEF Next

(***************************************************************************)
(* The packets of a channel are processed in the order they were numbered, *)
(* each once and none skipped, across the wrap of the sequence number and  *)
(* whatever the network does, as long as the channel carries fewer packets *)
(* than there are sequence numbers.                                        *)
(***************************************************************************)
THEOREM DeliveredInOrder == FewPackets /\ Spec => []InOrder
  <1>1. FewPackets /\ Init => TypeInv /\ Numbered /\ InOrder
    BY TypeInvInit, NumberedInit
  <1>2. FewPackets /\ TypeInv /\ Numbered /\ InOrder /\ [Next]_vars
            => TypeInv' /\ Numbered' /\ InOrder'
    BY TypeInvNext, NumberedNext
  <1>3. FewPackets => FewPackets'
    BY DEF FewPackets
  <1> QED BY <1>1, <1>2, <1>3, PTL DEF Spec

-----------------------------------------------------------------------------
(* An ACK frees no packet but those the receiver has, or once mistook.     *)

KeepInv == AcksKnown /\ AcksHonest /\ SomeoneHolds /\ MistakesConfused

Inv == TypeInv /\ Numbered /\ InOrder

\* Receiving a packet leaves it held, and what was held stays held.
LEMMA ReceiveHolds ==
    ASSUME FewPackets, Inv, NEW p \in net, ReceiveReliable(p)
    PROVE  Held(p.pos)' /\ \A i \in Nat : Held(i) => Held(i)'
  <1>1. /\ p \in Packet
        /\ Known(p)
        /\ p.seq = SeqOf(p.pos)
        /\ p.seq \in SeqNum
        /\ next_incoming_seqnum \in SeqNum
        /\ incoming_reliables \in Seq(Packet)
        /\ Len(accepted) \in Nat
    BY DEF Inv, TypeInv, TypeOK, Numbered, Known, Packet
  <1>2. /\ p.pos \in 1 .. (MaxPackets + 1)
        /\ Len(accepted) + 1 \in 1 .. (MaxPackets + 1)
        /\ next_incoming_seqnum = SeqOf(Len(accepted) + 1)
    <2>1. /\ p.pos \in 1 .. Len(wire) /\ Len(wire) \in Nat
          /\ Len(wire) <= MaxPackets
          /\ Len(accepted) <= Len(wire)
          /\ MaxPackets \in Nat
      BY ChannelConstants DEF Inv, TypeInv, TypeOK, Numbered, Known
    <2> QED BY <1>1, <2>1 DEF Inv, Numbered
  <1>3. CASE /\ incoming_reliables' = InsertPacket(incoming_reliables, p)
             /\ UNCHANGED <<next_incoming_seqnum, accepted, delivered,
                            mistaken>>
    <2> DEFINE new == InsertPacket(incoming_reliables, p)
    <2>1. /\ \A j \in 1 .. Len(incoming_reliables) :
                \E k \in 1 .. Len(new) : new[k] = incoming_reliables[j]
          /\ \/ \E k \in 1 .. Len(new) : new[k] = p
             \/ \E j \in 1 .. Len(incoming_reliables) :
                    incoming_reliables[j].seq = p.seq
      BY <1>1, InsertPacketProperties
    <2> HIDE DEF new
    <2>2. \A i \in Nat : Held(i) => Held(i)'
      BY <1>3, <2>1 DEF Held, new
    <2>3. CASE \E k \in 1 .. Len(new) : new[k] = p
      BY <1>2, <1>3, <2>2, <2>3 DEF Held, new
    <2>4. CASE \E j \in 1 .. Len(incoming_reliables) :
                   incoming_reliables[j].seq = p.seq
      <3>1. PICK j \in 1 .. Len(incoming_reliables) :
                incoming_reliables[j].seq = p.seq
        BY <2>4
      <3>2. /\ incoming_reliables[j].pos \in 1 .. (MaxPackets + 1)
            /\ SeqOf(incoming_reliables[j].pos) = SeqOf(p.pos)
        <4>1. /\ Known(incoming_reliables[j])
              /\ Len(wire) \in Nat /\ Len(wire) <= MaxPackets
              /\ MaxPackets \in Nat
          BY ChannelConstants DEF Inv, TypeInv, TypeOK, Numbered
        <4> QED BY <1>1, <3>1, <4>1 DEF Known
      <3>3. incoming_reliables[j].pos = p.pos
        BY <1>2, <3>2, SeqOfInjective
      <3>4. Held(p.pos)
        BY <3>3 DEF Held
      <3> QED BY <1>2, <2>2, <3>4
    <2> QED BY <2>1, <2>2, <2>3, <2>4
  <1>4. CASE /\ Mistake({p})
             /\ UNCHANGED <<incoming_reliables, next_incoming_seqnum, accepted,
                            delivered>>
    <2>1. /\ mistaken \subseteq mistaken'
          /\ \/ p.pos \in 1 .. Len(accepted)
             \/ \E m \in mistaken' : m[2] = p.pos
      BY <1>4, MistakeRemembers
    <2>2. p.pos \in 1 .. Len(accepted) => p.pos <= Len(accepted)
      BY <1>1
    <2> QED BY <1>4, <2>1, <2>2 DEF Held
  <1>5. CASE /\ ~seqnum_higher(p.seq, next_incoming_seqnum)
             /\ ~seqnum_higher(next_incoming_seqnum, p.seq)
             /\ next_incoming_seqnum' = SeqNext(next_incoming_seqnum)
             /\ Process(p.pos)
             /\ UNCHANGED <<incoming_reliables, mistaken>>
    <2>1. p.seq = next_incoming_seqnum
      BY <1>1, <1>5, NeitherIsEqual
    <2>2. p.pos = Len(accepted) + 1 /\ Len(accepted') = Len(accepted) + 1
      BY <1>1, <1>5, <2>1, ProcessInOrder DEF Inv
    <2>3. \A i \in Nat : Held(i) => Held(i)'
      <3>1. \A i \in Nat : i <= Len(accepted) => i <= Len(accepted')
        <4> TAKE i \in Nat
        <4> QED BY <1>1, <2>2
      <3> QED BY <1>5, <3>1 DEF Held
    <2>4. Held(p.pos)'
      <3>1. p.pos <= Len(accepted')
        BY <1>1, <2>2
      <3> QED BY <1>5, <3>1 DEF Held
    <2> QED BY <2>3, <2>4
  <1> QED BY <1>3, <1>4, <1>5 DEF ReceiveReliable

\* What the receiver drops from its buffer it has processed or mistakes.
LEMMA CheckHolds ==
    ASSUME FewPackets, Inv, CheckIncomingBuffers
    PROVE  \A i \in Nat : Held(i) => Held(i)'
  <1> DEFINE buf == WithoutOld(incoming_reliables, next_incoming_seqnum)
  <1>1. /\ incoming_reliables \in Seq(Packet)
        /\ next_incoming_seqnum \in SeqNum
        /\ next_incoming_seqnum = SeqOf(Len(accepted) + 1)
        /\ Len(accepted) \in Nat
        /\ Len(wire) \in Nat
        /\ Len(wire) <= MaxPackets
        /\ Len(accepted) <= Len(wire)
        /\ MaxPackets \in Nat
        /\ \A j \in 1 .. Len(incoming_reliables) : Known(incoming_reliables[j])
    BY ChannelConstants DEF Inv, TypeInv, TypeOK, Numbered
  <1>2. /\ buf \in Seq(Packet)
        /\ \A k \in 1 .. Len(buf) :
              \E j \in 1 .. Len(incoming_reliables) :
                  buf[k] = incoming_reliables[j]
        /\ \A j \in 1 .. Len(incoming_reliables) :
              \/ j \in 1 .. (Len(incoming_reliables) - Len(buf))
              \/ \E k \in 1 .. Len(buf) : buf[k] = incoming_reliables[j]
    BY <1>1, WithoutOldProperties
  <1>7. /\ mistaken \subseteq mistaken'
        /\ \A j \in 1 .. (Len(incoming_reliables) - Len(buf)) :
              \/ incoming_reliables[j].pos \in 1 .. Len(accepted)
              \/ \E m \in mistaken' : m[2] = incoming_reliables[j].pos
    <2> DEFINE gone == Gone(buf)
    <2>1. Mistake(gone)
      BY DEF CheckIncomingBuffers, Gone
    <2>2. \A j \in 1 .. (Len(incoming_reliables) - Len(buf)) :
              incoming_reliables[j] \in gone
      BY DEF Gone
    <2> HIDE DEF gone, buf
    <2> QED BY <2>1, <2>2, MistakeRemembers
  <1>3. \/ /\ buf # <<>>
           /\ Head(buf).seq = next_incoming_seqnum
           /\ incoming_reliables' = Tail(buf)
           /\ next_incoming_seqnum' = SeqNext(next_incoming_seqnum)
           /\ Process(Head(buf).pos)
        \/ /\ incoming_reliables' = buf
           /\ UNCHANGED <<next_incoming_seqnum, accepted, delivered>>
    BY DEF CheckIncomingBuffers
  <1> HIDE DEF buf
  <1>4. \A i \in Nat :
            Held(i) => \/ i <= Len(accepted)
                       \/ \E k \in 1 .. Len(buf) : buf[k].pos = i
                       \/ \E m \in mistaken' : m[2] = i
    <2> TAKE i \in Nat
    <2> HAVE Held(i)
    <2>1. CASE i <= Len(accepted) \/ \E m \in mistaken : m[2] = i
      BY <1>7, <2>1
    <2>2. ASSUME NEW j \in 1 .. Len(incoming_reliables),
                 incoming_reliables[j].pos = i
          PROVE  \/ i <= Len(accepted)
                 \/ \E k \in 1 .. Len(buf) : buf[k].pos = i
                 \/ \E m \in mistaken' : m[2] = i
      <3>1. i \in 1 .. Len(accepted) => i <= Len(accepted)
        BY <1>1
      <3> QED BY <1>2, <1>7, <2>2, <3>1
    <2> QED BY <2>1, <2>2 DEF Held
  <1>5. CASE /\ buf # <<>>
             /\ Head(buf).seq = next_incoming_seqnum
             /\ incoming_reliables' = Tail(buf)
             /\ next_incoming_seqnum' = SeqNext(next_incoming_seqnum)
             /\ Process(Head(buf).pos)
    <2>1. Head(buf) = buf[1] /\ Len(buf) \in Nat /\ 1 \in 1 .. Len(buf)
      BY <1>2, <1>5
    <2>2. Known(Head(buf))
      BY <1>1, <1>2, <2>1
    <2>3. /\ Head(buf).pos = Len(accepted) + 1
          /\ Len(accepted') = Len(accepted) + 1
      BY <1>5, <2>2, ProcessInOrder DEF Inv
    <2>4. /\ Len(Tail(buf)) = Len(buf) - 1
          /\ \A k \in 1 .. Len(Tail(buf)) : Tail(buf)[k] = buf[k + 1]
      BY <1>2, <1>5, HeadTailProperties
    <2> TAKE i \in Nat
    <2> HAVE Held(i)
    <2>5. CASE i <= Len(accepted)
      <3>1. i <= Len(accepted')
        BY <1>1, <2>3, <2>5
      <3> QED BY <3>1 DEF Held
    <2>6. ASSUME NEW k \in 1 .. Len(buf), buf[k].pos = i
          PROVE  Held(i)'
      <3>1. CASE k = 1
        <4>1. i <= Len(accepted')
          BY <1>1, <2>1, <2>3, <2>6, <3>1
        <4> QED BY <4>1 DEF Held
      <3>2. CASE k # 1
        <4>1. k - 1 \in 1 .. Len(Tail(buf)) /\ (k - 1) + 1 = k
          BY <2>1, <2>4, <3>2
        <4>2. Tail(buf)[k - 1].pos = i
          BY <2>4, <2>6, <4>1
        <4> QED BY <1>5, <4>1, <4>2 DEF Held
      <3> QED BY <3>1, <3>2
    <2>7. CASE \E m \in mistaken' : m[2] = i
      BY <2>7 DEF Held
    <2> QED BY <1>4, <2>5, <2>6, <2>7
  <1>6. CASE /\ incoming_reliables' = buf
             /\ UNCHANGED <<next_incoming_seqnum, accepted, delivered>>
    BY <1>4, <1>6 DEF Held
  <1> QED BY <1>3, <1>5, <1>6

\* As long as the receiver keeps the peer, what it holds it goes on holding.
LEMMA HeldStable ==
    ASSUME FewPackets, Inv, [Next]_vars, receiving'
    PROVE  receiving /\ \A i \in Nat : Held(i) => Held(i)'
  <1>1. ASSUME UNCHANGED <<receiving, accepted, incoming_reliables,
                           mistaken>>
        PROVE  receiving /\ \A i \in Nat : Held(i) => Held(i)'
    BY <1>1 DEF Held
  <1>2. CASE Send
    BY <1>1, <1>2 DEF Send, receiverVars
  <1>3. CASE SendQueued
    BY <1>1, <1>3 DEF SendQueued, receiverVars
  <1>4. CASE Ping
    BY <1>1, <1>4 DEF Ping, receiverVars
  <1>5. ASSUME NEW p \in outgoing_reliables, Resend(p)
        PROVE  receiving /\ \A i \in Nat : Held(i) => Held(i)'
    BY <1>1, <1>5 DEF Resend, receiverVars
  <1>6. ASSUME NEW s \in acks, ReceiveAck(s)
        PROVE  receiving /\ \A i \in Nat : Held(i) => Held(i)'
    BY <1>1, <1>6 DEF ReceiveAck, receiverVars
  <1>7. CASE SenderDeletesPeer
    BY <1>1, <1>7 DEF SenderDeletesPeer, receiverVars
  <1>8. ASSUME NEW p \in net, ReceiveReliable(p)
        PROVE  receiving /\ \A i \in Nat : Held(i) => Held(i)'
    <2>1. receiving
      BY <1>8 DEF ReceiveReliable
    <2> QED BY <1>8, <2>1, ReceiveHolds
  <1>9. CASE CheckIncomingBuffers
    <2>1. receiving
      BY <1>9 DEF CheckIncomingBuffers
    <2> QED BY <1>9, <2>1, CheckHolds
  <1>10. CASE ReceiverDeletesPeer
    BY <1>10 DEF ReceiverDeletesPeer
  <1>11. CASE LoseData
    BY <1>1, <1>11 DEF LoseData, receiverVars
  <1>12. CASE LoseAck
    BY <1>1, <1>12 DEF LoseAck, receiverVars
  <1>13. CASE UNCHANGED vars
    BY <1>1, <1>13 DEF vars, receiverVars
  <1> QED BY <1>2, <1>3, <1>4, <1>5, <1>6, <1>7, <1>8, <1>9, <1>10, <1>11,
             <1>12, <1>13 DEF Next

(***************************************************************************)
(* What a step may do to the packets of the sender and to the ACKs: new    *)
(* packets are kept, a packet is let go only for an ACK of its number, and *)
(* only the receipt of a packet makes an ACK.                              *)
(***************************************************************************)
LEMMA StepFacts ==
    ASSUME FewPackets, Inv, [Next]_vars
    PROVE  /\ \A i \in 1 .. Len(wire') :
                  \/ i \in 1 .. Len(wire)
                  \/ \E p \in outgoing_reliables' : p.pos = i
           /\ Len(wire) <= Len(wire')
           /\ connected' =>
                  /\ connected
                  /\ \A p \in outgoing_reliables :
                        p \in outgoing_reliables' \/ p.seq \in acks
           /\ \A s \in acks' :
                  s \in acks \/ \E p \in net : ReceiveReliable(p) /\ s = p.seq
  <1> DEFINE Facts ==
               /\ \A i \in 1 .. Len(wire') :
                     \/ i \in 1 .. Len(wire)
                     \/ \E p \in outgoing_reliables' : p.pos = i
               /\ Len(wire) <= Len(wire')
               /\ connected' =>
                     /\ connected
                     /\ \A p \in outgoing_reliables :
                           p \in outgoing_reliables' \/ p.seq \in acks
               /\ \A s \in acks' :
                     s \in acks \/ \E p \in net : ReceiveReliable(p) /\ s = p.seq
  <1>0. Len(wire) \in Nat
    BY DEF Inv, TypeInv, TypeOK
  <1>1. ASSUME NEW body \in Body, RawSendReliable(body),
               UNCHANGED <<connected, acks, receiverVars>>
        PROVE  Facts
    <2> DEFINE p == [seq |-> next_outgoing_seqnum, pos |-> Len(wire) + 1]
    <2>1. outgoing_reliables' = outgoing_reliables \cup {p}
      BY <1>1, RawSendNumbered DEF Inv, receiverVars
    <2>2. Len(wire') = Len(wire) + 1 /\ p.pos = Len(wire) + 1
      BY <1>1, RawSendProperties DEF Inv, TypeInv
    <2> HIDE DEF p
    <2>3. \A i \in 1 .. Len(wire') : i \in 1 .. Len(wire) \/ i = p.pos
      BY <1>0, <2>2
    <2> QED BY <1>0, <1>1, <2>1, <2>2, <2>3
  <1>2. CASE Send
    BY <1>0, <1>2 DEF Send
  <1>3. CASE SendQueued
    <2> DEFINE body == [kind |-> "data", n |-> Head(outgoing_queue)]
    <2>1. body \in Body
      BY <1>3 DEF SendQueued, Inv, TypeInv, TypeOK, Body
    <2>2. RawSendReliable(body) /\ UNCHANGED <<connected, acks, receiverVars>>
      BY <1>3 DEF SendQueued
    <2> HIDE DEF body, Facts
    <2>3. Facts
      BY <1>1, <2>1, <2>2
    <2> QED BY <2>3 DEF Facts
  <1>4. CASE Ping
    <2> DEFINE body == [kind |-> "ping", n |-> PayloadsSent]
    <2>1. body \in Body
      BY <1>4, PayloadsSentType DEF Inv, Body
    <2>2. RawSendReliable(body) /\ UNCHANGED <<connected, acks, receiverVars>>
      BY <1>4 DEF Ping
    <2> HIDE DEF body, Facts
    <2>3. Facts
      BY <1>1, <2>1, <2>2
    <2> QED BY <2>3 DEF Facts
  <1>5. ASSUME NEW p \in outgoing_reliables, Resend(p) PROVE Facts
    BY <1>0, <1>5 DEF Resend, senderVars
  <1>6. ASSUME NEW s \in acks, ReceiveAck(s) PROVE Facts
    BY <1>0, <1>6 DEF ReceiveAck
  <1>7. CASE SenderDeletesPeer
    BY <1>0, <1>7 DEF SenderDeletesPeer
  <1>8. ASSUME NEW p \in net, ReceiveReliable(p) PROVE Facts
    <2>1. acks' = acks \cup {p.seq} /\ UNCHANGED <<senderVars, wire>>
      BY <1>8 DEF ReceiveReliable
    <2> QED BY <1>0, <1>8, <2>1 DEF senderVars
  <1>9. CASE CheckIncomingBuffers
    <2>1. UNCHANGED <<senderVars, acks, wire>>
      BY <1>9 DEF CheckIncomingBuffers
    <2> QED BY <1>0, <2>1 DEF senderVars
  <1>10. CASE ReceiverDeletesPeer
    BY <1>0, <1>10 DEF ReceiverDeletesPeer, senderVars
  <1>11. CASE LoseData
    BY <1>0, <1>11 DEF LoseData, senderVars
  <1>12. CASE LoseAck
    BY <1>0, <1>12 DEF LoseAck, senderVars
  <1>13. CASE UNCHANGED vars
    BY <1>0, <1>13 DEF vars, senderVars
  <1> QED BY <1>2, <1>3, <1>4, <1>5, <1>6, <1>7, <1>8, <1>9, <1>10, <1>11,
             <1>12, <1>13 DEF Next

\* A step drops a packet by mistake only where seqnum_higher may be wrong.
LEMMA MistakesConfusedNext ==
    ASSUME FewPackets, Inv, MistakesConfused, [Next]_vars
    PROVE  MistakesConfused'
  <1>0. ASSUME UNCHANGED mistaken PROVE MistakesConfused'
    BY <1>0 DEF MistakesConfused, Confused, LastBeforeWrap
  <1>1. CASE Send
    BY <1>0, <1>1 DEF Send, receiverVars
  <1>2. CASE SendQueued
    BY <1>0, <1>2 DEF SendQueued, receiverVars
  <1>3. CASE Ping
    BY <1>0, <1>3 DEF Ping, receiverVars
  <1>4. ASSUME NEW p \in outgoing_reliables, Resend(p)
        PROVE  MistakesConfused'
    BY <1>0, <1>4 DEF Resend, receiverVars
  <1>5. ASSUME NEW s \in acks, ReceiveAck(s) PROVE MistakesConfused'
    BY <1>0, <1>5 DEF ReceiveAck, receiverVars
  <1>6. CASE SenderDeletesPeer
    BY <1>0, <1>6 DEF SenderDeletesPeer, receiverVars
  <1>7. ASSUME NEW p \in net, ReceiveReliable(p) PROVE MistakesConfused'
    <2>1. CASE UNCHANGED mistaken
      BY <1>0, <2>1
    <2>2. CASE /\ seqnum_higher(next_incoming_seqnum, p.seq)
               /\ Mistake({p})
      <3>1. /\ TypeOK
            /\ next_incoming_seqnum = SeqOf(Len(accepted) + 1)
            /\ p.pos \in Nat \ {0}
            /\ p.seq = SeqOf(p.pos)
        BY DEF Inv, TypeInv, Numbered, Known
      <3>2. \A q \in {p} : /\ q.pos \in Nat \ {0}
                           /\ q.seq = SeqOf(q.pos)
                           /\ seqnum_higher(next_incoming_seqnum, q.seq)
        BY <2>2, <3>1
      <3> QED BY <2>2, <3>1, <3>2, MistakeConfused
    <2> QED BY <1>7, <2>1, <2>2 DEF ReceiveReliable
  <1>8. CASE CheckIncomingBuffers
    <2> DEFINE buf  == WithoutOld(incoming_reliables, next_incoming_seqnum)
               gone == Gone(buf)
    <2>1. /\ TypeOK
          /\ next_incoming_seqnum = SeqOf(Len(accepted) + 1)
      BY DEF Inv, TypeInv, Numbered
    <2>2. Mistake(gone)
      BY <1>8 DEF CheckIncomingBuffers, Gone
    <2>3. \A q \in gone :
              /\ q.pos \in Nat \ {0}
              /\ q.seq = SeqOf(q.pos)
              /\ seqnum_higher(next_incoming_seqnum, q.seq)
      BY <2>1, GoneKnown DEF Inv, Numbered, Known
    <2> HIDE DEF gone
    <2> QED BY <2>1, <2>2, <2>3, MistakeConfused
  <1>9. CASE ReceiverDeletesPeer
    BY <1>0, <1>9 DEF ReceiverDeletesPeer
  <1>10. CASE LoseData
    BY <1>0, <1>10 DEF LoseData, receiverVars
  <1>11. CASE LoseAck
    BY <1>0, <1>11 DEF LoseAck, receiverVars
  <1>12. CASE UNCHANGED vars
    BY <1>0, <1>12 DEF vars, receiverVars
  <1> QED BY <1>1, <1>2, <1>3, <1>4, <1>5, <1>6, <1>7, <1>8, <1>9, <1>10,
             <1>11, <1>12 DEF Next

LEMMA KeepInvNext ==
    ASSUME FewPackets, Inv, Inv', KeepInv, [Next]_vars
    PROVE  KeepInv'
  <1>1. /\ Len(wire) \in Nat /\ Len(wire') \in Nat
        /\ Len(wire) <= Len(wire')
        /\ Len(wire') <= MaxPackets
        /\ MaxPackets \in Nat
    <2>1. Len(wire) \in Nat /\ Len(wire') \in Nat
      BY DEF Inv, TypeInv, TypeOK
    <2>2. Len(wire) <= Len(wire')
      BY StepFacts
    <2>3. Len(wire') <= MaxPackets
      BY DEF Inv, Numbered
    <2> QED BY ChannelConstants, <2>1, <2>2, <2>3
  <1>2. ASSUME NEW i \in 1 .. Len(wire), NEW j \in 1 .. Len(wire'),
               SeqOf(i) = SeqOf(j)
        PROVE  i = j
    <2>1. i \in 1 .. (MaxPackets + 1) /\ j \in 1 .. (MaxPackets + 1)
      BY <1>1
    <2> QED BY <1>2, <2>1, SeqOfInjective
  <1>3. \A p \in net \cup outgoing_reliables :
            p.pos \in 1 .. Len(wire) /\ p.seq = SeqOf(p.pos)
    BY DEF Inv, Numbered, Known
  <1>4. AcksKnown'
    <2> SUFFICES ASSUME NEW s \in acks'
                 PROVE  \E i \in 1 .. Len(wire') : s = SeqOf(i)
      BY DEF AcksKnown
    <2>1. PICK i \in 1 .. Len(wire) : s = SeqOf(i)
      <3>1. CASE s \in acks
        BY <3>1 DEF KeepInv, AcksKnown
      <3>2. CASE \E p \in net : s = p.seq
        BY <1>3, <3>2
      <3> QED BY <3>1, <3>2, StepFacts
    <2>2. i \in 1 .. Len(wire')
      BY <1>1
    <2> QED BY <2>1, <2>2
  <1>5. AcksHonest'
    <2> SUFFICES ASSUME receiving', NEW s \in acks',
                        NEW j \in 1 .. Len(wire'), SeqOf(j) = s
                 PROVE  Held(j)'
      BY DEF AcksHonest
    <2>1. receiving /\ \A i \in Nat : Held(i) => Held(i)'
      BY HeldStable
    <2>2. CASE s \in acks
      <3>1. PICK i \in 1 .. Len(wire) : s = SeqOf(i)
        BY <2>2 DEF KeepInv, AcksKnown
      <3>2. i = j
        BY <1>2, <3>1
      <3>3. Held(j)
        BY <2>1, <2>2, <3>1, <3>2 DEF KeepInv, AcksHonest
      <3> QED BY <1>1, <2>1, <3>3
    <2>3. ASSUME NEW p \in net, ReceiveReliable(p), s = p.seq
          PROVE  Held(j)'
      <3>1. p.pos = j
        BY <1>2, <1>3, <2>3
      <3>2. Held(p.pos)'
        BY <2>3, ReceiveHolds
      <3> QED BY <3>1, <3>2 DEF Held
    <2> QED BY <2>2, <2>3, StepFacts
  <1>6. SomeoneHolds'
    <2> SUFFICES ASSUME connected', receiving', NEW i \in 1 .. Len(wire')
                 PROVE  (\E p \in outgoing_reliables' : p.pos = i) \/ Held(i)'
      BY DEF SomeoneHolds
    <2>1. receiving /\ \A k \in Nat : Held(k) => Held(k)'
      BY HeldStable
    <2>2. /\ connected
          /\ \A p \in outgoing_reliables :
                 p \in outgoing_reliables' \/ p.seq \in acks
          /\ i \in 1 .. Len(wire) \/ \E p \in outgoing_reliables' : p.pos = i
      BY StepFacts
    <2>3. CASE i \in 1 .. Len(wire)
      <3>1. CASE Held(i)
        BY <2>1, <3>1
      <3>2. ASSUME NEW p \in outgoing_reliables, p.pos = i, p.seq \in acks
            PROVE  Held(i)
        BY <1>3, <2>1, <2>3, <3>2 DEF KeepInv, AcksHonest
      <3> QED BY <2>1, <2>2, <2>3, <3>1, <3>2 DEF KeepInv, SomeoneHolds
    <2> QED BY <2>2, <2>3
  <1>7. MistakesConfused'
    BY MistakesConfusedNext DEF KeepInv
  <1> QED BY <1>4, <1>5, <1>6, <1>7 DEF KeepInv

(***************************************************************************)
(* A packet whose ACK let the sender forget it has been processed, waits   *)
(* in the receiver's buffer or was mistaken for an old one; and the latter *)
(* happens only to a packet that comes from after the wrap while one from  *)
(* before it is awaited, or is ahead by more than half of the numbers. As  *)
(* long as the channel carries fewer packets than there are numbers, that  *)
(* is all the protocol loses, on both sides of the wrap and across it.     *)
(***************************************************************************)
THEOREM AckedPacketsAreKept == FewPackets /\ Spec => []AckedIsKept
  <1>1. FewPackets /\ Init => Inv /\ KeepInv
    <2> SUFFICES ASSUME FewPackets, Init PROVE Inv /\ KeepInv
      OBVIOUS
    <2>1. Inv
      BY TypeInvInit, NumberedInit DEF Inv
    <2>2. acks = {} /\ wire = <<>> /\ Len(<<>>) = 0 /\ mistaken = {}
      BY DEF Init
    <2>3. 1 .. Len(wire) = {}
      BY <2>2
    <2>4. KeepInv
      BY <2>2, <2>3, Zenon DEF KeepInv, AcksKnown, AcksHonest, SomeoneHolds,
                               MistakesConfused
    <2> QED BY <2>1, <2>4
  <1>2. FewPackets /\ Inv /\ KeepInv /\ [Next]_vars => Inv' /\ KeepInv'
    <2> SUFFICES ASSUME FewPackets, Inv, KeepInv, [Next]_vars PROVE Inv' /\ KeepInv'
      OBVIOUS
    <2>1. Inv'
      BY TypeInvNext, NumberedNext DEF Inv
    <2> QED BY <2>1, KeepInvNext
  <1>3. Inv /\ KeepInv => AckedIsKept
    <2> SUFFICES ASSUME Inv, KeepInv, connected, receiving,
                        NEW i \in 1 .. Len(wire), Lost(i)
                 PROVE  \E m \in mistaken : m[2] = i
      BY DEF AckedIsKept, KeepInv, MistakesConfused
    <2>1. ~(i <= Len(accepted))
      <3>1. i <= Len(accepted) => i \in 1 .. Len(accepted) /\ accepted[i] = i
        BY DEF Inv, InOrder, TypeInv, TypeOK
      <3> QED BY <3>1 DEF Lost
    <2> QED BY <2>1 DEF KeepInv, SomeoneHolds, Held, Lost
  <1>4. FewPackets => FewPackets'
    BY DEF FewPackets
  <1> QED BY <1>1, <1>2, <1>3, <1>4, PTL DEF Spec

-----------------------------------------------------------------------------
(***************************************************************************)
(* ReliableChannel implements MessageStream. The payloads that wait, that  *)
(* travel and that were handed over are counted.                           *)
(***************************************************************************)
\* The number of payloads among the first i packets.
PayloadsAt(i) == IF i = 0 THEN 0 ELSE wire[i].n

\* Each packet has the next payload, or is a PING and has none.
BodiesCount ==
    \A i \in 1 .. Len(wire) :
        /\ wire[i].n = IF wire[i].kind = "data" THEN PayloadsAt(i - 1) + 1
                                                ELSE PayloadsAt(i - 1)
        /\ wire[i].n <= nsent

\* What waits in the queue are the payloads after those in the packets.
QueueFollows ==
    /\ \A k \in 1 .. Len(outgoing_queue) : outgoing_queue[k] = PayloadsSent + k
    /\ PayloadsSent <= nsent
    /\ connected => PayloadsSent + Len(outgoing_queue) = nsent

\* The receiver has handed over the payloads of what it processed.
DeliveredCount == Len(delivered) = PayloadsAt(Len(accepted))

StreamInv == BodiesCount /\ QueueFollows /\ DeliveredCount

BaseInv == TypeInv /\ Numbered /\ InOrder

-----------------------------------------------------------------------------
LEMMA BaseInvAlways == FewPackets /\ Spec => []BaseInv
  <1>1. FewPackets /\ Init => BaseInv
    BY TypeInvInit, NumberedInit DEF BaseInv
  <1>2. FewPackets /\ BaseInv /\ [Next]_vars => BaseInv'
    BY TypeInvNext, NumberedNext DEF BaseInv
  <1>3. FewPackets => FewPackets'
    BY DEF FewPackets
  <1> QED BY <1>1, <1>2, <1>3, PTL DEF Spec

\* A step of the receiver processes the next packet or none.
LEMMA NextIsProcessed ==
    ASSUME FewPackets, BaseInv,
           (\E p \in net : ReceiveReliable(p)) \/ CheckIncomingBuffers
    PROVE  /\ UNCHANGED <<connected, outgoing_queue, outgoing_reliables,
                          receiving, nsent, wire>>
           /\ \/ UNCHANGED <<accepted, delivered>>
              \/ /\ Len(accepted) + 1 \in 1 .. Len(wire)
                 /\ Process(Len(accepted) + 1)
  <1>1. ASSUME NEW p, Known(p), p.seq = next_incoming_seqnum, Process(p.pos),
               next_incoming_seqnum' = SeqNext(next_incoming_seqnum)
        PROVE  /\ Len(accepted) + 1 \in 1 .. Len(wire)
               /\ Process(Len(accepted) + 1)
    <2>1. p.pos = Len(accepted) + 1
      BY <1>1, ProcessInOrder DEF BaseInv
    <2> QED BY <1>1, <2>1 DEF Known
  <1>2. ASSUME NEW p \in net, ReceiveReliable(p)
        PROVE  /\ UNCHANGED <<connected, outgoing_queue, outgoing_reliables,
                              receiving, nsent, wire>>
               /\ \/ UNCHANGED <<accepted, delivered>>
                  \/ /\ Len(accepted) + 1 \in 1 .. Len(wire)
                     /\ Process(Len(accepted) + 1)
    <2>1. /\ Known(p)
          /\ p.seq \in SeqNum
          /\ next_incoming_seqnum \in SeqNum
      BY DEF BaseInv, TypeInv, TypeOK, Numbered, Packet
    <2>2. UNCHANGED <<connected, outgoing_queue, outgoing_reliables, receiving,
                      nsent, wire>>
      BY <1>2 DEF ReceiveReliable, senderVars
    <2>3. \/ UNCHANGED <<accepted, delivered>>
          \/ /\ ~seqnum_higher(p.seq, next_incoming_seqnum)
             /\ ~seqnum_higher(next_incoming_seqnum, p.seq)
             /\ next_incoming_seqnum' = SeqNext(next_incoming_seqnum)
             /\ Process(p.pos)
      BY <1>2 DEF ReceiveReliable
    <2> QED BY <1>1, <2>1, <2>2, <2>3, NeitherIsEqual
  <1>3. ASSUME CheckIncomingBuffers
        PROVE  /\ UNCHANGED <<connected, outgoing_queue, outgoing_reliables,
                              receiving, nsent, wire>>
               /\ \/ UNCHANGED <<accepted, delivered>>
                  \/ /\ Len(accepted) + 1 \in 1 .. Len(wire)
                     /\ Process(Len(accepted) + 1)
    <2> DEFINE buf == WithoutOld(incoming_reliables, next_incoming_seqnum)
    <2>1. buf \in Seq(Packet) /\ \A i \in 1 .. Len(buf) : Known(buf[i])
      <3>1. /\ incoming_reliables \in Seq(Packet)
            /\ next_incoming_seqnum \in SeqNum
        BY DEF BaseInv, TypeInv, TypeOK
      <3>2. /\ buf \in Seq(Packet)
            /\ \A i \in 1 .. Len(buf) :
                  \E j \in 1 .. Len(incoming_reliables) :
                      buf[i] = incoming_reliables[j]
        BY <3>1, WithoutOldProperties
      <3> HIDE DEF buf
      <3> QED BY <3>2 DEF BaseInv, Numbered
    <2>2. UNCHANGED <<connected, outgoing_queue, outgoing_reliables, receiving,
                      nsent, wire>>
      BY <1>3 DEF CheckIncomingBuffers, senderVars
    <2>3. \/ UNCHANGED <<accepted, delivered>>
          \/ /\ buf # <<>>
             /\ Head(buf).seq = next_incoming_seqnum
             /\ next_incoming_seqnum' = SeqNext(next_incoming_seqnum)
             /\ Process(Head(buf).pos)
      BY <1>3 DEF CheckIncomingBuffers
    <2> HIDE DEF buf
    <2>4. buf # <<>> => Known(Head(buf))
      BY <2>1
    <2> QED BY <1>1, <2>2, <2>3, <2>4
  <1> QED BY <1>2, <1>3

-----------------------------------------------------------------------------
(* Counting payloads. *)

LEMMA PayloadsAtFacts ==
    ASSUME TypeInv
    PROVE  /\ \A i \in 0 .. Len(wire) : PayloadsAt(i) \in Nat
           /\ PayloadsSent = PayloadsAt(Len(wire))
           /\ Len(wire) \in Nat
           /\ nsent \in Nat
  <1>1. wire \in Seq(Body) /\ nsent \in Nat
    BY DEF TypeInv, TypeOK
  <1>2. \A i \in 1 .. Len(wire) : wire[i] \in Body
    BY <1>1
  <1>3. \A i \in 0 .. Len(wire) : PayloadsAt(i) \in Nat
    BY <1>1, <1>2 DEF PayloadsAt, Body
  <1>4. PayloadsSent = PayloadsAt(Len(wire))
    BY <1>1 DEF PayloadsSent, PayloadsAt
  <1> QED BY <1>1, <1>3, <1>4

\* Numbering a packet with the right body keeps the count.
LEMMA RawSendCounts ==
    ASSUME TypeInv, BodiesCount, NEW body \in Body, RawSendReliable(body),
           UNCHANGED nsent, body.n <= nsent,
           body.n = IF body.kind = "data" THEN PayloadsSent + 1
                                          ELSE PayloadsSent
    PROVE  /\ BodiesCount'
           /\ PayloadsSent' = body.n
           /\ \A i \in 0 .. Len(wire) : PayloadsAt(i)' = PayloadsAt(i)
  <1>1. wire \in Seq(Body) /\ Len(wire) \in Nat
    BY DEF TypeInv, TypeOK
  <1>2. wire' = Append(wire, body)
    BY DEF RawSendReliable
  <1>3. /\ Len(wire') = Len(wire) + 1
        /\ wire'[Len(wire) + 1] = body
        /\ \A i \in 1 .. Len(wire) : wire'[i] = wire[i]
    BY <1>1, <1>2
  <1>4. \A i \in 0 .. Len(wire) : PayloadsAt(i)' = PayloadsAt(i)
    BY <1>1, <1>3 DEF PayloadsAt
  <1>5. PayloadsSent' = body.n
    <2>1. wire' # <<>>
      BY <1>1, <1>3
    <2> QED BY <1>3, <2>1 DEF PayloadsSent
  <1>6. PayloadsSent = PayloadsAt(Len(wire))
    BY PayloadsAtFacts
  <1>7. BodiesCount'
    <2> SUFFICES ASSUME NEW i \in 1 .. Len(wire')
                 PROVE  /\ wire'[i].n = IF wire'[i].kind = "data"
                                        THEN PayloadsAt(i - 1)' + 1
                                        ELSE PayloadsAt(i - 1)'
                        /\ wire'[i].n <= nsent
      BY DEF BodiesCount
    <2>1. CASE i \in 1 .. Len(wire)
      <3>1. i - 1 \in 0 .. Len(wire)
        BY <1>1, <2>1
      <3> QED BY <1>3, <1>4, <2>1, <3>1 DEF BodiesCount
    <2>2. CASE i = Len(wire) + 1
      <3>1. PayloadsAt(i - 1)' = PayloadsSent
        <4>1. i - 1 = Len(wire)
          BY <1>1, <2>2
        <4>2. (IF i - 1 = 0 THEN 0 ELSE wire'[i - 1].n)
                 = (IF Len(wire) = 0 THEN 0 ELSE wire[Len(wire)].n)
          BY <1>1, <1>3, <4>1
        <4> QED BY <1>6, <4>2 DEF PayloadsAt
      <3> QED BY <1>3, <2>2, <3>1
    <2> QED BY <1>1, <1>3, <2>1, <2>2
  <1> QED BY <1>4, <1>5, <1>7

LEMMA StreamInit == Init => StreamInv
  BY DEF Init, StreamInv, BodiesCount, QueueFollows, DeliveredCount,
         PayloadsSent, PayloadsAt

(***************************************************************************)
(* A step keeps the counts, and is a step of MessageStream or invisible to *)
(* its users.                                                              *)
(***************************************************************************)
LEMMA StreamStep ==
    ASSUME FewPackets, BaseInv, StreamInv, [Next]_vars
    PROVE  StreamInv' /\ [Stream!Next]_Stream!vars
  <1> DEFINE Goal == StreamInv' /\ [Stream!Next]_Stream!vars
             Still == UNCHANGED <<nsent, delivered, connected, receiving>>
  <1>0. /\ TypeInv
        /\ Len(wire) \in Nat /\ nsent \in Nat /\ PayloadsSent \in Nat
        /\ \A i \in 0 .. Len(wire) : PayloadsAt(i) \in Nat
        /\ outgoing_queue \in Seq(Nat)
        /\ delivered \in Seq(Nat)
        /\ Len(accepted) \in 0 .. Len(wire)
        /\ connected \in BOOLEAN /\ receiving \in BOOLEAN
    <2>1. TypeInv /\ TypeOK /\ Len(accepted) <= Len(wire)
      BY DEF BaseInv, TypeInv, Numbered
    <2>2. Len(accepted) \in Nat
      BY <2>1 DEF TypeOK
    <2> QED BY <2>1, <2>2, PayloadsAtFacts, PayloadsSentType DEF TypeOK
  <1>1. ASSUME Still PROVE [Stream!Next]_Stream!vars
    BY <1>1 DEF Stream!vars
  <1>2. ASSUME Still, UNCHANGED <<outgoing_queue, wire, accepted>> PROVE Goal
    BY <1>1, <1>2 DEF StreamInv, BodiesCount, QueueFollows, DeliveredCount,
                      PayloadsSent, PayloadsAt
  <1>3. CASE Send
    <2>1. /\ connected /\ nsent' = nsent + 1
          /\ outgoing_queue' = Append(outgoing_queue, nsent + 1)
          /\ UNCHANGED <<connected, receiving, delivered, accepted, wire>>
      BY <1>3 DEF Send, receiverVars
    <2>2. Stream!Next
      BY <2>1 DEF Stream!Next, Stream!Send
    <2>3. BodiesCount' /\ DeliveredCount'
      <3>1. \A i \in 1 .. Len(wire) : wire[i].n \in Nat
        <4>1. wire \in Seq(Body)
          BY <1>0 DEF TypeInv, TypeOK
        <4>2. \A i \in 1 .. Len(wire) : wire[i] \in Body
          BY <4>1
        <4> QED BY <4>2 DEF Body
      <3> QED BY <1>0, <2>1, <3>1
              DEF StreamInv, BodiesCount, DeliveredCount, PayloadsAt
    <2>4. QueueFollows'
      <3>1. PayloadsSent' = PayloadsSent
        BY <2>1 DEF PayloadsSent
      <3>2. PayloadsSent + Len(outgoing_queue) = nsent
        BY <2>1 DEF StreamInv, QueueFollows
      <3>3. /\ Len(outgoing_queue) \in Nat
            /\ Len(outgoing_queue') = Len(outgoing_queue) + 1
            /\ outgoing_queue'[Len(outgoing_queue) + 1] = nsent + 1
            /\ \A k \in 1 .. Len(outgoing_queue) :
                  outgoing_queue'[k] = outgoing_queue[k]
        BY <1>0, <2>1
      <3>4. \A k \in 1 .. Len(outgoing_queue') :
               outgoing_queue'[k] = PayloadsSent + k
        <4> SUFFICES ASSUME NEW k \in 1 .. Len(outgoing_queue')
                     PROVE  outgoing_queue'[k] = PayloadsSent + k
          OBVIOUS
        <4>1. CASE k \in 1 .. Len(outgoing_queue)
          BY <3>3, <4>1 DEF StreamInv, QueueFollows
        <4>2. CASE k = Len(outgoing_queue) + 1
          BY <1>0, <3>2, <3>3, <4>2
        <4> QED BY <3>3, <4>1, <4>2
      <3> QED BY <1>0, <2>1, <3>1, <3>2, <3>3, <3>4 DEF QueueFollows
    <2> QED BY <2>2, <2>3, <2>4 DEF StreamInv
  <1>4. CASE SendQueued
    <2> DEFINE body == [kind |-> "data", n |-> Head(outgoing_queue)]
    <2>1. /\ connected /\ outgoing_queue # <<>>
          /\ outgoing_queue' = Tail(outgoing_queue)
          /\ RawSendReliable(body)
          /\ Still /\ UNCHANGED accepted
      BY <1>4 DEF SendQueued, receiverVars
    <2>2. /\ Len(outgoing_queue) \in Nat \ {0}
          /\ Head(outgoing_queue) = outgoing_queue[1]
          /\ Head(outgoing_queue) \in Nat
          /\ Len(outgoing_queue') = Len(outgoing_queue) - 1
          /\ \A k \in 1 .. Len(outgoing_queue) - 1 :
                outgoing_queue'[k] = outgoing_queue[k + 1]
      BY <1>0, <2>1
    <2>3. /\ Head(outgoing_queue) = PayloadsSent + 1
          /\ PayloadsSent + Len(outgoing_queue) = nsent
      BY <2>1, <2>2 DEF StreamInv, QueueFollows
    <2>4. /\ body \in Body /\ body.n = PayloadsSent + 1
          /\ body.n <= nsent /\ body.kind = "data"
      BY <1>0, <2>2, <2>3 DEF Body
    <2> HIDE DEF body
    <2>5. /\ BodiesCount'
          /\ PayloadsSent' = PayloadsSent + 1
          /\ \A i \in 0 .. Len(wire) : PayloadsAt(i)' = PayloadsAt(i)
      BY <1>0, <2>1, <2>4, RawSendCounts DEF StreamInv
    <2>6. DeliveredCount'
      <3>1. PayloadsAt(Len(accepted))' = PayloadsAt(Len(accepted))
        <4>1. /\ UNCHANGED accepted
              /\ PayloadsAt(Len(accepted))' =
                    IF Len(accepted') = 0 THEN 0 ELSE wire'[Len(accepted')].n
          BY <2>1 DEF PayloadsAt
        <4>2. wire' = Append(wire, body) /\ wire \in Seq(Body)
          BY <1>0, <2>1 DEF RawSendReliable, TypeInv, TypeOK
        <4>3. Len(accepted) # 0 => wire'[Len(accepted)] = wire[Len(accepted)]
          BY <1>0, <2>4, <4>2
        <4> QED BY <4>1, <4>3 DEF PayloadsAt
      <3> QED BY <2>1, <3>1 DEF StreamInv, DeliveredCount
    <2>7. QueueFollows'
      <3>1. \A k \in 1 .. Len(outgoing_queue') :
               outgoing_queue'[k] = PayloadsSent' + k
        <4> SUFFICES ASSUME NEW k \in 1 .. Len(outgoing_queue')
                     PROVE  outgoing_queue'[k] = PayloadsSent' + k
          OBVIOUS
        <4>1. k + 1 \in 1 .. Len(outgoing_queue)
          BY <2>2
        <4>2. outgoing_queue[k + 1] = PayloadsSent + (k + 1)
          BY <4>1 DEF StreamInv, QueueFollows
        <4> QED BY <1>0, <2>2, <2>5, <4>2
      <3>2. UNCHANGED <<nsent, connected>>
        BY <2>1
      <3>3. PayloadsSent' + Len(outgoing_queue') = nsent
        <4>1. PayloadsSent \in Nat /\ Len(outgoing_queue) \in Nat
          BY <1>0, <2>2
        <4>2. /\ PayloadsSent' = PayloadsSent + 1
              /\ Len(outgoing_queue') = Len(outgoing_queue) - 1
              /\ PayloadsSent + Len(outgoing_queue) = nsent
          BY <2>2, <2>3, <2>5
        <4> QED BY <4>1, <4>2
      <3>4. PayloadsSent' <= nsent
        BY <2>4, <2>5
      <3> QED BY <3>1, <3>2, <3>3, <3>4 DEF QueueFollows
    <2> QED BY <1>1, <2>1, <2>5, <2>6, <2>7 DEF StreamInv
  <1>5. CASE Ping
    <2> DEFINE body == [kind |-> "ping", n |-> PayloadsSent]
    <2>1. /\ RawSendReliable(body)
          /\ Still /\ UNCHANGED accepted /\ UNCHANGED outgoing_queue
      BY <1>5 DEF Ping, receiverVars
    <2>2. /\ body \in Body /\ body.n = PayloadsSent
          /\ body.n <= nsent /\ body.kind # "data"
      BY <1>0 DEF Body, StreamInv, QueueFollows
    <2> HIDE DEF body
    <2>3. /\ BodiesCount'
          /\ PayloadsSent' = PayloadsSent
      BY <1>0, <2>1, <2>2, RawSendCounts DEF StreamInv
    <2>4. DeliveredCount'
      <3>1. PayloadsAt(Len(accepted))' = PayloadsAt(Len(accepted))
        <4>1. /\ UNCHANGED accepted
              /\ PayloadsAt(Len(accepted))' =
                    IF Len(accepted') = 0 THEN 0 ELSE wire'[Len(accepted')].n
          BY <2>1 DEF PayloadsAt
        <4>2. wire' = Append(wire, body) /\ wire \in Seq(Body)
          BY <1>0, <2>1 DEF RawSendReliable, TypeInv, TypeOK
        <4>3. Len(accepted) # 0 => wire'[Len(accepted)] = wire[Len(accepted)]
          BY <1>0, <2>2, <4>2
        <4> QED BY <4>1, <4>3 DEF PayloadsAt
      <3> QED BY <2>1, <3>1 DEF StreamInv, DeliveredCount
    <2>5. QueueFollows'
      <3>1. UNCHANGED <<outgoing_queue, nsent, connected>>
        BY <2>1
      <3> QED BY <2>3, <3>1 DEF StreamInv, QueueFollows
    <2> QED BY <1>1, <2>1, <2>3, <2>4, <2>5 DEF StreamInv
  <1>6. CASE SenderDeletesPeer
    <2>1. /\ connected' = FALSE /\ outgoing_queue' = <<>>
          /\ connected
          /\ UNCHANGED <<nsent, delivered, receiving, wire, accepted>>
      BY <1>6 DEF SenderDeletesPeer, receiverVars
    <2>2. [Stream!Next]_Stream!vars
      BY <1>0, <2>1 DEF Stream!Next, Stream!Close, Stream!vars
    <2>3. StreamInv'
      BY <1>0, <2>1 DEF StreamInv, BodiesCount, QueueFollows, DeliveredCount,
                        PayloadsSent, PayloadsAt
    <2> QED BY <2>2, <2>3
  <1>7. CASE ReceiverDeletesPeer
    <2>1. /\ receiving' = FALSE /\ receiving
          /\ UNCHANGED <<nsent, delivered, connected, outgoing_queue, wire,
                         accepted>>
      BY <1>7 DEF ReceiverDeletesPeer, senderVars
    <2>2. [Stream!Next]_Stream!vars
      BY <1>0, <2>1 DEF Stream!Next, Stream!Close, Stream!vars
    <2>3. StreamInv'
      BY <2>1 DEF StreamInv, BodiesCount, QueueFollows, DeliveredCount,
                  PayloadsSent, PayloadsAt
    <2> QED BY <2>2, <2>3
  <1>8. CASE (\E p \in net : ReceiveReliable(p)) \/ CheckIncomingBuffers
    <2> DEFINE next == Len(accepted) + 1
    <2>1. UNCHANGED <<connected, outgoing_queue, receiving, nsent, wire>>
      BY <1>8, NextIsProcessed
    <2>2. CASE UNCHANGED <<accepted, delivered>>
      BY <1>2, <2>1, <2>2
    <2>3. CASE next \in 1 .. Len(wire) /\ Process(next)
      <3>1. /\ accepted' = Append(accepted, next)
            /\ Len(accepted') = next
            /\ delivered' = IF wire[next].kind = "data"
                            THEN Append(delivered, wire[next].n)
                            ELSE delivered
        BY <1>0, <2>3 DEF Process, TypeInv, TypeOK
      <3>2. /\ wire[next].n = IF wire[next].kind = "data"
                              THEN Len(delivered) + 1 ELSE Len(delivered)
            /\ wire[next].n <= nsent
        <4>1. next - 1 = Len(accepted)
          BY <1>0
        <4>2. PayloadsAt(next - 1) = Len(delivered)
          BY <4>1 DEF StreamInv, DeliveredCount
        <4> HIDE DEF next
        <4> QED BY <2>3, <4>2 DEF StreamInv, BodiesCount
      <3>3. Len(delivered) \in Nat
        BY <1>0
      <3>4. Len(delivered') = wire[next].n
        <4>1. CASE wire[next].kind = "data"
          BY <1>0, <3>1, <3>2, <3>3, <4>1
        <4>2. CASE wire[next].kind # "data"
          BY <3>1, <3>2, <4>2
        <4> QED BY <4>1, <4>2
      <3>5. DeliveredCount'
        <4>1. next # 0
          BY <1>0
        <4> QED BY <2>1, <3>1, <3>4, <4>1 DEF DeliveredCount, PayloadsAt
      <3>6. [Stream!Next]_Stream!vars
        <4>1. CASE wire[next].kind = "data"
          <5>1. Stream!Receive
            BY <1>0, <2>1, <3>1, <3>2, <3>3, <4>1 DEF Stream!Receive
          <5> QED BY <5>1 DEF Stream!Next
        <4>2. CASE wire[next].kind # "data"
          BY <1>1, <2>1, <3>1, <4>2
        <4> QED BY <4>1, <4>2
      <3>7. BodiesCount' /\ QueueFollows'
        BY <2>1 DEF StreamInv, BodiesCount, QueueFollows, PayloadsSent,
                    PayloadsAt
      <3> QED BY <3>5, <3>6, <3>7 DEF StreamInv
    <2> QED BY <1>8, <2>2, <2>3, NextIsProcessed
  <1>9. CASE \/ \E p \in outgoing_reliables : Resend(p)
             \/ \E s \in acks : ReceiveAck(s)
             \/ LoseData \/ LoseAck
             \/ UNCHANGED vars
    <2>1. Still /\ UNCHANGED <<outgoing_queue, wire, accepted>>
      BY <1>9 DEF Resend, ReceiveAck, LoseData, LoseAck, vars, senderVars,
                  receiverVars
    <2> QED BY <1>2, <2>1
  <1> QED BY <1>3, <1>4, <1>5, <1>6, <1>7, <1>8, <1>9 DEF Next

(***************************************************************************)
(* A channel that carries fewer packets than there are sequence numbers    *)
(* keeps what MessageStream promises its users: every behaviour of         *)
(* ReliableChannel is one of MessageStream.                                *)
(***************************************************************************)
THEOREM ImplementsMessageStream == FewPackets /\ Spec => Refinement
  <1>1. Init => Stream!Init
    BY DEF Init, Stream!Init
  <1>2. FewPackets /\ BaseInv /\ StreamInv /\ [Next]_vars
           => StreamInv' /\ [Stream!Next]_Stream!vars
    BY StreamStep
  <1>3. FewPackets => FewPackets'
    BY DEF FewPackets
  <1> QED BY <1>1, <1>2, <1>3, StreamInit, BaseInvAlways, PTL
          DEF Spec, Refinement, Stream!Spec
-----------------------------------------------------------------------------
(* The window. *)

DataUnacked == {p \in outgoing_reliables : wire[p.pos].kind = "data"}

WindowInv == IsFiniteSet(outgoing_reliables) /\ WindowRespected

\* What is numbered before stays what it is, and at most one packet joins.
LEMMA RawSendUnacked ==
    ASSUME TypeInv, NEW body \in Body, RawSendReliable(body),
           IsFiniteSet(outgoing_reliables)
    PROVE  /\ IsFiniteSet(outgoing_reliables')
           /\ \/ DataUnacked' = DataUnacked
              \/ /\ body.kind = "data"
                 /\ \E p : DataUnacked' = DataUnacked \cup {p}
  <1> DEFINE p == [seq |-> next_outgoing_seqnum, pos |-> Len(wire) + 1]
  <1>1. /\ Len(wire) \in Nat
        /\ wire' = Append(wire, body)
        /\ wire'[Len(wire) + 1] = body
        /\ \A i \in 1 .. Len(wire) : wire'[i] = wire[i]
    BY DEF TypeInv, TypeOK, RawSendReliable
  <1>2. \A q \in outgoing_reliables : wire'[q.pos] = wire[q.pos]
    BY <1>1 DEF TypeInv, PositionsExist
  <1>3. \/ outgoing_reliables' = outgoing_reliables
        \/ outgoing_reliables' = outgoing_reliables \cup {p}
    BY DEF RawSendReliable
  <1>4. wire'[p.pos] = body
    BY <1>1
  <1> HIDE DEF p
  <1>5. IsFiniteSet(outgoing_reliables')
    <2>1. IsFiniteSet(outgoing_reliables \cup {p})
      BY FS_AddElement
    <2> QED BY <1>3, <2>1
  <1>6. CASE outgoing_reliables' = outgoing_reliables
    BY <1>2, <1>5, <1>6 DEF DataUnacked
  <1>7. CASE outgoing_reliables' = outgoing_reliables \cup {p}
    <2>1. CASE body.kind = "data"
      <3>1. DataUnacked' = DataUnacked \cup {p}
        BY <1>2, <1>4, <1>7, <2>1 DEF DataUnacked
      <3> QED BY <1>5, <2>1, <3>1
    <2>2. CASE body.kind # "data"
      <3>1. DataUnacked' = DataUnacked
        BY <1>2, <1>4, <1>7, <2>2 DEF DataUnacked
      <3> QED BY <1>5, <3>1
    <2> QED BY <2>1, <2>2
  <1> QED BY <1>3, <1>6, <1>7

LEMMA WindowInvInit == Init => WindowInv
  <1> SUFFICES ASSUME Init PROVE WindowInv
    OBVIOUS
  <1>1. outgoing_reliables = {}
    BY DEF Init
  <1>2. {p \in outgoing_reliables : wire[p.pos].kind = "data"} = {}
    BY <1>1
  <1> QED BY <1>1, <1>2, FS_EmptySet, ChannelConstants
          DEF WindowInv, WindowRespected

LEMMA WindowInvNext ==
    ASSUME TypeInv, WindowInv, [Next]_vars
    PROVE  WindowInv'
  <1>1. /\ IsFiniteSet(outgoing_reliables) /\ WINDOW \in Nat
        /\ IsFiniteSet(DataUnacked)
        /\ Cardinality(DataUnacked) \in Nat
        /\ Cardinality(DataUnacked) <= WINDOW
        /\ Cardinality(DataUnacked) <= Cardinality(outgoing_reliables)
        /\ Cardinality(outgoing_reliables) \in Nat
    <2>1. IsFiniteSet(outgoing_reliables) /\ WINDOW \in Nat
      BY ChannelConstants DEF WindowInv
    <2>2. DataUnacked \in SUBSET outgoing_reliables
      BY DEF DataUnacked
    <2>3. /\ IsFiniteSet(DataUnacked)
          /\ Cardinality(DataUnacked) <= Cardinality(outgoing_reliables)
      BY <2>1, <2>2, FS_Subset
    <2>4. Cardinality(DataUnacked) <= WINDOW
      BY DEF DataUnacked, WindowInv, WindowRespected
    <2> QED BY <2>1, <2>3, <2>4, FS_CardinalityType
  <1>2. ASSUME IsFiniteSet(outgoing_reliables'),
               Cardinality(DataUnacked') <= WINDOW
        PROVE  WindowInv'
    BY <1>2 DEF WindowInv, WindowRespected, DataUnacked
  <1>3. CASE SendQueued
    <2> DEFINE body == [kind |-> "data", n |-> Head(outgoing_queue)]
    <2>1. /\ Cardinality(outgoing_reliables) < WINDOW
          /\ RawSendReliable(body)
      BY <1>3 DEF SendQueued
    <2>2. body \in Body
      BY <1>3 DEF SendQueued, TypeInv, TypeOK, Body
    <2> HIDE DEF body
    <2>3. /\ IsFiniteSet(outgoing_reliables')
          /\ \/ DataUnacked' = DataUnacked
             \/ \E p : DataUnacked' = DataUnacked \cup {p}
      BY <1>1, <2>1, <2>2, RawSendUnacked
    <2>4. CASE DataUnacked' = DataUnacked
      BY <1>1, <1>2, <2>3, <2>4
    <2>5. CASE \E p : DataUnacked' = DataUnacked \cup {p}
      <3>1. PICK p : DataUnacked' = DataUnacked \cup {p}
        BY <2>5
      <3>2. Cardinality(DataUnacked \cup {p})
               = IF p \in DataUnacked THEN Cardinality(DataUnacked)
                                      ELSE Cardinality(DataUnacked) + 1
        BY <1>1, FS_AddElement
      <3>3. Cardinality(DataUnacked) < WINDOW
        BY <1>1, <2>1
      <3>4. Cardinality(DataUnacked) + 1 <= WINDOW
        BY <1>1, <3>3
      <3>5. Cardinality(DataUnacked \cup {p}) <= WINDOW
        BY <1>1, <3>2, <3>4
      <3> QED BY <1>2, <2>3, <3>1, <3>5
    <2> QED BY <2>3, <2>4, <2>5
  <1>4. CASE Ping
    <2> DEFINE body == [kind |-> "ping", n |-> PayloadsSent]
    <2>1. RawSendReliable(body)
      BY <1>4 DEF Ping
    <2>2. body \in Body /\ body.kind # "data"
      BY PayloadsSentType DEF Body
    <2> HIDE DEF body
    <2>3. /\ IsFiniteSet(outgoing_reliables')
          /\ DataUnacked' = DataUnacked
      BY <1>1, <2>1, <2>2, RawSendUnacked
    <2> QED BY <1>1, <1>2, <2>3
  <1>5. ASSUME outgoing_reliables' \in SUBSET outgoing_reliables,
               UNCHANGED wire
        PROVE  WindowInv'
    <2>1. IsFiniteSet(outgoing_reliables')
      BY <1>1, <1>5, FS_Subset
    <2>2. DataUnacked' \in SUBSET DataUnacked
      BY <1>5 DEF DataUnacked
    <2>3. IsFiniteSet(DataUnacked')
      BY <1>1, <2>2, FS_Subset
    <2>4. Cardinality(DataUnacked') <= Cardinality(DataUnacked)
      BY <1>1, <2>2, FS_Subset
    <2>5. Cardinality(DataUnacked') \in Nat
      BY <2>3, FS_CardinalityType
    <2> QED BY <1>1, <1>2, <2>1, <2>4, <2>5
  <1>6. CASE \/ Send \/ SenderDeletesPeer \/ ReceiverDeletesPeer
             \/ CheckIncomingBuffers \/ LoseData \/ LoseAck
             \/ \E p \in net : ReceiveReliable(p)
             \/ \E p \in outgoing_reliables : Resend(p)
             \/ \E s \in acks : ReceiveAck(s)
             \/ UNCHANGED vars
    <2>1. /\ outgoing_reliables' \in SUBSET outgoing_reliables
          /\ UNCHANGED wire
      BY <1>6 DEF Send, SenderDeletesPeer, ReceiverDeletesPeer,
                  CheckIncomingBuffers, LoseData, LoseAck, ReceiveReliable,
                  Resend, ReceiveAck, vars, senderVars, receiverVars
    <2> QED BY <1>5, <2>1
  <1> QED BY <1>3, <1>4, <1>6 DEF Next

(***************************************************************************)
(* The window is never overrun: for every interleaving of ACKs, resends,   *)
(* pings and losses, and every window, at most WINDOW payloads are         *)
(* unacknowledged. The sequence number may wrap.                           *)
(***************************************************************************)
THEOREM WindowHolds == Spec => []WindowRespected
  <1>1. Init => TypeInv /\ WindowInv
    BY TypeInvInit, WindowInvInit
  <1>2. TypeInv /\ WindowInv /\ [Next]_vars => TypeInv' /\ WindowInv'
    BY TypeInvNext, WindowInvNext
  <1>3. TypeInv /\ WindowInv => WindowRespected
    BY DEF WindowInv
  <1> QED BY <1>1, <1>2, <1>3, PTL DEF Spec
=============================================================================
