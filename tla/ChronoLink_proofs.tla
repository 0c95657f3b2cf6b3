-------------------------- MODULE ChronoLink_proofs --------------------------
(***************************************************************************)
(* Theorems about ChronoLink for any number of connections, packets,       *)
(* addresses and edits: its type invariant, that the packets of a          *)
(* connection are cut out of the byte stream as they were sent, wherever   *)
(* TCP and the reconnects cut it; and the refinement: bytes, buffer and    *)
(* thread together implement PacketStream.                                 *)
(***************************************************************************)
EXTENDS ChronoLink, SequenceTheorems, TLAPS

\* Concatenation of byte strings is associative.
LEMMA BytesAssociate ==
    \A x, y, z \in Seq(Byte) : (x \o y) \o z = x \o (y \o z)
  BY ConcatAssociative, SMTT(60)

USE LinkAssumption

\* The stream is the buffer followed by what is on the wire.
LEMMA StreamIndex ==
    ASSUME m_arrBuffer \in Seq(Byte), wire \in Seq(Byte)
    PROVE  /\ Stream \in Seq(Byte)
           /\ Len(Stream) = Len(m_arrBuffer) + Len(wire)
           /\ Len(m_arrBuffer) \in Nat /\ Len(wire) \in Nat
           /\ \A i \in 1..Len(m_arrBuffer) : Stream[i] = m_arrBuffer[i]
           /\ \A i \in 1..Len(wire) : Stream[Len(m_arrBuffer) + i] = wire[i]
  BY ConcatProperties DEF Stream

\* Moving bytes from the wire to the buffer moves nothing in the stream.
LEMMA ReceiveKeepsStream ==
    ASSUME NEW b \in Seq(Byte), NEW w \in Seq(Byte), NEW n \in 1..Len(w)
    PROVE  /\ b \o SubSeq(w, 1, n) \in Seq(Byte)
           /\ SubSeq(w, n + 1, Len(w)) \in Seq(Byte)
           /\ (b \o SubSeq(w, 1, n)) \o SubSeq(w, n + 1, Len(w)) = b \o w
<1>. DEFINE u == SubSeq(w, 1, n)
            v == SubSeq(w, n + 1, Len(w))
<1>0. Len(w) \in Nat /\ n \in 1..Len(w)
  OBVIOUS
<1>1. /\ u \in Seq(Byte) /\ Len(u) = n
      /\ \A i \in 1..n : u[i] = w[i]
  BY SubSeqProperties
<1>2. /\ v \in Seq(Byte) /\ Len(v) = Len(w) - n
      /\ \A i \in 1..(Len(w) - n) : v[i] = w[n + i]
  <2>1. CASE n < Len(w)
    BY <2>1, SubSeqProperties
  <2>2. CASE n = Len(w)
    BY <2>2, SubSeqProperties
  <2>. QED
    BY <2>1, <2>2
<1>. HIDE DEF u, v
<1>3. u \o v \in Seq(Byte) /\ Len(u \o v) = Len(w)
  <2>1. u \in Seq(Byte) /\ v \in Seq(Byte)
    BY <1>1, <1>2
  <2>2. u \o v \in Seq(Byte) /\ Len(u \o v) = Len(u) + Len(v)
    BY <2>1, ConcatProperties
  <2>. QED
    BY <2>2, <1>0, <1>1, <1>2
<1>4. \A i \in 1..Len(w) : (u \o v)[i] = w[i]
  <2>. SUFFICES ASSUME NEW i \in 1..Len(w) PROVE (u \o v)[i] = w[i]
    OBVIOUS
  <2>1. CASE i <= n
    BY <2>1, <1>0, <1>1, <1>2, ConcatProperties
  <2>2. CASE i > n
    <3>1. i - n \in 1..(Len(w) - n) /\ n + (i - n) = i
      BY <2>2, <1>0
    <3>2. v[i - n] = w[i]
      BY <3>1, <1>2
    <3>3. (u \o v)[i] = v[i - n]
      BY <2>2, <1>0, <1>1, <1>2, ConcatProperties
    <3>. QED
      BY <3>2, <3>3
  <2>3. i <= n \/ i > n
    BY <1>0
  <2>. QED
    BY <2>1, <2>2, <2>3, Zenon
<1>5. u \o v = w
  BY <1>3, <1>4, SeqEqual
<1>6. (b \o u) \o v = b \o (u \o v)
  <2>1. u \in Seq(Byte) /\ v \in Seq(Byte) /\ b \in Seq(Byte)
    BY <1>1, <1>2
  <2>. QED
    BY <2>1, BytesAssociate, Zenon
<1>7. b \o u \in Seq(Byte)
  BY <1>1
<1>. QED
  BY <1>2, <1>5, <1>6, <1>7 DEF u, v

\* A step that leaves the stream and the counts alone, and opens no socket,
\* keeps StreamInv.
LEMMA SameStream ==
    ASSUME StreamInv, Stream' = Stream, UNCHANGED <<conns, cut, made>>,
           SocketOpen' => SocketOpen
    PROVE  StreamInv'
<1>1. Old' = Old
  BY DEF Old
<1>2. \A i : ByteAt(i)' = ByteAt(i)
  BY DEF ByteAt
<1>. QED
  BY <1>1, <1>2 DEF StreamInv

-----------------------------------------------------------------------------
\* What a step can do to the stream, whichever action takes it.

\* Nothing is received, cut, sent or lost.
Still == /\ UNCHANGED <<m_arrBuffer, handled, wire, made, cut, conns>>
         /\ SocketOpen' => SocketOpen
         /\ pc' \in {"connect", "dial", "ended"} => pc \in {"connect", "dial", "ended"}
         /\ pc' # "split" => pc # "split" \/ ~HasPacket
         /\ pc' = "dead" \/ pc # "dead"

\* The cut of a packet, whatever the handler does.
Cut == /\ CutPacket
       /\ UNCHANGED <<m_bConnected, szCurServerAddr, peer, conns, wireVars, userVars>>
       /\ pc' \in {"split", "dead"}

LEMMA StepCases ==
    ASSUME TypeOK, [Next]_vars
    PROVE  Connect \/ Receive \/ Cut \/ Close \/ ServerSends \/ Still
<1>. USE DEF Still, SocketOpen, linkVars, wireVars, userVars, streamVars, vars, TypeOK
<1>1. CASE Announce \/ AnnounceThrows \/ LeaveLoop \/ PeerClosed \/ SplitDone \/ RunReturns
  BY <1>1 DEF Announce, AnnounceThrows, LeaveLoop, PeerClosed, SplitDone, RunReturns
<1>2. CASE ReceiveFails \/ PollThrows
  BY <1>2 DEF ReceiveFails, PollThrows
<1>3. CASE ServerCloses \/ SetServerAddress \/ StopThread
  BY <1>3 DEF ServerCloses, SetServerAddress, StopThread
<1>4. CASE Handle \/ HandlerThrows
  BY <1>4 DEF Handle, HandlerThrows, Cut, CutPacket
<1>5. CASE UNCHANGED vars
  BY <1>5
<1>6. CASE Dial \/ ConnectFails \/ SetConnected \/ CopyAddress
  BY <1>6 DEF Dial, ConnectFails, SetConnected, CopyAddress
<1>. QED
  BY <1>1, <1>2, <1>3, <1>4, <1>5, <1>6 DEF Next, ThreadStep

\* The first packet in the buffer ends two bytes after the old ones, and is the
\* next one of this connection.
LEMMA FirstPacket ==
    ASSUME TypeOK, StreamInv, SocketOpen, HasPacket
    PROVE  /\ FirstEnd = Old + 2
           /\ Old \in Nat
           /\ Old + 2 <= Len(m_arrBuffer)
           /\ cut < made
           /\ m_arrBuffer[Old + 1] = [conn |-> conns, packet |-> cut + 1, last |-> FALSE]
           /\ m_arrBuffer[Old + 2] = [conn |-> conns, packet |-> cut + 1, last |-> TRUE]
           /\ \A i \in 1..Old : m_arrBuffer[i].conn < conns /\ ~m_arrBuffer[i].last
<1>0. /\ m_arrBuffer \in Seq(Byte) /\ wire \in Seq(Byte)
      /\ conns \in Nat /\ cut \in Nat /\ made \in Nat
  BY DEF TypeOK
<1>1. /\ Len(Stream) = Len(m_arrBuffer) + Len(wire)
      /\ Len(m_arrBuffer) \in Nat /\ Len(wire) \in Nat
      /\ \A i \in 1..Len(m_arrBuffer) : Stream[i] = m_arrBuffer[i]
  BY <1>0, StreamIndex
<1>2. /\ Old = Len(Stream) - 2 * (made - cut) /\ Old >= 0 /\ cut <= made
      /\ \A i \in 1..Old : Stream[i].conn < conns /\ ~Stream[i].last
      /\ \A i \in (Old + 1)..Len(Stream) : Stream[i] = ByteAt(i - Old)
  BY DEF StreamInv, Old
<1>3. Old \in Nat /\ Len(Stream) \in Nat
  BY <1>0, <1>1, <1>2
<1>. HIDE DEF Old, Stream
<1>4. PICK e \in 1..Len(m_arrBuffer) : m_arrBuffer[e].last
  BY <1>0 DEF HasPacket, Ends
<1>5. Stream[e].last
  BY <1>1, <1>4
<1>6. e > Old
  BY <1>2, <1>3, <1>4, <1>5
<1>7. e - Old # 1
  <2>. SUFFICES ASSUME e - Old = 1 PROVE FALSE
    OBVIOUS
  <2>1. Stream[e] = ByteAt(1)
    BY <1>1, <1>2, <1>3, <1>4, <1>6
  <2>2. ~ByteAt(1).last
    <3>1. ~(1 % 2 = 0)
      OBVIOUS
    <3>. QED
      BY <3>1 DEF ByteAt
  <2>. QED
    BY <1>5, <2>1, <2>2
<1>8. Old + 2 <= Len(m_arrBuffer)
  BY <1>3, <1>4, <1>6, <1>7, <1>1
<1>9. cut < made
  BY <1>0, <1>1, <1>2, <1>3, <1>8
<1>10. /\ m_arrBuffer[Old + 1] = ByteAt(1)
       /\ m_arrBuffer[Old + 2] = ByteAt(2)
  <2>1. /\ Old + 1 \in (Old + 1)..Len(Stream) /\ Old + 2 \in (Old + 1)..Len(Stream)
        /\ Old + 1 \in 1..Len(m_arrBuffer) /\ Old + 2 \in 1..Len(m_arrBuffer)
        /\ (Old + 1) - Old = 1 /\ (Old + 2) - Old = 2
    BY <1>1, <1>3, <1>8
  <2>. QED
    BY <1>1, <1>2, <2>1
<1>11. /\ ByteAt(1) = [conn |-> conns, packet |-> cut + 1, last |-> FALSE]
       /\ ByteAt(2) = [conn |-> conns, packet |-> cut + 1, last |-> TRUE]
  <2>1. (1 + 1) \div 2 = 1 /\ (2 + 1) \div 2 = 1
    OBVIOUS
  <2>2. (1 % 2 = 0) = FALSE /\ (2 % 2 = 0) = TRUE
    OBVIOUS
  <2>. QED
    BY <2>1, <2>2, Zenon DEF ByteAt
<1>12. \A i \in 1..Old : m_arrBuffer[i].conn < conns /\ ~m_arrBuffer[i].last
  <2>1. \A i \in 1..Old : i \in 1..Len(m_arrBuffer)
    BY <1>1, <1>3, <1>8
  <2>. QED
    BY <1>1, <1>2, <2>1
<1>13. FirstEnd = Old + 2
  <2>1. Old + 2 \in Ends
    BY <1>0, <1>1, <1>3, <1>8, <1>10, <1>11 DEF Ends
  <2>2. \A j \in Ends : Old + 2 <= j /\ j \in Nat
    <3>. SUFFICES ASSUME NEW j \in Ends PROVE Old + 2 <= j /\ j \in Nat
      OBVIOUS
    <3>1. j \in 1..Len(m_arrBuffer) /\ m_arrBuffer[j].last
      BY <1>0 DEF Ends
    <3>2. j # Old + 1
      BY <3>1, <1>10, <1>11
    <3>3. ~(j \in 1..Old)
      BY <3>1, <1>12
    <3>. QED
      BY <3>1, <3>2, <3>3, <1>3
  <2>3. \A i \in Ends : (\A j \in Ends : i <= j) => i = Old + 2
    <3>. SUFFICES ASSUME NEW i \in Ends, \A j \in Ends : i <= j PROVE i = Old + 2
      OBVIOUS
    <3>1. i <= Old + 2 /\ Old + 2 <= i /\ i \in Nat
      BY <2>1, <2>2
    <3>. QED
      BY <3>1, <1>3
  <2>. QED
    BY <2>1, <2>2, <2>3 DEF FirstEnd
<1>. QED
  BY <1>3, <1>8, <1>9, <1>10, <1>11, <1>12, <1>13

-----------------------------------------------------------------------------
\* The six kinds of steps.

\* A connect makes all that is left in the buffer old.
LEMMA ConnectStep ==
    ASSUME LinkInv, Connect, TypeOK'
    PROVE  LinkInv'
<1>1. /\ pc = "dial" /\ pc' = "up"
      /\ conns' = conns + 1 /\ made' = 0 /\ cut' = 0
      /\ UNCHANGED <<m_arrBuffer, wire, handled>>
  BY DEF Connect
<1>2. /\ m_arrBuffer \in Seq(Byte) /\ wire = <<>> /\ conns \in Nat
      /\ wire \in Seq(Byte)
  BY <1>1 DEF LinkInv, TypeOK
<1>3. Stream' = Stream
  BY <1>1 DEF Stream
<1>4. /\ Stream \in Seq(Byte) /\ Len(Stream) = Len(m_arrBuffer)
      /\ Len(m_arrBuffer) \in Nat
      /\ \A i \in 1..Len(m_arrBuffer) : Stream[i] = m_arrBuffer[i]
  BY <1>2, StreamIndex
<1>5. Old' = Len(m_arrBuffer)
  BY <1>1, <1>3, <1>4 DEF Old
<1>6. \A i \in 1..Len(m_arrBuffer) : m_arrBuffer[i].conn < conns + 1 /\ ~m_arrBuffer[i].last
  <2>. SUFFICES ASSUME NEW i \in 1..Len(m_arrBuffer)
                PROVE  m_arrBuffer[i].conn < conns + 1 /\ ~m_arrBuffer[i].last
    OBVIOUS
  <2>1. i \in DOMAIN m_arrBuffer /\ m_arrBuffer[i] \in Byte
    BY <1>2
  <2>2. m_arrBuffer[i].conn <= conns /\ ~m_arrBuffer[i].last
    BY <1>1, <2>1 DEF LinkInv, LeftInv
  <2>3. m_arrBuffer[i].conn \in Nat
    BY <2>1 DEF Byte
  <2>. QED
    BY <1>2, <2>2, <2>3
<1>7. StreamInv'
  <2>1. \A i \in 1..Old' : Stream'[i].conn < conns' /\ ~Stream'[i].last
    BY <1>1, <1>3, <1>4, <1>5, <1>6
  <2>2. ~(\E i \in (Old' + 1)..Len(Stream') : TRUE)
    BY <1>3, <1>4, <1>5
  <2>3. conns' > 0 /\ cut' <= made' /\ Old' >= 0 /\ cut' = 0
    BY <1>1, <1>2, <1>4, <1>5
  <2>. QED
    BY <2>1, <2>2, <2>3 DEF StreamInv
<1>8. LeftInv'
  BY <1>1 DEF LeftInv
<1>9. LastInv'
  <2>. SUFFICES ASSUME handled # <<>> PROVE handled[Len(handled)].conn < conns + 1
    BY <1>1 DEF LastInv
  <2>1. cut \in Nat
    BY DEF LinkInv, TypeOK
  <2>2. Len(handled) \in DOMAIN handled /\ handled[Len(handled)].conn \in Nat
    <3>. DEFINE H == [conn : 1..MaxConns, nth : 1..MaxPackets, bytes : Seq(Byte)]
    <3>1. handled \in Seq(H)
      BY DEF LinkInv, TypeOK
    <3>2. \A R : handled \in Seq(R) =>
             Len(handled) \in DOMAIN handled /\ handled[Len(handled)] \in R
      OBVIOUS
    <3>3. Len(handled) \in DOMAIN handled /\ handled[Len(handled)] \in H
      BY <3>1, <3>2
    <3>. QED
      BY <3>3
  <2>3. handled[Len(handled)].conn <= conns
    BY <1>2, <2>1, <2>2 DEF LinkInv, LastInv
  <2>. QED
    BY <1>2, <2>2, <2>3
<1>10. PacketsAsSent' /\ NoPacketWaits'
  BY <1>1 DEF LinkInv, PacketsAsSent, AsSent, Whole, NoPacketWaits, HasPacket, Ends
<1>. QED
  BY <1>7, <1>8, <1>9, <1>10 DEF LinkInv

\* Bytes move from the wire to the buffer.
LEMMA ReceiveStep ==
    ASSUME LinkInv, Receive, TypeOK'
    PROVE  LinkInv'
<1>1. /\ pc = "loop" /\ pc' = "split"
      /\ UNCHANGED <<conns, made, cut, handled>>
  BY DEF Receive
<1>2. PICK n \in 1..Len(wire) :
         /\ m_arrBuffer' = m_arrBuffer \o SubSeq(wire, 1, n)
         /\ wire' = SubSeq(wire, n + 1, Len(wire))
  BY DEF Receive
<1>3. m_arrBuffer \in Seq(Byte) /\ wire \in Seq(Byte)
  BY DEF LinkInv, TypeOK
<1>4. Stream' = Stream
  BY <1>2, <1>3, ReceiveKeepsStream DEF Stream
<1>5. StreamInv'
  BY <1>1, <1>4, SameStream DEF LinkInv, SocketOpen
<1>6. LeftInv' /\ LastInv' /\ PacketsAsSent' /\ NoPacketWaits'
  BY <1>1 DEF LinkInv, LeftInv, LastInv, PacketsAsSent, AsSent, Whole, NoPacketWaits
<1>. QED
  BY <1>5, <1>6 DEF LinkInv

\* Nothing moves.
LEMMA StillStep ==
    ASSUME LinkInv, Still, TypeOK'
    PROVE  LinkInv'
<1>1. Stream' = Stream
  BY DEF Still, Stream
<1>2. StreamInv'
  BY <1>1, SameStream DEF Still, LinkInv
<1>3. LeftInv' /\ LastInv' /\ PacketsAsSent'
  BY DEF Still, LinkInv, LeftInv, LastInv, PacketsAsSent, AsSent, Whole
<1>4. NoPacketWaits'
  <2>1. HasPacket' <=> HasPacket
    BY DEF Still, HasPacket, Ends
  <2>. QED
    BY <2>1 DEF Still, LinkInv, NoPacketWaits, TypeOK
<1>. QED
  BY <1>2, <1>3, <1>4 DEF LinkInv

\* The server sends one more packet.
LEMMA SendStep ==
    ASSUME LinkInv, ServerSends, TypeOK'
    PROVE  LinkInv'
<1>1. /\ SocketOpen /\ pc' = pc /\ made' = made + 1
      /\ wire' = wire \o Whole(conns, made + 1)
      /\ UNCHANGED <<m_arrBuffer, conns, cut, handled>>
  BY DEF ServerSends, linkVars, streamVars
<1>2. /\ m_arrBuffer \in Seq(Byte) /\ wire \in Seq(Byte)
      /\ m_arrBuffer' \in Seq(Byte) /\ wire' \in Seq(Byte)
      /\ conns \in Nat /\ cut \in Nat /\ made \in Nat
  BY DEF LinkInv, TypeOK
<1>. DEFINE p == Whole(conns, made + 1)
<1>3. /\ Len(p) = 2
      /\ p[1] = [conn |-> conns, packet |-> made + 1, last |-> FALSE]
      /\ p[2] = [conn |-> conns, packet |-> made + 1, last |-> TRUE]
      /\ \E S : p \in Seq(S) /\ wire \in Seq(S)
  <2>1. p \in Seq(Byte \cup {p[1], p[2]}) /\ wire \in Seq(Byte \cup {p[1], p[2]})
    BY <1>2 DEF Whole
  <2>. QED
    BY <2>1 DEF Whole
<1>. HIDE DEF p
<1>4. /\ Len(wire') = Len(wire) + 2
      /\ \A i \in 1..Len(wire) : wire'[i] = wire[i]
      /\ wire'[Len(wire) + 1] = p[1] /\ wire'[Len(wire) + 2] = p[2]
  <2>1. PICK S : p \in Seq(S) /\ wire \in Seq(S)
    BY <1>3
  <2>2. /\ wire' = wire \o p /\ Len(wire) \in Nat /\ Len(p) = 2
    BY <1>1, <1>2, <1>3 DEF p
  <2>3. /\ Len(wire \o p) = Len(wire) + Len(p)
        /\ \A i \in 1..(Len(wire) + Len(p)) :
              (wire \o p)[i] = IF i <= Len(wire) THEN wire[i] ELSE p[i - Len(wire)]
    BY <2>1, ConcatProperties
  <2>. DEFINE q == wire \o p
  <2>4. /\ wire' = q /\ Len(q) = Len(wire) + 2
        /\ \A i \in 1..(Len(wire) + 2) :
              q[i] = IF i <= Len(wire) THEN wire[i] ELSE p[i - Len(wire)]
    BY <2>2, <2>3
  <2>. HIDE DEF q
  <2>5. /\ (Len(wire) + 1) - Len(wire) = 1 /\ (Len(wire) + 2) - Len(wire) = 2
        /\ Len(wire) + 1 \in 1..(Len(wire) + 2) /\ Len(wire) + 2 \in 1..(Len(wire) + 2)
        /\ ~(Len(wire) + 1 <= Len(wire)) /\ ~(Len(wire) + 2 <= Len(wire))
        /\ \A i \in 1..Len(wire) : i \in 1..(Len(wire) + 2) /\ i <= Len(wire)
    BY <2>2
  <2>. QED
    BY <2>4, <2>5
<1>. DEFINE L == Len(Stream)
<1>5. /\ L = Len(m_arrBuffer) + Len(wire)
      /\ Len(m_arrBuffer) \in Nat /\ Len(wire) \in Nat
      /\ \A i \in 1..Len(m_arrBuffer) : Stream[i] = m_arrBuffer[i]
      /\ \A i \in 1..Len(wire) : Stream[Len(m_arrBuffer) + i] = wire[i]
  BY <1>2, StreamIndex
<1>6. /\ Len(Stream') = Len(m_arrBuffer) + Len(wire')
      /\ \A i \in 1..Len(m_arrBuffer) : Stream'[i] = m_arrBuffer[i]
      /\ \A i \in 1..Len(wire') : Stream'[Len(m_arrBuffer) + i] = wire'[i]
  <2>1. /\ Len(Stream') = Len(m_arrBuffer') + Len(wire')
        /\ \A i \in 1..Len(m_arrBuffer') : Stream'[i] = m_arrBuffer'[i]
        /\ \A i \in 1..Len(wire') : Stream'[Len(m_arrBuffer') + i] = wire'[i]
    BY <1>2, ConcatProperties DEF Stream
  <2>. QED
    BY <2>1, <1>1
<1>7. /\ Old = L - 2 * (made - cut) /\ Old >= 0 /\ cut <= made
      /\ conns > 0
      /\ cut > 0 => Old = 0
      /\ \A i \in 1..Old : Stream[i].conn < conns /\ ~Stream[i].last
      /\ \A i \in (Old + 1)..L : Stream[i] = ByteAt(i - Old)
  BY <1>1 DEF LinkInv, StreamInv, Old
<1>8. Old' = Len(Stream') - 2 * ((made + 1) - cut)
  BY <1>1 DEF Old
<1>. HIDE DEF L
<1>10. L \in Nat /\ Len(Stream') = L + 2
  BY <1>4, <1>5, <1>6
<1>11. Old \in Nat /\ Old' = Old
  BY <1>2, <1>7, <1>8, <1>10
<1>12. \A i \in 1..L : Stream'[i] = Stream[i]
  <2>. SUFFICES ASSUME NEW i \in 1..L PROVE Stream'[i] = Stream[i]
    OBVIOUS
  <2>1. CASE i <= Len(m_arrBuffer)
    BY <2>1, <1>5, <1>6
  <2>2. CASE i > Len(m_arrBuffer)
    <3>1. /\ i - Len(m_arrBuffer) \in 1..Len(wire)
          /\ i - Len(m_arrBuffer) \in 1..Len(wire')
          /\ Len(m_arrBuffer) + (i - Len(m_arrBuffer)) = i
      BY <2>2, <1>4, <1>5
    <3>2. Stream[i] = wire[i - Len(m_arrBuffer)]
      BY <3>1, <1>5
    <3>3. Stream'[i] = wire'[i - Len(m_arrBuffer)]
      BY <3>1, <1>6
    <3>. QED
      BY <3>1, <3>2, <3>3, <1>4
  <2>3. i <= Len(m_arrBuffer) \/ i > Len(m_arrBuffer)
    BY <1>5
  <2>. QED
    BY <2>1, <2>2, <2>3, Zenon
<1>13. Stream'[L + 1] = p[1] /\ Stream'[L + 2] = p[2]
  <2>1. /\ Len(wire) + 1 \in 1..Len(wire') /\ Len(wire) + 2 \in 1..Len(wire')
        /\ Len(m_arrBuffer) + (Len(wire) + 1) = L + 1
        /\ Len(m_arrBuffer) + (Len(wire) + 2) = L + 2
    BY <1>4, <1>5
  <2>. QED
    BY <2>1, <1>4, <1>6
<1>14. ByteAt((L + 1) - Old) = p[1] /\ ByteAt((L + 2) - Old) = p[2]
  <2>. DEFINE k == made - cut
  <2>1. k \in Nat /\ (L + 1) - Old = 2 * k + 1 /\ (L + 2) - Old = 2 * k + 2
    BY <1>2, <1>7, <1>10, <1>11
  <2>2. /\ ((2 * k + 1) + 1) \div 2 = k + 1 /\ ((2 * k + 2) + 1) \div 2 = k + 1
        /\ ((2 * k + 1) % 2 = 0) = FALSE /\ ((2 * k + 2) % 2 = 0) = TRUE
    BY <2>1
  <2>3. cut + (k + 1) = made + 1
    BY <1>2
  <2>. HIDE DEF k
  <2>4. /\ ByteAt(2 * k + 1) = [conn |-> conns, packet |-> made + 1, last |-> FALSE]
        /\ ByteAt(2 * k + 2) = [conn |-> conns, packet |-> made + 1, last |-> TRUE]
    BY <2>2, <2>3, Zenon DEF ByteAt
  <2>. QED
    BY <1>3, <2>1, <2>4
<1>15. StreamInv'
  <2>1. \A i \in 1..Old : Stream'[i].conn < conns /\ ~Stream'[i].last
    <3>1. \A i \in 1..Old : i \in 1..L
      BY <1>2, <1>7, <1>10, <1>11
    <3>. QED
      BY <3>1, <1>7, <1>12
  <2>2. \A i \in (Old + 1)..(L + 2) : Stream'[i] = ByteAt(i - Old)
    <3>. SUFFICES ASSUME NEW i \in (Old + 1)..(L + 2)
                  PROVE  Stream'[i] = ByteAt(i - Old)
      OBVIOUS
    <3>1. (i \in (Old + 1)..L /\ i \in 1..L) \/ i = L + 1 \/ i = L + 2
      BY <1>10, <1>11
    <3>. QED
      BY <3>1, <1>7, <1>12, <1>13, <1>14
  <2>3. cut <= made + 1
    BY <1>2, <1>7
  <2>4. \A i \in (Old + 1)..(L + 2) :
           Stream'[i] = [conn |-> conns, packet |-> cut + (((i - Old) + 1) \div 2),
                         last |-> (i - Old) % 2 = 0]
    BY <2>2 DEF ByteAt
  <2>. QED
    BY <1>1, <1>7, <1>10, <1>11, <2>1, <2>3, <2>4 DEF StreamInv, SocketOpen, ByteAt
<1>16. LeftInv' /\ LastInv' /\ PacketsAsSent'
  BY <1>1 DEF LinkInv, LeftInv, LastInv, PacketsAsSent, AsSent, Whole
<1>17. NoPacketWaits'
  BY <1>1 DEF LinkInv, NoPacketWaits, HasPacket, Ends
<1>. QED
  BY <1>15, <1>16, <1>17 DEF LinkInv

\* The connection is closed: the wire is lost, and with every whole packet cut
\* out, the buffer holds no terminator.
LEMMA CloseStep ==
    ASSUME LinkInv, Close, TypeOK'
    PROVE  LinkInv'
<1>1. /\ pc = "close" /\ pc' = "connect"
      /\ UNCHANGED <<m_arrBuffer, conns, cut, handled, made>>
  BY DEF Close, streamVars
<1>2. /\ m_arrBuffer \in Seq(Byte) /\ wire \in Seq(Byte)
      /\ conns \in Nat /\ cut \in Nat /\ made \in Nat
  BY DEF LinkInv, TypeOK
<1>3. /\ Len(Stream) = Len(m_arrBuffer) + Len(wire)
      /\ Len(m_arrBuffer) \in Nat /\ Len(wire) \in Nat
      /\ \A i \in 1..Len(m_arrBuffer) : Stream[i] = m_arrBuffer[i]
  BY <1>2, StreamIndex
<1>4. /\ Old = Len(Stream) - 2 * (made - cut) /\ Old >= 0
      /\ \A i \in 1..Old : Stream[i].conn < conns
      /\ \A i \in (Old + 1)..Len(Stream) : Stream[i] = ByteAt(i - Old)
  BY <1>1 DEF LinkInv, StreamInv, SocketOpen, Old
<1>5. Old \in Nat /\ Len(Stream) \in Nat
  BY <1>2, <1>3, <1>4
<1>. HIDE DEF Old, Stream
<1>6. \A i \in 1..Len(m_arrBuffer) : ~m_arrBuffer[i].last
  BY <1>1, <1>2 DEF LinkInv, NoPacketWaits, HasPacket, Ends
<1>7. \A i \in 1..Len(m_arrBuffer) : m_arrBuffer[i].conn <= conns
  <2>. SUFFICES ASSUME NEW i \in 1..Len(m_arrBuffer) PROVE m_arrBuffer[i].conn <= conns
    OBVIOUS
  <2>1. m_arrBuffer[i].conn \in Nat
    <3>1. m_arrBuffer[i] \in Byte
      BY <1>2
    <3>. QED
      BY <3>1 DEF Byte
  <2>2. CASE i \in 1..Old
    BY <2>1, <2>2, <1>2, <1>3, <1>4
  <2>3. CASE i \in (Old + 1)..Len(Stream)
    <3>1. m_arrBuffer[i] = ByteAt(i - Old)
      BY <2>3, <1>3, <1>4
    <3>2. ByteAt(i - Old).conn = conns
      BY DEF ByteAt
    <3>. QED
      BY <3>1, <3>2, <1>2
  <2>4. i \in 1..Old \/ i \in (Old + 1)..Len(Stream)
    BY <1>3, <1>5
  <2>. QED
    BY <2>2, <2>3, <2>4
<1>8. LeftInv'
  BY <1>1, <1>2, <1>6, <1>7 DEF LeftInv
<1>9. StreamInv' /\ LastInv' /\ PacketsAsSent' /\ NoPacketWaits'
  BY <1>1 DEF LinkInv, StreamInv, SocketOpen, LastInv, PacketsAsSent, AsSent, Whole,
     NoPacketWaits, HasPacket, Ends
<1>. QED
  BY <1>8, <1>9 DEF LinkInv

\* The packet that is cut out is the next one of this connection, behind the
\* old bytes if it is the first.
LEMMA CutAsSent ==
    ASSUME TypeOK, StreamInv, SocketOpen, HasPacket
    PROVE  /\ SubSeq(m_arrBuffer, 1, FirstEnd) \in Seq(Byte)
           /\ AsSent([conn |-> conns, nth |-> cut + 1,
                      bytes |-> SubSeq(m_arrBuffer, 1, FirstEnd)])
<1>. DEFINE b == SubSeq(m_arrBuffer, 1, FirstEnd)
            h == [conn |-> conns, nth |-> cut + 1, bytes |-> b]
<1>1. /\ FirstEnd = Old + 2 /\ Old \in Nat /\ Old + 2 <= Len(m_arrBuffer)
      /\ m_arrBuffer[Old + 1] = [conn |-> conns, packet |-> cut + 1, last |-> FALSE]
      /\ m_arrBuffer[Old + 2] = [conn |-> conns, packet |-> cut + 1, last |-> TRUE]
      /\ \A i \in 1..Old : m_arrBuffer[i].conn < conns /\ ~m_arrBuffer[i].last
  BY FirstPacket
<1>2. cut \in Nat /\ m_arrBuffer \in Seq(Byte) /\ (cut > 0 => Old = 0)
  BY DEF TypeOK, StreamInv
<1>. HIDE DEF Old, FirstEnd
<1>3. /\ b \in Seq(Byte) /\ Len(b) = Old + 2
      /\ \A i \in 1..(Old + 2) : b[i] = m_arrBuffer[i]
  <2>1. \A i \in 1..(Old + 2) : m_arrBuffer[i] \in Byte
    BY <1>1, <1>2
  <2>2. /\ SubSeq(m_arrBuffer, 1, Old + 2) \in Seq(Byte)
        /\ Len(SubSeq(m_arrBuffer, 1, Old + 2)) = Old + 2
        /\ \A i \in 1..((Old + 2) - 1 + 1) :
              SubSeq(m_arrBuffer, 1, Old + 2)[i] = m_arrBuffer[1 + i - 1]
    BY <1>1, <2>1, SubSeqProperties
  <2>. QED
    BY <1>1, <2>2
<1>. HIDE DEF b
<1>. DEFINE t == SubSeq(b, Old + 1, Old + 2)
<1>4. t = Whole(conns, cut + 1)
  <2>1. \A i \in (Old + 1)..(Old + 2) : b[i] \in Byte
    BY <1>1, <1>3
  <2>2. /\ t \in Seq(Byte) /\ Len(t) = 2
        /\ t[1] = b[Old + 1] /\ t[2] = b[Old + 2]
    <3>1. /\ t \in Seq(Byte)
          /\ Len(t) = IF Old + 1 <= Old + 2 THEN (Old + 2) - (Old + 1) + 1 ELSE 0
          /\ \A i \in 1..((Old + 2) - (Old + 1) + 1) : t[i] = b[(Old + 1) + i - 1]
      BY <1>1, <2>1, SubSeqProperties
    <3>. HIDE DEF t
    <3>2. /\ (Old + 2) - (Old + 1) + 1 = 2
          /\ (Old + 1) + 1 - 1 = Old + 1 /\ (Old + 1) + 2 - 1 = Old + 2
      BY <1>1
    <3>. QED
      BY <1>1, <3>1, <3>2
  <2>. HIDE DEF t
  <2>3. b[Old + 1] = m_arrBuffer[Old + 1] /\ b[Old + 2] = m_arrBuffer[Old + 2]
    BY <1>1, <1>3
  <2>4. /\ t = <<t[1], t[2]>>
    BY <2>2
  <2>. QED
    BY <1>1, <2>2, <2>3, <2>4 DEF Whole
<1>5. \A i \in 1..Old : b[i].conn < conns /\ ~b[i].last
  <2>1. \A i \in 1..Old : i \in 1..(Old + 2)
    BY <1>1
  <2>2. \A i \in 1..Old : b[i] = m_arrBuffer[i]
    BY <2>1, <1>3
  <2>. QED
    BY <2>2, <1>1
<1>6. Len(b) - 1 = Old + 1 /\ Len(b) - 2 = Old /\ Len(b) >= 2
  BY <1>1, <1>3
<1>7. cut + 1 > 1 => Len(b) = 2
  BY <1>1, <1>2, <1>3
<1>8. h.conn = conns /\ h.nth = cut + 1 /\ h.bytes = b
  OBVIOUS
<1>. HIDE DEF h
<1>9. AsSent(h)
  BY <1>3, <1>4, <1>5, <1>6, <1>7, <1>8 DEF AsSent
<1>. QED
  BY <1>3, <1>9 DEF b, h

\* The record of a packet that is cut out.
LEMMA CutRecord ==
    ASSUME LinkInv, Cut
    PROVE  [conn |-> conns, nth |-> cut + 1, bytes |-> SubSeq(m_arrBuffer, 1, FirstEnd)]
              \in [conn : 1..MaxConns, nth : 1..MaxPackets, bytes : Seq(Byte)]
<1>1. /\ TypeOK /\ StreamInv /\ SocketOpen /\ HasPacket
  BY DEF LinkInv, Cut, CutPacket, SocketOpen
<1>2. SubSeq(m_arrBuffer, 1, FirstEnd) \in Seq(Byte) /\ cut < made
  BY <1>1, CutAsSent, FirstPacket
<1>3. conns \in 1..MaxConns /\ cut + 1 \in 1..MaxPackets
  BY <1>1, <1>2 DEF TypeOK, StreamInv
<1>. QED
  BY <1>2, <1>3

\* A packet leaves the buffer.
LEMMA CutStep ==
    ASSUME LinkInv, Cut, TypeOK'
    PROVE  LinkInv'
<1>1. /\ TypeOK /\ StreamInv /\ SocketOpen /\ HasPacket /\ pc = "split"
      /\ pc' \in {"split", "dead"}
      /\ UNCHANGED <<conns, wire, made>>
      /\ cut' = cut + 1
  BY DEF LinkInv, Cut, CutPacket, SocketOpen, wireVars
<1>. DEFINE h == [conn |-> conns, nth |-> cut + 1,
                  bytes |-> SubSeq(m_arrBuffer, 1, FirstEnd)]
            H == [conn : 1..MaxConns, nth : 1..MaxPackets, bytes : Seq(Byte)]
<1>2. /\ m_arrBuffer' = SubSeq(m_arrBuffer, FirstEnd + 1, Len(m_arrBuffer))
      /\ handled' = Append(handled, h)
  BY DEF Cut, CutPacket
<1>3. h \in H /\ AsSent(h) /\ h.conn = conns /\ h.nth = cut + 1
  BY <1>1, CutRecord, CutAsSent
<1>4. /\ FirstEnd = Old + 2 /\ Old \in Nat /\ Old + 2 <= Len(m_arrBuffer)
      /\ cut < made
  BY <1>1, FirstPacket
<1>5. /\ m_arrBuffer \in Seq(Byte) /\ wire \in Seq(Byte) /\ m_arrBuffer' \in Seq(Byte)
      /\ conns \in Nat /\ cut \in Nat /\ made \in Nat /\ handled \in Seq(H)
  BY <1>1 DEF TypeOK
<1>. HIDE DEF h, H
<1>. DEFINE L == Len(Stream)
            f == Old + 2
            B == Len(m_arrBuffer)
            W == Len(wire)
<1>6. /\ L = B + W
      /\ B \in Nat /\ W \in Nat
      /\ \A i \in 1..B : Stream[i] = m_arrBuffer[i]
      /\ \A i \in 1..W : Stream[B + i] = wire[i]
  BY <1>5, StreamIndex
<1>7. /\ Len(Stream') = Len(m_arrBuffer') + W
      /\ \A i \in 1..Len(m_arrBuffer') : Stream'[i] = m_arrBuffer'[i]
      /\ \A i \in 1..W : Stream'[Len(m_arrBuffer') + i] = wire[i]
  <2>1. /\ Len(Stream') = Len(m_arrBuffer') + Len(wire')
        /\ \A i \in 1..Len(m_arrBuffer') : Stream'[i] = m_arrBuffer'[i]
        /\ \A i \in 1..Len(wire') : Stream'[Len(m_arrBuffer') + i] = wire'[i]
    BY <1>1, <1>5, ConcatProperties DEF Stream
  <2>. QED
    BY <1>1, <2>1
<1>8. /\ Len(m_arrBuffer') = B - f
      /\ \A i \in 1..(B - f) : m_arrBuffer'[i] = m_arrBuffer[f + i]
  <2>1. \A i \in (f + 1)..B : m_arrBuffer[i] \in Byte
    BY <1>4, <1>5
  <2>2. f + 1 \in Int /\ B \in Int
    BY <1>4, <1>6
  <2>. DEFINE r == SubSeq(m_arrBuffer, f + 1, B)
  <2>3. /\ Len(r) = IF f + 1 <= B THEN B - (f + 1) + 1 ELSE 0
        /\ \A i \in 1..(B - (f + 1) + 1) : r[i] = m_arrBuffer[(f + 1) + i - 1]
    BY <2>1, <2>2, SubSeqProperties
  <2>4. m_arrBuffer' = r
    BY <1>2, <1>4
  <2>. HIDE DEF r
  <2>5. /\ B - (f + 1) + 1 = B - f
        /\ \A i \in 1..(B - f) : (f + 1) + i - 1 = f + i
        /\ ~(f + 1 <= B) => B - f = 0
    BY <1>4, <1>6
  <2>. QED
    BY <2>3, <2>4, <2>5
<1>9. Old = L - 2 * (made - cut) /\ (cut > 0 => Old = 0) /\ conns > 0
      /\ \A i \in (Old + 1)..L : Stream[i] = ByteAt(i - Old)
  BY <1>1 DEF StreamInv, Old
<1>10. Old' = Len(Stream') - 2 * (made - (cut + 1))
  BY <1>1 DEF Old
<1>. HIDE DEF Old, Stream, FirstEnd, B, W, L
<1>11. Len(Stream') = L - f /\ L \in Nat /\ f \in Nat /\ f <= B /\ f <= L
  BY <1>4, <1>6, <1>7, <1>8 DEF B
<1>12. Old' = 0
  BY <1>4, <1>5, <1>9, <1>10, <1>11
<1>13. \A i \in 1..(L - f) : Stream'[i] = Stream[f + i]
  <2>. SUFFICES ASSUME NEW i \in 1..(L - f) PROVE Stream'[i] = Stream[f + i]
    OBVIOUS
  <2>1. CASE i <= B - f
    <3>1. i \in 1..(B - f) /\ f + i \in 1..B /\ i \in 1..Len(m_arrBuffer')
      BY <2>1, <1>6, <1>8, <1>11
    <3>. QED
      BY <3>1, <1>6, <1>7, <1>8
  <2>2. CASE i > B - f
    <3>1. /\ i - (B - f) \in 1..W
          /\ (B - f) + (i - (B - f)) = i
          /\ B + (i - (B - f)) = f + i
      BY <2>2, <1>6, <1>11
    <3>2. Stream'[i] = wire[i - (B - f)]
      BY <3>1, <1>7, <1>8
    <3>3. Stream[f + i] = wire[i - (B - f)]
      BY <3>1, <1>6
    <3>. QED
      BY <3>2, <3>3
  <2>3. i <= B - f \/ i > B - f
    BY <1>6, <1>11
  <2>. QED
    BY <2>1, <2>2, <2>3, Zenon
<1>14. StreamInv'
  <2>1. \A i \in 1..(L - f) :
           Stream'[i] = [conn |-> conns, packet |-> (cut + 1) + ((i + 1) \div 2),
                         last |-> i % 2 = 0]
    <3>. SUFFICES ASSUME NEW i \in 1..(L - f)
                  PROVE  Stream'[i] = [conn |-> conns, last |-> i % 2 = 0,
                                       packet |-> (cut + 1) + ((i + 1) \div 2)]
      OBVIOUS
    <3>1. f + i \in (Old + 1)..L /\ (f + i) - Old = i + 2
      BY <1>4, <1>11
    <3>2. Stream'[i] = ByteAt(i + 2)
      BY <3>1, <1>9, <1>13
    <3>3. i \in Nat /\ cut + (((i + 2) + 1) \div 2) = (cut + 1) + ((i + 1) \div 2)
      BY <1>5, <1>11
    <3>4. ((i + 2) % 2 = 0) <=> (i % 2 = 0)
      BY <3>3
    <3>5. ((i + 2) % 2 = 0) = (i % 2 = 0)
      BY <3>4
    <3>. QED
      BY <3>2, <3>3, <3>5, Zenon DEF ByteAt
  <2>2. cut + 1 <= made
    BY <1>4, <1>5
  <2>3. \A i \in 1..(L - f) : i - 0 = i
    BY <1>11
  <2>. QED
    BY <1>1, <1>9, <1>11, <1>12, <2>1, <2>2, <2>3 DEF StreamInv, ByteAt
<1>15. LeftInv' /\ NoPacketWaits'
  BY <1>1 DEF LeftInv, NoPacketWaits
<1>16. /\ DOMAIN handled' = 1..(Len(handled) + 1) /\ DOMAIN handled = 1..Len(handled)
       /\ Len(handled) \in Nat
       /\ Len(handled') = Len(handled) + 1
       /\ \A k \in DOMAIN handled : handled'[k] = handled[k]
       /\ handled'[Len(handled) + 1] = h
  BY <1>2, <1>3, <1>5
<1>17. LastInv'
  <2>1. handled' # <<>>
    BY <1>16
  <2>. QED
    BY <1>1, <1>3, <1>5, <1>16, <2>1 DEF LastInv
<1>18. PacketsAsSent'
  <2>. DEFINE Follows(s, k) == IF s[k].nth = 1
                 THEN k > 1 => s[k - 1].conn < s[k].conn
                 ELSE k > 1 /\ s[k - 1].conn = s[k].conn
                            /\ s[k - 1].nth = s[k].nth - 1
  <2>. SUFFICES ASSUME NEW k \in DOMAIN handled'
                PROVE  AsSent(handled'[k]) /\ Follows(handled', k)
    BY DEF PacketsAsSent, AsSent, Whole
  <2>1. CASE k \in DOMAIN handled
    <3>1. k > 1 => k - 1 \in DOMAIN handled
      BY <1>16, <2>1
    <3>2. AsSent(handled[k]) /\ Follows(handled, k)
      BY <2>1 DEF LinkInv, PacketsAsSent
    <3>. QED
      BY <2>1, <3>1, <3>2, <1>16
  <2>2. CASE k = Len(handled) + 1
    <3>1. k > 1 => k - 1 \in DOMAIN handled
      BY <1>16, <2>2
    <3>2. k - 1 = Len(handled) /\ (k > 1 <=> handled # <<>>)
      BY <1>5, <1>16, <2>2
    <3>3. CASE cut = 0
      BY <1>3, <1>16, <2>2, <3>1, <3>2, <3>3 DEF LinkInv, LastInv
    <3>4. CASE cut > 0
      <4>1. handled # <<>> /\ handled[Len(handled)].conn = conns
            /\ handled[Len(handled)].nth = cut
        BY <3>4 DEF LinkInv, LastInv
      <4>2. cut + 1 # 1 /\ (cut + 1) - 1 = cut
        BY <1>5, <3>4
      <4>. QED
        BY <1>3, <1>16, <2>2, <3>1, <3>2, <4>1, <4>2
    <3>5. cut = 0 \/ cut > 0
      BY <1>5
    <3>. QED
      BY <3>3, <3>4, <3>5
  <2>. QED
    BY <1>16, <2>1, <2>2
<1>. QED
  BY <1>14, <1>15, <1>17, <1>18 DEF LinkInv

-----------------------------------------------------------------------------
\* TypeOK in two parts, the byte sequences and the rest.
Streams ==
    /\ m_arrBuffer \in Seq(Byte) /\ wire \in Seq(Byte)
    /\ handled \in Seq([conn : 1..MaxConns, nth : 1..MaxPackets, bytes : Seq(Byte)])

Scalars ==
    /\ m_bRunFlag \in BOOLEAN /\ m_bConnected \in BOOLEAN /\ gone \in BOOLEAN
    /\ m_szServerAddress \in Addresses \cup {NoAddress}
    /\ szCurServerAddr \in Addresses \cup {NoAddress}
    /\ peer \in Addresses \cup {NoAddress}
    /\ pc \in {"connect", "dial", "up", "copy", "announce", "loop", "split",
               "close", "dead", "ended"}
    /\ conns \in 0..MaxConns /\ made \in 0..MaxPackets /\ edits \in 0..MaxEdits
    /\ cut \in 0..MaxPackets
    /\ pc \in {"connect", "dial", "ended"} => wire = <<>> /\ ~m_bConnected

LEMMA TypeParts ==
    /\ TypeOK <=> Streams /\ Scalars
    /\ TypeOK' <=> Streams' /\ Scalars'
  BY DEF TypeOK, Streams, Scalars

\* Every step keeps the byte sequences what they are; that a cut packet has a
\* number within the bound needs StreamInv.
LEMMA StreamsStep == LinkInv /\ [Next]_vars => Streams'
<1>. SUFFICES ASSUME LinkInv, [Next]_vars PROVE Streams'
  OBVIOUS
<1>0. TypeOK /\ Streams
  BY TypeParts DEF LinkInv
<1>1. CASE Connect
  BY <1>0, <1>1 DEF Connect, Streams
<1>2. CASE Receive
  <2>1. PICK n \in 1..Len(wire) :
           /\ m_arrBuffer' = m_arrBuffer \o SubSeq(wire, 1, n)
           /\ wire' = SubSeq(wire, n + 1, Len(wire))
    BY <1>2 DEF Receive
  <2>2. m_arrBuffer' \in Seq(Byte) /\ wire' \in Seq(Byte)
    BY <1>0, <2>1, ReceiveKeepsStream DEF Streams
  <2>3. handled' = handled
    BY <1>2 DEF Receive
  <2>. QED
    BY <1>0, <2>2, <2>3 DEF Streams
<1>3. CASE Cut
  <2>. DEFINE h == [conn |-> conns, nth |-> cut + 1,
                    bytes |-> SubSeq(m_arrBuffer, 1, FirstEnd)]
              H == [conn : 1..MaxConns, nth : 1..MaxPackets, bytes : Seq(Byte)]
  <2>1. h \in H
    BY <1>3, CutRecord
  <2>2. handled' \in Seq(H)
    <3>1. handled' = Append(handled, h) /\ handled \in Seq(H)
      BY <1>0, <1>3 DEF Cut, CutPacket, Streams
    <3>. HIDE DEF h, H
    <3>. QED
      BY <2>1, <3>1
  <2>3. m_arrBuffer' \in Seq(Byte)
    <3>1. /\ m_arrBuffer' = SubSeq(m_arrBuffer, FirstEnd + 1, Len(m_arrBuffer))
          /\ StreamInv /\ SocketOpen /\ HasPacket
      BY <1>3 DEF Cut, CutPacket, LinkInv, SocketOpen
    <3>2. FirstEnd = Old + 2 /\ Old \in Nat /\ m_arrBuffer \in Seq(Byte)
      BY <1>0, <3>1, FirstPacket DEF Streams
    <3>3. \A i \in (FirstEnd + 1)..Len(m_arrBuffer) : m_arrBuffer[i] \in Byte
      BY <3>2
    <3>4. FirstEnd + 1 \in Int /\ Len(m_arrBuffer) \in Int
      BY <3>2
    <3>. QED
      BY <3>1, <3>3, <3>4, SubSeqProperties
  <2>4. wire' = wire
    BY <1>3 DEF Cut, wireVars
  <2>. QED
    BY <1>0, <2>2, <2>3, <2>4 DEF Streams
<1>4. CASE Close
  <2>1. wire' = <<>> /\ m_arrBuffer' = m_arrBuffer /\ handled' = handled
    BY <1>4 DEF Close, streamVars
  <2>. QED
    BY <1>0, <2>1 DEF Streams
<1>5. CASE ServerSends
  <2>1. made + 1 \in 1..MaxPackets /\ conns \in 1..MaxConns
    BY <1>0, <1>5 DEF ServerSends, LinkInv, StreamInv, TypeOK
  <2>2. wire' \in Seq(Byte)
    <3>1. Whole(conns, made + 1) \in Seq(Byte)
      BY <2>1 DEF Whole, Byte
    <3>2. wire' = wire \o Whole(conns, made + 1)
      BY <1>5 DEF ServerSends
    <3>. QED
      BY <1>0, <3>1, <3>2, ConcatProperties DEF Streams
  <2>3. m_arrBuffer' = m_arrBuffer /\ handled' = handled
    BY <1>5 DEF ServerSends, streamVars
  <2>. QED
    BY <1>0, <2>2, <2>3 DEF Streams
<1>6. CASE Still
  BY <1>0, <1>6 DEF Still, Streams
<1>. QED
  BY <1>0, <1>1, <1>2, <1>3, <1>4, <1>5, <1>6, StepCases

\* Every step keeps the other types.
LEMMA ScalarsStep == LinkInv /\ [Next]_vars => Scalars'
<1>. SUFFICES ASSUME LinkInv, [Next]_vars PROVE Scalars'
  OBVIOUS
<1>0. Scalars
  BY TypeParts DEF LinkInv
<1>. USE <1>0 DEF Scalars, linkVars, wireVars, userVars, streamVars, vars
<1>1. CASE Connect
  <2>1. conns + 1 \in 0..MaxConns
    BY <1>1 DEF Connect
  <2>2. 0 \in 0..MaxPackets
    OBVIOUS
  <2>3. gone' \in BOOLEAN
    BY <1>1 DEF Connect
  <2>. QED
    BY <1>1, <2>1, <2>2, <2>3 DEF Connect
<1>2. CASE Announce \/ AnnounceThrows \/ LeaveLoop
  BY <1>2 DEF Announce, AnnounceThrows, LeaveLoop
<1>3. CASE PeerClosed \/ SplitDone \/ RunReturns
  BY <1>3 DEF PeerClosed, SplitDone, RunReturns
<1>4. CASE ReceiveFails \/ PollThrows \/ Receive
  BY <1>4 DEF ReceiveFails, PollThrows, Receive
<1>5. CASE Handle \/ HandlerThrows
  <2>1. Cut
    BY <1>5 DEF Handle, HandlerThrows, Cut, CutPacket
  <2>2. cut' \in 0..MaxPackets
    BY <2>1, CutRecord DEF Cut, CutPacket
  <2>. QED
    BY <2>1, <2>2 DEF Cut, CutPacket
<1>6. CASE Close
  BY <1>6 DEF Close
<1>7. CASE ServerSends
  BY <1>7 DEF ServerSends, SocketOpen
<1>8. CASE ServerCloses
  <2>1. gone' \in BOOLEAN
    BY <1>8 DEF ServerCloses
  <2>. QED
    BY <1>8, <2>1 DEF ServerCloses
<1>10. CASE StopThread
  <2>1. m_bRunFlag' \in BOOLEAN
    BY <1>10 DEF StopThread
  <2>. QED
    BY <1>10, <2>1 DEF StopThread
<1>11. CASE SetServerAddress
  BY <1>11 DEF SetServerAddress
<1>9. CASE UNCHANGED vars
  BY <1>9
<1>12. CASE Dial \/ ConnectFails
  BY <1>12 DEF Dial, ConnectFails
<1>13. CASE SetConnected \/ CopyAddress
  BY <1>13 DEF SetConnected, CopyAddress
<1>. QED
  BY <1>1, <1>2, <1>3, <1>4, <1>5, <1>6, <1>7, <1>8, <1>9, <1>10, <1>11,
     <1>12, <1>13
     DEF Next, ThreadStep

\* The inductive invariant of the connection holds in every reachable state.
THEOREM LinkInvariant == Spec => []LinkInv
<1>1. Init => LinkInv
  <2>. SUFFICES ASSUME Init PROVE LinkInv
    OBVIOUS
  <2>1. /\ m_arrBuffer = <<>> /\ wire = <<>> /\ handled = <<>> /\ pc = "connect"
        /\ cut = 0 /\ conns = 0
    BY DEF Init
  <2>2. Streams
    BY <2>1 DEF Streams
  <2>3. Scalars
    <3>1. m_bRunFlag \in BOOLEAN /\ m_bConnected \in BOOLEAN /\ gone \in BOOLEAN
      BY DEF Init
    <3>2. /\ conns \in 0..MaxConns /\ made \in 0..MaxPackets /\ edits \in 0..MaxEdits
          /\ cut \in 0..MaxPackets
      BY DEF Init
    <3>. QED
      BY <3>1, <3>2 DEF Init, Scalars
  <2>. QED
    BY <2>1, <2>2, <2>3, TypeParts DEF LinkInv, StreamInv, SocketOpen, LeftInv, LastInv,
       PacketsAsSent, NoPacketWaits, HasPacket, Ends
<1>2. LinkInv /\ [Next]_vars => LinkInv'
  <2>. SUFFICES ASSUME LinkInv, [Next]_vars PROVE LinkInv'
    OBVIOUS
  <2>1. TypeOK /\ TypeOK'
    BY StreamsStep, ScalarsStep, TypeParts DEF LinkInv
  <2>. QED
    BY <2>1, StepCases, ConnectStep, ReceiveStep, CutStep, CloseStep, SendStep, StillStep
<1>. QED
  BY <1>1, <1>2, PTL DEF Spec

\* Every variable of the connection keeps its type, for any number of
\* connections and packets.
THEOREM LinkTypeCorrect == Spec => []TypeOK
<1>1. LinkInv => TypeOK
  BY DEF LinkInv
<1>. QED
  BY <1>1, LinkInvariant, PTL

\* However the stream is cut by TCP, by reconnects and by what was left in the
\* buffer, the packets of each connection reach their handlers whole, in order,
\* none skipped and none twice.
THEOREM PacketsArriveAsSent == Spec => []PacketsAsSent
<1>1. LinkInv => PacketsAsSent
  BY DEF LinkInv
<1>. QED
  BY <1>1, LinkInvariant, PTL

\* AddToStream leaves no whole packet in the buffer when it returns.
THEOREM NoPacketIsLeft == Spec => []NoPacketWaits
<1>1. LinkInv => NoPacketWaits
  BY DEF LinkInv
<1>. QED
  BY <1>1, LinkInvariant, PTL
-----------------------------------------------------------------------------
(* The refinement                                                           *)

\* A packet sent makes the wire longer by its two bytes.
LEMMA WireGrows ==
    ASSUME wire \in Seq(Byte), wire' = wire \o Whole(conns, made + 1)
    PROVE  Len(wire') = Len(wire) + 2
<1>. DEFINE p == Whole(conns, made + 1)
<1>1. PICK S : p \in Seq(S) /\ wire \in Seq(S)
  <2>1. p \in Seq(Byte \cup {p[1], p[2]}) /\ wire \in Seq(Byte \cup {p[1], p[2]})
    BY DEF Whole
  <2>. QED
    BY <2>1
<1>2. Len(p) = 2
  BY DEF Whole
<1>. HIDE DEF p
<1>3. Len(wire \o p) = Len(wire) + Len(p)
  BY <1>1, ConcatProperties
<1>. QED
  BY <1>2, <1>3 DEF p

\* Every step keeps the bytes of this connection, and no others, on the wire.
LEMMA WireStep == LinkInv /\ WireNew /\ [Next]_vars => WireNew'
<1>. SUFFICES ASSUME LinkInv, WireNew, [Next]_vars, SocketOpen' PROVE WireNew'
  BY DEF WireNew
<1>0. /\ TypeOK /\ StreamInv
      /\ wire \in Seq(Byte) /\ m_arrBuffer \in Seq(Byte)
      /\ Len(wire) \in Nat /\ Len(m_arrBuffer) \in Nat
      /\ cut \in Nat /\ made \in Nat
  BY DEF LinkInv, TypeOK
<1>1. CASE Connect
  <2>1. wire = <<>> /\ wire' = wire /\ made' = 0 /\ cut' = 0
    BY <1>0, <1>1 DEF Connect, TypeOK
  <2>. QED
    BY <2>1 DEF WireNew
<1>2. CASE Receive
  <2>1. PICK n \in 1..Len(wire) : wire' = SubSeq(wire, n + 1, Len(wire))
    BY <1>2 DEF Receive
  <2>2. UNCHANGED <<made, cut>> /\ SocketOpen
    BY <1>2 DEF Receive, SocketOpen
  <2>3. Len(wire') <= Len(wire) /\ Len(wire') \in Nat
    <3>1. CASE n < Len(wire)
      BY <1>0, <2>1, <3>1, SubSeqProperties
    <3>2. CASE n = Len(wire)
      BY <1>0, <2>1, <3>2, SubSeqProperties
    <3>. QED
      BY <1>0, <2>1, <3>1, <3>2
  <2>. QED
    BY <1>0, <2>2, <2>3 DEF WireNew
<1>3. CASE Cut
  <2>1. /\ SocketOpen /\ HasPacket /\ UNCHANGED <<wire, made>> /\ cut' = cut + 1
    BY <1>3 DEF Cut, CutPacket, SocketOpen, wireVars
  <2>2. Old \in Nat /\ Old + 2 <= Len(m_arrBuffer)
    BY <1>0, <2>1, FirstPacket
  <2>3. Old = (Len(m_arrBuffer) + Len(wire)) - 2 * (made - cut)
    BY <1>0, StreamIndex DEF Old
  <2>. HIDE DEF Old
  <2>4. Len(wire) <= 2 * (made - (cut + 1))
    BY <1>0, <2>2, <2>3
  <2>. QED
    BY <2>1, <2>4 DEF WireNew
<1>4. CASE Close
  BY <1>4 DEF Close, SocketOpen
<1>5. CASE ServerSends
  <2>1. /\ SocketOpen /\ made' = made + 1 /\ cut' = cut
        /\ wire' = wire \o Whole(conns, made + 1)
    BY <1>5 DEF ServerSends, streamVars
  <2>2. Len(wire') = Len(wire) + 2
    BY <1>0, <2>1, WireGrows
  <2>. QED
    BY <1>0, <2>1, <2>2 DEF WireNew
<1>6. CASE Still
  BY <1>6 DEF Still, WireNew
<1>. QED
  BY <1>0, <1>1, <1>2, <1>3, <1>4, <1>5, <1>6, StepCases

\* The old bytes, counted.
LEMMA OldNow ==
    ASSUME TypeOK
    PROVE  /\ Old = (Len(m_arrBuffer) + Len(wire)) - 2 * (made - cut)
           /\ Len(m_arrBuffer) \in Nat /\ Len(wire) \in Nat
           /\ made \in Nat /\ cut \in Nat /\ conns \in Nat
           /\ wire \in Seq(Byte)
           /\ m_arrBuffer = <<>> <=> Len(m_arrBuffer) = 0
<1>1. /\ wire \in Seq(Byte) /\ m_arrBuffer \in Seq(Byte)
      /\ made \in Nat /\ cut \in Nat /\ conns \in Nat
  BY DEF TypeOK
<1>2. Len(Stream) = Len(m_arrBuffer) + Len(wire)
  BY <1>1, StreamIndex
<1>3. Old = Len(Stream) - 2 * (made - cut)
  BY DEF Old
<1>4. m_arrBuffer = <<>> <=> Len(m_arrBuffer) = 0
  BY <1>1
<1>5. Len(m_arrBuffer) \in Nat /\ Len(wire) \in Nat
  BY <1>1
<1>. QED
  BY <1>1, <1>2, <1>3, <1>4, <1>5

LEMMA OldNext ==
    ASSUME TypeOK'
    PROVE  Old' = (Len(m_arrBuffer') + Len(wire')) - 2 * (made' - cut')
<1>1. wire' \in Seq(Byte) /\ m_arrBuffer' \in Seq(Byte)
  BY DEF TypeOK
<1>2. Len(Stream') = Len(m_arrBuffer') + Len(wire')
  BY <1>1, ConcatProperties DEF Stream
<1>3. Old' = Len(Stream') - 2 * (made' - cut')
  BY DEF Old
<1>. QED
  BY <1>2, <1>3

\* A connect opens a stream; what is in the buffer is left.
LEMMA ConnectMaps == LinkInv /\ LinkInv' /\ Connect => Packet!Connect
<1>. SUFFICES ASSUME LinkInv, LinkInv', Connect PROVE Packet!Connect
  OBVIOUS
<1>1. /\ ~Up /\ Up' /\ conns' = conns + 1 /\ made' = 0 /\ cut' = 0
      /\ UNCHANGED <<m_arrBuffer, handled, wire>> /\ wire = <<>>
  BY DEF Connect, Up, LinkInv, TypeOK
<1>2. Packets' = Packets
  BY <1>1 DEF Packets, Whole
<1>3. Left' = Left
  <2>1. Len(wire) = 0 /\ TypeOK /\ TypeOK'
    BY <1>1 DEF LinkInv
  <2>2. Old' = Len(m_arrBuffer) /\ Len(m_arrBuffer) \in Nat
    BY <1>1, <2>1, OldNow, OldNext
  <2>3. Old' > 0 <=> m_arrBuffer # <<>>
    BY <2>1, <2>2, OldNow
  <2>. QED
    BY <1>1, <2>3 DEF Left
<1>. QED
  BY <1>1, <1>2, <1>3 DEF Packet!Connect

\* Only a connect, a close and the end of a connection change whether it is up.
LEMMA UpKept ==
    ASSUME TypeOK, [Next]_vars
    PROVE  Connect \/ Close \/ Up' = Up
<1>. USE DEF Up, linkVars
<1>1. CASE Announce \/ AnnounceThrows \/ LeaveLoop \/ PeerClosed \/ SplitDone \/ RunReturns
  BY <1>1 DEF Announce, AnnounceThrows, LeaveLoop, PeerClosed, SplitDone, RunReturns
<1>2. CASE Receive \/ ReceiveFails \/ PollThrows
  BY <1>2 DEF Receive, ReceiveFails, PollThrows
<1>3. CASE ServerSends \/ ServerCloses \/ SetServerAddress \/ StopThread
  BY <1>3 DEF ServerSends, ServerCloses, SetServerAddress, StopThread
<1>4. CASE Handle \/ HandlerThrows
  BY <1>4 DEF Handle, HandlerThrows, CutPacket
<1>5. CASE UNCHANGED vars
  BY <1>5 DEF vars
<1>6. CASE Dial \/ ConnectFails \/ SetConnected \/ CopyAddress
  BY <1>6 DEF Dial, ConnectFails, SetConnected, CopyAddress
<1>. QED
  BY <1>1, <1>2, <1>3, <1>4, <1>5, <1>6 DEF Next, ThreadStep

\* A packet is sent.
LEMMA SendMaps == TypeOK /\ TypeOK' /\ ServerSends => Packet!Send
<1>. SUFFICES ASSUME TypeOK, TypeOK', ServerSends PROVE Packet!Send
  OBVIOUS
<1>1. /\ Up /\ Up' = Up /\ made' = made + 1 /\ wire' = wire \o Whole(conns, made + 1)
      /\ UNCHANGED <<m_arrBuffer, handled, cut, conns>>
  BY DEF ServerSends, linkVars, streamVars, Up, SocketOpen
<1>2. Packets' = Packets
  BY <1>1 DEF Packets, Whole
<1>3. Left' = Left
  <2>1. Len(wire') = Len(wire) + 2
    BY <1>1, WireGrows DEF TypeOK
  <2>2. Old' = (Len(m_arrBuffer) + (Len(wire) + 2)) - 2 * ((made + 1) - cut)
    BY <1>1, <2>1, OldNext
  <2>3. Old = (Len(m_arrBuffer) + Len(wire)) - 2 * (made - cut)
    BY OldNow
  <2>4. Old' = Old
    <3>1. \A m, w, p, c \in Nat : (m + (w + 2)) - 2 * ((p + 1) - c) = (m + w) - 2 * (p - c)
      OBVIOUS
    <3>. QED
      BY <2>2, <2>3, <3>1, OldNow
  <2>. QED
    BY <1>1, <2>4 DEF Left
<1>. QED
  BY <1>1, <1>2, <1>3 DEF Packet!Send

\* The packet cut out is delivered, and takes along what was left.
LEMMA CutMaps == LinkInv /\ LinkInv' /\ Cut => Packet!Deliver
<1>. SUFFICES ASSUME LinkInv, LinkInv', Cut PROVE Packet!Deliver
  OBVIOUS
<1>. DEFINE b == SubSeq(m_arrBuffer, 1, FirstEnd)
            h == [conn |-> conns, nth |-> cut + 1, bytes |-> b]
            e == [conn |-> conns, nth |-> cut + 1, whole |-> ~Left]
<1>1. /\ TypeOK /\ TypeOK' /\ StreamInv /\ SocketOpen /\ HasPacket
      /\ Up /\ Up' /\ cut' = cut + 1
      /\ UNCHANGED <<conns, wire, made>> /\ handled' = Append(handled, h)
      /\ m_arrBuffer' = SubSeq(m_arrBuffer, FirstEnd + 1, Len(m_arrBuffer))
  BY DEF LinkInv, Cut, CutPacket, SocketOpen, wireVars, Up
<1>2. /\ FirstEnd = Old + 2 /\ Old \in Nat /\ Old + 2 <= Len(m_arrBuffer) /\ cut < made
  BY <1>1, FirstPacket
<1>3. b \in Seq(Byte) /\ AsSent(h)
  BY <1>1, CutAsSent
<1>4. Left <=> Old > 0
  BY <1>1 DEF Left
<1>5. Len(b) = Old + 2
  <2>1. /\ m_arrBuffer \in Seq(Byte) /\ Len(m_arrBuffer) \in Nat
        /\ \A i \in 1..(Old + 2) : m_arrBuffer[i] \in Byte
    BY <1>1, <1>2 DEF TypeOK
  <2>. HIDE DEF Old, FirstEnd
  <2>. QED
    BY <1>2, <2>1, SubSeqProperties
<1>6. Len(m_arrBuffer') = Len(m_arrBuffer) - (Old + 2)
  <2>1. /\ m_arrBuffer \in Seq(Byte) /\ Len(m_arrBuffer) \in Nat
        /\ \A i \in (Old + 3)..Len(m_arrBuffer) : m_arrBuffer[i] \in Byte
    BY <1>1, <1>2 DEF TypeOK
  <2>2. m_arrBuffer' = SubSeq(m_arrBuffer, Old + 3, Len(m_arrBuffer))
    BY <1>1, <1>2
  <2>. HIDE DEF Old, FirstEnd
  <2>3. Len(SubSeq(m_arrBuffer, Old + 3, Len(m_arrBuffer))) =
          IF Old + 3 <= Len(m_arrBuffer) THEN Len(m_arrBuffer) - (Old + 3) + 1 ELSE 0
    BY <1>2, <2>1, SubSeqProperties
  <2>. QED
    BY <1>2, <2>1, <2>2, <2>3
<1>7. ~Left'
  <2>1. Old' = ((Len(m_arrBuffer) - (Old + 2)) + Len(wire)) - 2 * (made - (cut + 1))
    BY <1>1, <1>6, OldNext
  <2>2. Old = (Len(m_arrBuffer) + Len(wire)) - 2 * (made - cut)
    BY <1>1, OldNow
  <2>3. Old' = 0
    <3>1. \A m, w, p, c, o \in Nat :
            o = (m + w) - 2 * (p - c) => ((m - (o + 2)) + w) - 2 * (p - (c + 1)) = 0
      OBVIOUS
    <3>2. /\ Len(m_arrBuffer) \in Nat /\ Len(wire) \in Nat
          /\ made \in Nat /\ cut \in Nat
      BY <1>1, OldNow
    <3>. QED
      BY <1>2, <2>1, <2>2, <3>1, <3>2
  <2>. QED
    BY <1>1, <2>3 DEF Left
<1>8. (h.bytes = Whole(h.conn, h.nth)) = ~Left
  <2>1. h.bytes = b /\ Whole(h.conn, h.nth) = Whole(conns, cut + 1)
    OBVIOUS
  <2>2. Len(Whole(conns, cut + 1)) = 2
    BY DEF Whole
  <2>3. b = Whole(conns, cut + 1) => Old = 0
    <3>1. b = Whole(conns, cut + 1) => Len(b) = 2
      BY <2>2
    <3>. HIDE DEF b
    <3>. QED
      BY <1>2, <1>5, <3>1
  <2>. HIDE DEF b
  <2>4. Old = 0 => b = Whole(conns, cut + 1)
    <3>. SUFFICES ASSUME Old = 0 PROVE b = Whole(conns, cut + 1)
      OBVIOUS
    <3>1. Len(b) = 2 /\ Len(b) - 1 = 1 /\ SubSeq(b, 1, Len(b)) = b
      BY <1>3, <1>5, SubSeqFull
    <3>2. SubSeq(h.bytes, Len(h.bytes) - 1, Len(h.bytes)) = Whole(h.conn, h.nth)
      BY <1>3 DEF AsSent
    <3>3. SubSeq(b, Len(b) - 1, Len(b)) = Whole(conns, cut + 1)
      BY <2>1, <3>2
    <3>. QED
      BY <3>1, <3>3
  <2>5. ~Left <=> Old = 0
    BY <1>2, <1>4
  <2>6. (h.bytes = Whole(h.conn, h.nth)) <=> ~Left
    BY <2>1, <2>3, <2>4, <2>5
  <2>. QED
    BY <2>6
<1>. HIDE DEF b, h
<1>9. Packets' = Append(Packets, e)
  <2>. DEFINE H == [conn : 1..MaxConns, nth : 1..MaxPackets, bytes : Seq(Byte)]
              R(g) == [conn |-> g.conn, nth |-> g.nth,
                       whole |-> g.bytes = Whole(g.conn, g.nth)]
  <2>1. handled \in Seq(H) /\ handled' \in Seq(H) /\ h.conn = conns /\ h.nth = cut + 1
    BY <1>1 DEF TypeOK, h
  <2>2. e = R(h)
    BY <1>8, <2>1
  <2>3. /\ Len(handled') = Len(handled) + 1
        /\ handled'[Len(handled) + 1] = h
        /\ \A k \in 1..Len(handled) : handled'[k] = handled[k]
    BY <1>1, <2>1
  <2>4. /\ Packets = [k \in 1..Len(handled) |-> R(handled[k])]
        /\ Packets' = [k \in 1..Len(handled') |-> R(handled'[k])]
    BY <2>1 DEF Packets, Whole
  <2>. HIDE DEF H, R, e
  <2>5. Packets' = [k \in 1..(Len(handled) + 1) |->
                      IF k \in 1..Len(handled) THEN R(handled[k]) ELSE e]
    BY <2>1, <2>2, <2>3, <2>4
  <2>. QED
    BY <2>1, <2>4, <2>5
<1>. QED
  BY <1>1, <1>2, <1>7, <1>9 DEF Packet!Deliver

\* A close loses what was not delivered, but for the beginning of a packet.
LEMMA CloseMaps == LinkInv /\ WireNew /\ Close => Packet!Close
<1>. SUFFICES ASSUME LinkInv, WireNew, Close PROVE Packet!Close
  OBVIOUS
<1>1. /\ SocketOpen /\ Up /\ ~Up'
      /\ UNCHANGED <<m_arrBuffer, handled, made, cut, conns>>
  BY DEF Close, SocketOpen, Up, streamVars
<1>2. TypeOK /\ StreamInv
  BY DEF LinkInv
<1>3. Packets' = Packets
  BY <1>1 DEF Packets, Whole
<1>4. Left = (Old > 0) /\ Left' = (m_arrBuffer # <<>>)
  BY <1>1 DEF Left
<1>5. /\ Old > 0 => m_arrBuffer # <<>>
      /\ m_arrBuffer # <<>> => Old > 0 \/ cut < made
  <2>1. Len(wire) <= 2 * (made - cut) /\ cut <= made /\ Old >= 0
    BY <1>1, <1>2 DEF WireNew, StreamInv
  <2>2. /\ Old = (Len(m_arrBuffer) + Len(wire)) - 2 * (made - cut)
        /\ Len(m_arrBuffer) \in Nat /\ Len(wire) \in Nat /\ made \in Nat /\ cut \in Nat
        /\ m_arrBuffer = <<>> <=> Len(m_arrBuffer) = 0
    BY <1>2, OldNow
  <2>3. \A m, w, p, c \in Nat :
          /\ w <= 2 * (p - c) /\ (m + w) - 2 * (p - c) > 0 => m # 0
          /\ m # 0 /\ c <= p /\ ~(c < p) => (m + w) - 2 * (p - c) > 0
    OBVIOUS
  <2>. QED
    BY <2>1, <2>2, <2>3
<1>6. Left' \in {Left, Left \/ cut < made}
  BY <1>4, <1>5
<1>. QED
  BY <1>1, <1>3, <1>6 DEF Packet!Close

\* The handlers of the chronometer's messages see a packet stream, whatever TCP,
\* the reconnects and the buffer that nothing clears do to the bytes.
THEOREM LinkImplementsStream == Spec => ImplementsStream
<1>1. Init => Packet!Init /\ WireNew
  BY DEF Init, Packet!Init, Up, Left, Packets, WireNew, SocketOpen
<1>2. LinkInv /\ LinkInv' /\ WireNew /\ [Next]_vars => [Packet!Next]_(Packet!vars)
  <2>. SUFFICES ASSUME LinkInv, LinkInv', WireNew, [Next]_vars
                PROVE  Packet!Next \/ UNCHANGED Packet!vars
    OBVIOUS
  <2>0. TypeOK /\ TypeOK'
    BY DEF LinkInv
  <2>1. CASE Connect
    BY <2>1, ConnectMaps DEF Packet!Next
  <2>2. CASE Close
    BY <2>2, CloseMaps DEF Packet!Next
  <2>3. CASE Cut
    BY <2>3, CutMaps DEF Packet!Next
  <2>4. CASE ServerSends
    BY <2>0, <2>4, SendMaps DEF Packet!Next
  <2>5. CASE Receive
    <3>1. /\ Up' = Up /\ UNCHANGED <<conns, made, cut, handled>>
      BY <2>5 DEF Receive, Up
    <3>2. Stream' = Stream
      <4>1. PICK n \in 1..Len(wire) :
              /\ m_arrBuffer' = m_arrBuffer \o SubSeq(wire, 1, n)
              /\ wire' = SubSeq(wire, n + 1, Len(wire))
        BY <2>5 DEF Receive
      <4>2. m_arrBuffer \in Seq(Byte) /\ wire \in Seq(Byte)
        BY <2>0 DEF TypeOK
      <4>. QED
        BY <4>1, <4>2, ReceiveKeepsStream DEF Stream
    <3>3. Left' = Left /\ Packets' = Packets
      BY <2>5, <3>1, <3>2 DEF Left, Old, Packets, Whole, Up, Receive
    <3>. QED
      BY <3>1, <3>3 DEF Packet!vars
  <2>6. CASE Still /\ Up' = Up
    <3>1. Left' = Left /\ Packets' = Packets
      BY <2>6 DEF Still, Left, Old, Stream, Packets, Whole
    <3>. QED
      BY <2>6, <3>1 DEF Still, Packet!vars
  <2>. QED
    BY <2>0, <2>1, <2>2, <2>3, <2>4, <2>5, <2>6, StepCases, UpKept
<1>. QED
  BY <1>1, <1>2, LinkInvariant, WireStep, PTL DEF Spec, ImplementsStream, Packet!Spec
=============================================================================
