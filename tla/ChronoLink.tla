----------------------------- MODULE ChronoLink -----------------------------
(***************************************************************************)
(* ClientSocketRunnable: the thread that keeps a TCP connection to the     *)
(* chronometer, and the part of MsgProcessor::AddToStream that cuts the    *)
(* byte stream into packets.                                               *)
(*                                                                         *)
(* A packet is a body byte and the terminator 0x0A.  Bytes carry, as       *)
(* ghosts, the connection they were sent on and the packet they belong to. *)
(***************************************************************************)
EXTENDS Naturals, Sequences

CONSTANTS
    Addresses,     \* server addresses the user may enter
    NoAddress,     \* the empty edit box
    MaxConns,      \* bound on connections
    MaxPackets,    \* bound on packets per connection
    MaxEdits       \* bound on edits of the server address

ASSUME LinkAssumption ==
    /\ Addresses # {} /\ NoAddress \notin Addresses
    /\ MaxConns \in Nat /\ MaxPackets \in Nat /\ MaxEdits \in Nat

VARIABLES
    m_bRunFlag,
    m_bConnected,
    m_szServerAddress,   \* what the user entered last
    szCurServerAddr,     \* the thread's copy, taken once it is connected
    pc,                  \* where the thread is in run()
    m_arrBuffer,         \* bytes received and not yet a packet
    peer,                \* ghost: the server connected to, or being dialled
    wire,                \* bytes sent by the server and not yet received
    gone,                \* the server has closed the connection
    conns,               \* ghost: connections made
    made,                \* ghost: packets sent on this connection
    cut,                 \* ghost: packets of this connection handled
    edits,               \* ghost: edits of the address
    handled              \* ghost: packets handed to a handler, in order

linkVars  == <<m_bConnected, szCurServerAddr, pc, peer, conns>>
wireVars  == <<wire, gone, made>>
userVars  == <<m_bRunFlag, m_szServerAddress, edits>>
streamVars == <<m_arrBuffer, cut, handled>>
vars == <<linkVars, wireVars, userVars, streamVars>>

Byte == [conn : 1..MaxConns, packet : 1..MaxPackets, last : BOOLEAN]

\* The bytes of one packet.
Whole(c, k) == <<[conn |-> c, packet |-> k, last |-> FALSE],
                 [conn |-> c, packet |-> k, last |-> TRUE]>>

SocketOpen == pc \in {"up", "copy", "announce", "loop", "split", "close"}
Over == pc \in {"dead", "ended"}

Init ==
    /\ m_bRunFlag = TRUE
    /\ m_bConnected = FALSE
    /\ m_szServerAddress \in Addresses \cup {NoAddress}
    /\ szCurServerAddr = NoAddress
    /\ pc = "connect"
    /\ m_arrBuffer = <<>>
    /\ peer = NoAddress
    /\ wire = <<>>
    /\ gone = FALSE
    /\ conns = 0
    /\ made = 0
    /\ cut = 0
    /\ edits = 0
    /\ handled = <<>>

-----------------------------------------------------------------------------
(* The thread                                                               *)

\* The address of now is the one connected to; with none the thread sleeps.
Dial ==
    /\ pc = "connect"
    /\ m_bRunFlag
    /\ m_szServerAddress # NoAddress
    /\ peer' = m_szServerAddress
    /\ pc' = "dial"
    /\ UNCHANGED <<m_bConnected, szCurServerAddr, conns, wireVars, userVars,
                   streamVars>>

\* The connect succeeds, whatever was entered or stopped in the meantime.
Connect ==
    /\ pc = "dial"
    /\ conns < MaxConns
    /\ conns' = conns + 1
    /\ gone' = FALSE
    /\ made' = 0
    /\ cut' = 0
    /\ pc' = "up"
    /\ UNCHANGED <<m_bConnected, szCurServerAddr, peer, wire, userVars,
                   m_arrBuffer, handled>>

\* The connect throws: caught, and tried again.
ConnectFails ==
    /\ pc = "dial"
    /\ peer' = NoAddress
    /\ pc' = "connect"
    /\ UNCHANGED <<m_bConnected, szCurServerAddr, conns, wireVars, userVars,
                   streamVars>>

SetConnected ==
    /\ pc = "up"
    /\ m_bConnected' = TRUE
    /\ pc' = "copy"
    /\ UNCHANGED <<szCurServerAddr, peer, conns, wireVars, userVars, streamVars>>

\* The copy is of the address of now, which may not be the one connected to.
CopyAddress ==
    /\ pc = "copy"
    /\ szCurServerAddr' = m_szServerAddress
    /\ pc' = "announce"
    /\ UNCHANGED <<m_bConnected, peer, conns, wireVars, userVars, streamVars>>

\* MsgProcessor::Connected runs.
Announce ==
    /\ pc = "announce"
    /\ pc' = "loop"
    /\ UNCHANGED <<m_bConnected, szCurServerAddr, peer, conns, wireVars,
                   userVars, streamVars>>

\* Connected() reads the database; what it throws nobody catches.
AnnounceThrows ==
    /\ pc = "announce"
    /\ pc' = "dead"
    /\ UNCHANGED <<m_bConnected, szCurServerAddr, peer, conns, wireVars,
                   userVars, streamVars>>

\* Mutant of Leaves: the inner loop does not look at the run flag.
LeavesOnNewAddress == szCurServerAddr # m_szServerAddress

\* The tests at the head of the inner loop: the run flag, the address.
Leaves == ~m_bRunFlag \/ szCurServerAddr # m_szServerAddress

LeaveLoop ==
    /\ pc = "loop"
    /\ Leaves
    /\ pc' = "close"
    /\ UNCHANGED <<m_bConnected, szCurServerAddr, peer, conns, wireVars,
                   userVars, streamVars>>

\* Mutant of Receive: the bytes take the place of those in the buffer.
ReceiveOverwrites ==
    /\ pc = "loop"
    /\ ~Leaves
    /\ \E n \in 1..Len(wire) :
          /\ m_arrBuffer' = SubSeq(wire, 1, n)
          /\ wire' = SubSeq(wire, n + 1, Len(wire))
    /\ pc' = "split"
    /\ UNCHANGED <<m_bConnected, szCurServerAddr, peer, conns, gone, made,
                   userVars, cut, handled>>

\* receiveBytes returned n bytes: AddToStream appends them.
Receive ==
    /\ pc = "loop"
    /\ ~Leaves
    /\ \E n \in 1..Len(wire) :
          /\ m_arrBuffer' = m_arrBuffer \o SubSeq(wire, 1, n)
          /\ wire' = SubSeq(wire, n + 1, Len(wire))
    /\ pc' = "split"
    /\ UNCHANGED <<m_bConnected, szCurServerAddr, peer, conns, gone, made,
                   userVars, cut, handled>>

\* Mutant of PeerClosed: an empty read does not end the inner loop.
PeerClosedUnseen ==
    /\ pc = "loop"
    /\ ~Leaves
    /\ gone /\ wire = <<>>
    /\ UNCHANGED vars

\* receiveBytes returned 0: the server closed, and everything was read.
PeerClosed ==
    /\ pc = "loop"
    /\ ~Leaves
    /\ gone /\ wire = <<>>
    /\ pc' = "close"
    /\ UNCHANGED <<m_bConnected, szCurServerAddr, peer, conns, wireVars,
                   userVars, streamVars>>

\* receiveBytes threw: caught, the loop is left.
ReceiveFails ==
    /\ pc = "loop"
    /\ ~Leaves
    /\ pc' = "close"
    /\ UNCHANGED <<m_bConnected, szCurServerAddr, peer, conns, wireVars,
                   userVars, streamVars>>

\* poll threw: it is outside the try block, the thread ends as it stands.
PollThrows ==
    /\ pc = "loop"
    /\ ~Leaves
    /\ pc' = "dead"
    /\ UNCHANGED <<m_bConnected, szCurServerAddr, peer, conns, wireVars,
                   userVars, streamVars>>

\* Positions of the terminator in the buffer.
Ends == {i \in DOMAIN m_arrBuffer : m_arrBuffer[i].last}
HasPacket == Ends # {}
FirstEnd == CHOOSE i \in Ends : \A j \in Ends : i <= j

\* Mutant of CutPacket: what follows the first packet is dropped.
CutAndDropRest ==
    /\ pc = "split"
    /\ HasPacket
    /\ m_arrBuffer' = <<>>
    /\ handled' = Append(handled, [conn |-> conns, nth |-> cut + 1,
                                   bytes |-> SubSeq(m_arrBuffer, 1, FirstEnd)])
    /\ cut' = cut + 1

\* One turn of AddToStream's loop: the first packet leaves the buffer.
CutPacket ==
    /\ pc = "split"
    /\ HasPacket
    /\ m_arrBuffer' = SubSeq(m_arrBuffer, FirstEnd + 1, Len(m_arrBuffer))
    /\ handled' = Append(handled, [conn |-> conns, nth |-> cut + 1,
                                   bytes |-> SubSeq(m_arrBuffer, 1, FirstEnd)])
    /\ cut' = cut + 1

Handle ==
    /\ CutPacket
    /\ UNCHANGED <<linkVars, wireVars, userVars>>

\* The handler throws (a field that is no number, a database error): no try
\* block is around AddToStream.
HandlerThrows ==
    /\ CutPacket
    /\ pc' = "dead"
    /\ UNCHANGED <<m_bConnected, szCurServerAddr, peer, conns, wireVars, userVars>>

\* Mutant of SplitDone: the loop of AddToStream may end with a packet left.
SplitEndsEarly ==
    /\ pc = "split"
    /\ pc' = "loop"
    /\ UNCHANGED <<m_bConnected, szCurServerAddr, peer, conns, wireVars,
                   userVars, streamVars>>

\* No terminator is left: back to the inner loop.
SplitDone ==
    /\ pc = "split"
    /\ ~HasPacket
    /\ pc' = "loop"
    /\ UNCHANGED <<m_bConnected, szCurServerAddr, peer, conns, wireVars,
                   userVars, streamVars>>

\* Mutant of Close: m_bConnected stays set.
CloseStillConnected ==
    /\ pc = "close"
    /\ peer' = NoAddress
    /\ wire' = <<>>
    /\ pc' = "connect"
    /\ UNCHANGED <<m_bConnected, szCurServerAddr, conns, gone, made, userVars,
                   streamVars>>

\* Disconnected(), close: what was on the wire is lost, the buffer is kept.
Close ==
    /\ pc = "close"
    /\ m_bConnected' = FALSE
    /\ peer' = NoAddress
    /\ wire' = <<>>
    /\ pc' = "connect"
    /\ UNCHANGED <<szCurServerAddr, conns, gone, made, userVars, streamVars>>

RunReturns ==
    /\ pc = "connect"
    /\ ~m_bRunFlag
    /\ pc' = "ended"
    /\ UNCHANGED <<m_bConnected, szCurServerAddr, peer, conns, wireVars,
                   userVars, streamVars>>

\* What the thread does whatever the network does.
ThreadStep ==
    \/ SetConnected \/ CopyAddress \/ Announce \/ AnnounceThrows \/ LeaveLoop \/ PeerClosed
    \/ Handle \/ HandlerThrows \/ SplitDone \/ Close \/ RunReturns

-----------------------------------------------------------------------------
(* The server and the user                                                  *)

ServerSends ==
    /\ SocketOpen /\ ~gone
    /\ made < MaxPackets
    /\ wire' = wire \o Whole(conns, made + 1)
    /\ made' = made + 1
    /\ UNCHANGED <<linkVars, gone, userVars, streamVars>>

ServerCloses ==
    /\ SocketOpen /\ ~gone
    /\ gone' = TRUE
    /\ UNCHANGED <<linkVars, wire, made, userVars, streamVars>>

\* OnChangeServerAddressEdit runs at every keystroke in the edit box.
SetServerAddress ==
    /\ edits < MaxEdits
    /\ m_bRunFlag
    /\ \E a \in (Addresses \cup {NoAddress}) \ {m_szServerAddress} :
          m_szServerAddress' = a
    /\ edits' = edits + 1
    /\ UNCHANGED <<linkVars, wireVars, m_bRunFlag, streamVars>>

\* StopClientSocketThread; the join waits for Over.
StopThread ==
    /\ m_bRunFlag
    /\ m_bRunFlag' = FALSE
    /\ UNCHANGED <<linkVars, wireVars, m_szServerAddress, edits, streamVars>>

Next ==
    \/ Dial \/ Connect \/ ConnectFails
    \/ Receive \/ ReceiveFails \/ PollThrows \/ ThreadStep
    \/ ServerSends \/ ServerCloses \/ SetServerAddress \/ StopThread

Spec == Init /\ [][Next]_vars

\* The thread goes on, and a connect returns or throws (TCP gives up).  Nothing
\* is assumed about poll and receive beyond what the server has done, nor about
\* the user.
Fairness ==
    /\ WF_vars(ThreadStep) /\ WF_vars(Receive)
    /\ WF_vars(Connect \/ ConnectFails)

FairSpec == Spec /\ Fairness

-----------------------------------------------------------------------------
(* Properties                                                               *)

\* Every variable has its type; only an open socket has bytes on the wire.
TypeOK ==
    /\ m_bRunFlag \in BOOLEAN /\ m_bConnected \in BOOLEAN /\ gone \in BOOLEAN
    /\ m_szServerAddress \in Addresses \cup {NoAddress}
    /\ szCurServerAddr \in Addresses \cup {NoAddress}
    /\ peer \in Addresses \cup {NoAddress}
    /\ pc \in {"connect", "dial", "up", "copy", "announce", "loop", "split",
               "close", "dead", "ended"}
    /\ m_arrBuffer \in Seq(Byte) /\ wire \in Seq(Byte)
    /\ conns \in 0..MaxConns /\ made \in 0..MaxPackets /\ edits \in 0..MaxEdits
    /\ cut \in 0..MaxPackets
    /\ handled \in Seq([conn : 1..MaxConns, nth : 1..MaxPackets, bytes : Seq(Byte)])
    /\ pc \in {"connect", "dial", "ended"} => wire = <<>> /\ ~m_bConnected

\* The nth packet of connection c as it reaches a handler.  What stands in front
\* of it was left in m_arrBuffer by an earlier connection.
AsSent(h) ==
    LET n == Len(h.bytes)
    IN  /\ n >= 2 /\ SubSeq(h.bytes, n - 1, n) = Whole(h.conn, h.nth)
        /\ h.nth > 1 => n = 2
        /\ \A i \in 1..(n - 2) : h.bytes[i].conn < h.conn /\ ~h.bytes[i].last

\* However TCP cuts the stream, a connection's packets are handled in the order
\* they were sent, none skipped, none twice, each as it was sent.  Only the
\* first packet of a connection may carry in front what an earlier connection
\* left in m_arrBuffer, which nothing clears.
PacketsAsSent ==
    \A k \in DOMAIN handled :
        /\ AsSent(handled[k])
        /\ IF handled[k].nth = 1
             THEN k > 1 => handled[k - 1].conn < handled[k].conn
             ELSE k > 1 /\ handled[k - 1].conn = handled[k].conn
                        /\ handled[k - 1].nth = handled[k].nth - 1

\* A complete packet never waits in the buffer for more bytes to arrive.
NoPacketWaits ==
    pc \in {"connect", "dial", "up", "copy", "announce", "loop", "close", "ended"}
        => ~HasPacket

\* A connection the server closed is given up, unless the thread died on an
\* exception that run() does not catch.
LeavesClosedPeer == (m_bConnected /\ gone) ~> (~m_bConnected \/ pc = "dead")

\* StopClientSocketThread's join returns, wherever the thread was.
StopJoins == ~m_bRunFlag ~> Over

\* When the user enters another address ("Server address changed."), the thread
\* does not stay connected to the old server.
FollowsServerAddress ==
    (m_bConnected /\ peer # m_szServerAddress)
        ~> (peer = m_szServerAddress \/ ~m_bConnected \/ Over)

\* --- Parts of the inductive invariant behind the theorems of ChronoLink_proofs

\* All that was sent on this connection and is not handled yet, behind what
\* earlier connections left.
Stream == m_arrBuffer \o wire
Old == Len(Stream) - 2 * (made - cut)

\* The i-th byte of this connection that is not handled.
ByteAt(i) == [conn |-> conns, packet |-> cut + ((i + 1) \div 2), last |-> i % 2 = 0]

\* While the socket is open the stream is whole packets behind old bytes, which
\* the first packet takes along.
StreamInv ==
    SocketOpen =>
        /\ conns > 0 /\ cut <= made /\ Old >= 0
        /\ cut > 0 => Old = 0
        /\ \A i \in 1..Old : Stream[i].conn < conns /\ ~Stream[i].last
        /\ \A i \in (Old + 1)..Len(Stream) : Stream[i] = ByteAt(i - Old)

\* Between connections only the beginning of a packet may be left.
LeftInv ==
    pc \in {"connect", "dial", "ended"} =>
        \A i \in DOMAIN m_arrBuffer : m_arrBuffer[i].conn <= conns /\ ~m_arrBuffer[i].last

\* The last packet handled is the last one cut on this connection.
LastInv ==
    IF cut > 0
      THEN /\ handled # <<>>
           /\ handled[Len(handled)].conn = conns
           /\ handled[Len(handled)].nth = cut
      ELSE handled # <<>> => handled[Len(handled)].conn < conns

LinkInv ==
    /\ TypeOK /\ StreamInv /\ LeftInv /\ LastInv
    /\ PacketsAsSent /\ NoPacketWaits

\* What is on the wire was sent on this connection: the old bytes are all in
\* the buffer.
WireNew == SocketOpen => Len(wire) <= 2 * (made - cut)

-----------------------------------------------------------------------------
(* The refinement                                                           *)

\* A thread that died leaves its connection as it stands.
Up == pc \notin {"connect", "dial", "ended"}

\* Bytes of an earlier connection are in front of the packets of this one, or
\* will be of those of the next.
Left == IF Up THEN Old > 0 ELSE m_arrBuffer # <<>>

\* The packets handled: one is whole if it has no bytes but its own.
Packets ==
    [k \in DOMAIN handled |->
        [conn |-> handled[k].conn, nth |-> handled[k].nth,
         whole |-> handled[k].bytes = Whole(handled[k].conn, handled[k].nth)]]

Packet == INSTANCE PacketStream WITH
    conn <- conns, up <- Up, sent <- made, got <- cut, left <- Left,
    delivered <- Packets

\* However TCP cuts the stream and the thread reconnects, the handlers see a
\* packet stream: packets are lost only with their connection and only from
\* its end, and only the first one of a connection is spoiled, if an earlier
\* connection ended within a packet and none was delivered since.
ImplementsStream == Packet!Spec
=============================================================================
