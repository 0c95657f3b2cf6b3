---------------------------- MODULE Bridge_proofs ----------------------------
(***************************************************************************)
(* Theorems about Bridge for any number of lists, series, calls, sessions  *)
(* and other senders: it implements WebFeed, so what is proved of the feed *)
(* holds of the whole, and what a session shows of a series has no hole.   *)
(***************************************************************************)
EXTENDS Bridge, WebFeed_proofs

\* Every step of the composition is a step of the feed or leaves it alone.
LEMMA BridgeStepIsFeedStep == [BridgeNext]_allVars => [Next]_vars
<1>1. Client \in Producers
  BY FeedAssumption
<1>2. CASE ClientThread
  BY <1>1, <1>2
     DEF ClientThread, BeginSeries, NextList, OfferList, SkipList, LeaveOutList,
         RankingThrows, PushList, Next, Producing
<1>3. CASE JoinClient
  BY <1>3 DEF JoinClient, Next, Controlling
<1>4. CASE WebThread
  BY <1>4 DEF WebThread, Next
<1>5. CASE OtherProducers
  BY <1>5 DEF OtherProducers, Next, Producing
<1>6. CASE UIThread
  BY <1>6 DEF UIThread, Next, Controlling
<1>7. CASE UNCHANGED allVars
  BY <1>7 DEF allVars
<1> QED BY <1>2, <1>3, <1>4, <1>5, <1>6, <1>7 DEF BridgeNext

\* The series of lists and the web thread together implement the feed: the
\* guarantees of WebFeed hold while lists are offered, skipped and left out.
THEOREM BridgeRefinesFeed == BridgeSpec => Spec
<1>1. BridgeInit => Init
  BY DEF BridgeInit
<1> QED BY <1>1, BridgeStepIsFeedStep, PTL DEF BridgeSpec, Spec

\* What the sinks receive while the client thread runs is still the channel of
\* FeedChannel: a session begins by forgetting what was pending, a pending message
\* goes out in order, once, on an open channel, or is lost.
THEOREM BridgeImplementsChannel == BridgeSpec => ImplementsChannel
BY BridgeRefinesFeed, FeedRefinesChannel, PTL

-----------------------------------------------------------------------------
(* What a step does to the messages of the client thread                    *)

Elements(q) == {q[i] : i \in DOMAIN q}

LEMMA AppendElements ==
    ASSUME NEW S, NEW q \in Seq(S), NEW m
    PROVE  Elements(Append(q, m)) = Elements(q) \cup {m}
<1>1. DOMAIN q = 1..Len(q) /\ Len(q) \in Nat
  OBVIOUS
<1>2. /\ DOMAIN Append(q, m) = 1..(Len(q) + 1)
      /\ \A i \in 1..Len(q) : Append(q, m)[i] = q[i]
      /\ Append(q, m)[Len(q) + 1] = m
  OBVIOUS
<1>3. 1..(Len(q) + 1) = (1..Len(q)) \cup {Len(q) + 1}
  BY <1>1
<1> HIDE DEF Elements
<1>4. ASSUME NEW x PROVE x \in Elements(Append(q, m)) <=> x \in Elements(q) \cup {m}
  <2>1. x \in Elements(Append(q, m)) <=> \E i \in 1..(Len(q) + 1) : x = Append(q, m)[i]
    BY <1>2 DEF Elements
  <2>2. x \in Elements(q) <=> \E i \in 1..Len(q) : x = q[i]
    BY <1>1 DEF Elements
  <2> QED BY <1>2, <1>3, <2>1, <2>2, Zenon
<1> QED BY <1>4

LEMMA TailElements ==
    ASSUME NEW S, NEW q \in Seq(S), q # <<>>
    PROVE  Elements(q) = Elements(Tail(q)) \cup {Head(q)}
<1>1. DOMAIN q = 1..Len(q) /\ Len(q) \in Nat /\ Len(q) >= 1 /\ Head(q) = q[1]
  OBVIOUS
<1>2. /\ DOMAIN Tail(q) = 1..(Len(q) - 1)
      /\ \A i \in 1..(Len(q) - 1) : Tail(q)[i] = q[i + 1]
  BY <1>1
<1>3. ASSUME NEW x PROVE x \in Elements(q) <=> x \in Elements(Tail(q)) \cup {Head(q)}
  <2>1. x \in Elements(q) <=> \E i \in 1..Len(q) : x = q[i]
    BY <1>1 DEF Elements
  <2>2. x \in Elements(Tail(q)) <=> \E i \in 1..(Len(q) - 1) : x = q[i + 1]
    BY <1>2 DEF Elements
  <2>3. ASSUME NEW i \in 1..Len(q)
        PROVE  i = 1 \/ (i - 1 \in 1..(Len(q) - 1) /\ (i - 1) + 1 = i)
    BY <1>1
  <2>4. ASSUME NEW i \in 1..(Len(q) - 1) PROVE i + 1 \in 1..Len(q)
    BY <1>1
  <2>5. 1 \in 1..Len(q)
    BY <1>1
  <2> QED BY <1>1, <2>1, <2>2, <2>3, <2>4, <2>5
<1> QED BY <1>3

\* A step of another thread than the client's.
Others == WebThread \/ OtherProducers \/ UIThread \/ JoinClient

\* A step that leaves sent, held and queue alone leaves the messages alone.
LEMMA SameMessages ==
    ASSUME UNCHANGED <<sent, held>>, pc' = "emit" <=> pc = "emit",
           Elements(queue)' = Elements(queue)
    PROVE  Emitted' = Emitted /\ Held' = Held /\ Queued' = Queued /\ Known' = Known
BY DEF Emitted, Held, Queued, Known, Elements

\* What the session promises of a step of the others.
Promise ==
    /\ Known' \subseteq Known
    /\ \/ Emitted' = Emitted
       \/ pc = "emit" /\ session' = session /\ Emitted' = Emitted \cup Held
    /\ \/ session' = session /\ (pc' \in Up => pc \in Up /\ Known \subseteq Known')
       \/ pc = "clear" /\ session' = session + 1
    /\ pc' = "open" => pc = "open" \/ session' = session + 1
    /\ connected' => connected \/ pc = "open"

LEMMA WebKeeps ==
    ASSUME TypeOK, ConnectReturns \/ PdfReadHangs \/ WebStep
    PROVE  Promise
<1> USE DEF Up, Looping
<1>1. CASE Dial \/ ConnectReturns \/ RunReturns \/ CloseSession
  <2>1. UNCHANGED <<sent, held, queue, session>> /\ (pc' = "emit" <=> pc = "emit")
    BY <1>1 DEF Dial, ConnectReturns, Connect, ConnectFails,
      ConnectThrows, RunReturns, CloseSession
  <2>2. Emitted' = Emitted /\ Known' = Known
    BY <2>1, SameMessages DEF Elements
  <2> QED BY <1>1, <2>1, <2>2
          DEF Promise, Dial, ConnectReturns, Connect, ConnectFails,
      ConnectThrows, RunReturns, CloseSession
<1>2. CASE \/ OpenSession \/ Subscribe \/ NoPdf \/ PdfReadHangs
           \/ Flushed \/ Heartbeat \/ Disconnect
  <2>1. /\ UNCHANGED <<sent, held, queue, session>> /\ (pc' = "emit" <=> pc = "emit")
        /\ pc' # "open" /\ (pc' \in Up => pc \in Up)
        /\ connected' => connected \/ pc = "open"
    BY <1>2 DEF OpenSession, Subscribe, NoPdf, PdfReadHangs, Flushed, Heartbeat,
                Disconnect, LoopHead
  <2>2. Emitted' = Emitted /\ Known' = Known
    BY <2>1, SameMessages DEF Elements
  <2> QED BY <2>1, <2>2 DEF Promise
<1>3. CASE ClearBefore \/ ClearAfter
  <2>1. UNCHANGED <<sent, held, connected>> /\ pc # "emit" /\ pc' # "emit" /\ queue' = <<>>
    BY <1>3 DEF ClearBefore, ClearAfter, ClearSendQueue
  <2>2. Emitted' = Emitted /\ Held' = {} /\ Queued' = {}
    BY <2>1 DEF Emitted, Held, Queued
  <2>3. Known' \subseteq Known
    BY <2>2 DEF Known
  <2> QED BY <1>3, <2>1, <2>2, <2>3 DEF Promise, ClearBefore, ClearAfter
<1>4. CASE SendPdf
  <2> DEFINE m == [by |-> Web, n |-> calls[Web] + 1, seen |-> session, pushed |-> session]
  <2>1. /\ UNCHANGED <<sent, held, session, connected>> /\ pc = "pdf" /\ pc' = "flush"
        /\ queue' = queue \/ queue' = Append(queue, m)
    BY <1>4 DEF SendPdf, PushLocked
  <2>2. m.by # Client
    BY FeedAssumption
  <2>3. Elements(queue)' = Elements(queue) \/ Elements(queue)' = Elements(queue) \cup {m}
    BY <2>1, AppendElements DEF TypeOK
  <2> HIDE DEF m
  <2>4. Queued' = Queued
    BY <2>2, <2>3 DEF Queued, Elements
  <2>5. Emitted' = Emitted /\ Held' = Held
    BY <2>1 DEF Emitted, Held
  <2> QED BY <2>1, <2>4, <2>5 DEF Promise, Known
<1>5. CASE Pop
  <2>1. /\ UNCHANGED <<sent, session, connected>> /\ pc = "flush" /\ pc' = "emit"
        /\ queue # <<>> /\ held' = Head(queue) /\ queue' = Tail(queue)
    BY <1>5 DEF Pop, NothingToSend, TypeOK
  <2>2. Elements(queue) = Elements(queue') \cup {held'}
    BY <2>1, TailElements DEF TypeOK
  <2>3. Emitted' = Emitted /\ Held = {}
    BY <2>1 DEF Emitted, Held
  <2>4. Queued = Queued' \cup Held'
    BY <2>1, <2>2 DEF Queued, Held, Elements
  <2> QED BY <2>1, <2>3, <2>4 DEF Promise, Known
<1>6. CASE Emit
  <2>1. PICK e \in EventOf(discipline) :
          sent' = Append(sent, [msg |-> held, session |-> session, channel |-> e])
    BY <1>6 DEF Emit
  <2>2. UNCHANGED <<queue, session, connected>> /\ pc = "emit" /\ pc' = "flush"
    BY <1>6 DEF Emit
  <2>3. Elements(sent)' =
          Elements(sent) \cup {[msg |-> held, session |-> session, channel |-> e]}
    BY <2>1, AppendElements DEF TypeOK
  <2>4. Emitted' = Emitted \cup Held
    <3> DEFINE r == [msg |-> held, session |-> session, channel |-> e]
    <3>1. r.msg = held
      OBVIOUS
    <3>2. Elements(sent)' = Elements(sent) \cup {r}
      BY <2>3
    <3> HIDE DEF r
    <3>3. Emitted = {m \in {x.msg : x \in Elements(sent)} : m.by = Client}
      BY DEF Emitted, Elements
    <3>4. Emitted' = {m \in {x.msg : x \in Elements(sent)'} : m.by = Client}
      BY DEF Emitted, Elements
    <3> QED BY <2>2, <3>1, <3>2, <3>3, <3>4 DEF Held
  <2>5. Queued' = Queued /\ Held' = {}
    BY <2>2 DEF Queued, Held
  <2> QED BY <2>2, <2>4, <2>5 DEF Promise, Known
<1>7. CASE EmitNothing
  BY <1>7, BridgeAssumption DEF EmitNothing, TypeOK
<1>8. CASE EmitFails
  <2>1. UNCHANGED <<sent, queue, session, connected>> /\ pc' = "close"
    BY <1>8 DEF EmitFails
  <2>2. Emitted' = Emitted /\ Queued' = Queued /\ Held' = {}
    BY <2>1 DEF Emitted, Queued, Held
  <2> QED BY <2>1, <2>2 DEF Promise, Known
<1> QED BY <1>1, <1>2, <1>3, <1>4, <1>5, <1>6, <1>7, <1>8 DEF WebStep

\* It adds no message of the client thread; while the session lasts it takes
\* none away, and emitting moves the message in hand.
LEMMA OthersStep ==
    ASSUME TypeOK, CallIsLast, Others
    PROVE  /\ UNCHANGED bridgeVars
           /\ call'[Client] = call[Client] /\ calls'[Client] = calls[Client]
           /\ Promise
<1>1. CASE WebThread
  <2>1. UNCHANGED bridgeVars /\ Promise
    BY <1>1, WebKeeps DEF WebThread
  <2>2. call' = call
    BY <1>1 DEF WebThread, WebStep, prodVars, Dial, ConnectReturns, Connect, ConnectFails,
      ConnectThrows, PdfReadHangs,
       ClearBefore, OpenSession, Subscribe, SendPdf, NoPdf, Pop, Flushed, Emit,
       EmitNothing, EmitFails, Heartbeat, Disconnect, CloseSession, ClearAfter, RunReturns
  <2>3. calls' = calls \/ calls' = [calls EXCEPT ![Web] = @ + 1]
    BY <1>1 DEF WebThread, WebStep, prodVars, Dial, ConnectReturns, Connect, ConnectFails,
      ConnectThrows, PdfReadHangs,
       ClearBefore, OpenSession, Subscribe, SendPdf, NoPdf, Pop, Flushed, Emit,
       EmitNothing, EmitFails, Heartbeat, Disconnect, CloseSession, ClearAfter, RunReturns
  <2>4. calls'[Client] = calls[Client]
    BY <2>3, FeedAssumption DEF TypeOK, Senders
  <2> QED BY <2>1, <2>2, <2>4
<1>2. CASE OtherProducers
  <2>1. PICK p \in Producers \ {Client} : CheckConnected(p) \/ Push(p)
    BY <1>2 DEF OtherProducers
  <2>2. /\ UNCHANGED bridgeVars
        /\ UNCHANGED <<sent, held, session, connected, pc>>
    BY <1>2, <2>1 DEF OtherProducers, CheckConnected, Push, webVars
  <2>3. call'[Client] = call[Client] /\ calls'[Client] = calls[Client]
    BY <2>1, FeedAssumption DEF CheckConnected, Push, TypeOK, Senders
  <2>4. Queued' = Queued
    <3>1. CASE CheckConnected(p)
      BY <3>1 DEF CheckConnected, Queued
    <3>2. CASE Push(p)
      <4> DEFINE m == [by |-> call[p].by, n |-> call[p].n, seen |-> call[p].seen,
                       pushed |-> session]
      <4>1. queue' = queue \/ queue' = Append(queue, m)
        BY <3>2 DEF Push, PushLocked
      <4>2. m.by # Client
        BY <3>2 DEF Push, CallIsLast
      <4>3. \/ Elements(queue)' = Elements(queue)
            \/ Elements(queue)' = Elements(queue) \cup {m}
        BY <4>1, AppendElements DEF TypeOK
      <4> HIDE DEF m
      <4> QED BY <4>2, <4>3 DEF Queued, Elements
    <3> QED BY <2>1, <3>1, <3>2
  <2>5. Emitted' = Emitted /\ Held' = Held
    BY <2>2 DEF Emitted, Held
  <2> QED BY <2>2, <2>3, <2>4, <2>5 DEF Promise, Known
<1>3. CASE UIThread \/ JoinClient
  <2>1. /\ UNCHANGED bridgeVars
        /\ UNCHANGED <<prodVars, sent, held, session, connected, queue>>
        /\ pc' = pc \/ (pc = "none" /\ pc' = "connect")
    BY <1>3 DEF UIThread, JoinClient, StartThreads, ClickStart, FireAutoStart,
       ChangeDiscipline, StopClientSocketThread, StopWebSocketThread, JoinWeb,
       prodVars, webVars
  <2>2. Emitted' = Emitted /\ Known' = Known
    <3>1. UNCHANGED <<sent, held>> /\ (pc' = "emit" <=> pc = "emit")
          /\ Elements(queue)' = Elements(queue)
      BY <2>1 DEF Elements
    <3> QED BY <3>1, SameMessages
  <2> QED BY <2>1, <2>2 DEF Promise, Up, Looping, prodVars
<1> QED BY <1>1, <1>2, <1>3 DEF Others

-----------------------------------------------------------------------------
(* The invariant                                                            *)

\* What is known are messages of the client thread, numbered from 1.
LEMMA KnownTypes ==
    ASSUME TypeOK
    PROVE  /\ Known \subseteq Message /\ Emitted \subseteq Known /\ Held \subseteq Known
           /\ Calling \subseteq Offer
           /\ \A m \in Known : m.n \in Nat /\ m.n >= 1 /\ m.seen \in Nat /\ m.pushed \in Nat
           /\ \A m \in Calling : m.n \in Nat /\ m.n >= 1 /\ m.seen \in Nat
           /\ session \in Nat /\ calls[Client] \in Nat
<1>1. Emitted \subseteq Message
  BY SentMessages DEF Emitted
<1>2. Queued \subseteq Message
  BY DEF Queued, TypeOK
<1>3. Held \subseteq Message
  BY DEF Held, TypeOK
<1>4. Known \subseteq Message
  BY <1>1, <1>2, <1>3 DEF Known
<1>5. Calling \subseteq Offer
  BY FeedAssumption DEF Calling, TypeOK
<1>6. \A m \in Message :
        m.n \in 1..MaxCalls /\ m.seen \in 0..MaxSessions /\ m.pushed \in 0..MaxSessions
  BY DEF Message
<1>7. \A m \in Offer : m.n \in 1..MaxCalls /\ m.seen \in 0..MaxSessions
  BY DEF Offer
<1>8. session \in 0..MaxSessions /\ calls[Client] \in 0..MaxCalls
  BY FeedAssumption DEF TypeOK, Senders
<1>9. Emitted \subseteq Known /\ Held \subseteq Known
  BY DEF Known
<1> QED BY <1>4, <1>5, <1>6, <1>7, <1>8, <1>9, FeedAssumption

\* What is known comes from a call that is over.
LEMMA KnownFinished ==
    ASSUME FeedInv
    PROVE  \A m \in Known : m.n <= Finished(Client)
BY DEF FeedInv, PushedFinished, Known, Emitted, Held, Queued

\* Emitted, in hand, queued: in this order of the calls.
LEMMA HeldBetween ==
    ASSUME FeedInv, NEW h \in Held
    PROVE  /\ \A m \in Emitted : m.n < h.n
           /\ \A m \in Queued : h.n < m.n
           /\ pc = "emit" /\ h.pushed = session
BY DEF FeedInv, OrderedThroughout, InCallOrder, FreshInSession, Held, Emitted, Queued,
       InSession, Looping

\* The offers are lists, and those that were handed over have a number.
LEMMA OfferTypes ==
    ASSUME BridgeTypeOK, NumbersRise
    PROVE  /\ offers \in Seq(List) /\ Len(offers) \in Nat /\ DOMAIN offers = 1..Len(offers)
           /\ \A i \in DOMAIN offers :
                 /\ offers[i] \in List
                 /\ offers[i].n \in Nat
                 /\ offers[i].fate \in {"kept", "dropped", "pending"} => offers[i].n # 0
<1>1. offers \in Seq(List)
  BY DEF BridgeTypeOK
<1>2. \A i \in DOMAIN offers : offers[i] \in List
  BY <1>1
<1>3. \A x \in List : x.n \in Nat
  BY FeedAssumption DEF List
<1>4. \A i \in DOMAIN offers :
        offers[i].fate \in {"kept", "dropped", "pending"} => offers[i].n # 0
  BY DEF NumbersRise
<1> QED BY <1>1, <1>2, <1>3, <1>4

\* The steps of the other threads keep the invariant.
LEMMA OthersKeep ==
    ASSUME FeedInv, BridgeInv, TypeOK', Others
    PROVE  BridgeInv'
<1> USE DEF BridgeInv
<1>1. TypeOK /\ CallIsLast
  BY DEF FeedInv
<1>2. /\ UNCHANGED <<todo, clientRuns, offers>>
      /\ call'[Client] = call[Client] /\ calls'[Client] = calls[Client]
      /\ Promise
  BY <1>1, OthersStep DEF bridgeVars
<1>3. /\ Known' \subseteq Known /\ Calling' = Calling
      /\ session \in Nat /\ (session' = session \/ session' = session + 1)
  BY <1>1, <1>2, KnownTypes DEF Promise, Calling
<1>4. /\ \A m \in Known : m.seen \in Nat /\ m.pushed \in Nat
      /\ \A m \in Known : m.seen <= session /\ m.pushed <= session
      /\ \A m \in Calling : m.seen \in Nat /\ m.seen <= session
  BY <1>1, <1>3, KnownTypes DEF SeenFirst
<1>5. BridgeTypeOK'
  BY <1>2 DEF BridgeTypeOK, List
<1>6. NumbersRise'
  BY <1>2 DEF NumbersRise
<1>7. SeenFirst'
  BY <1>3, <1>4 DEF SeenFirst
<1>8. OpenUnseen'
  BY <1>2, <1>3, <1>4 DEF OpenUnseen, Promise
<1>9. SkippedWhileDown'
  BY <1>2, <1>3, <1>4 DEF SkippedWhileDown, Promise
<1>10. SkippedParts'
  BY <1>2, <1>3 DEF SkippedParts
<1>11. KeptIsThere'
  BY <1>2, <1>3, <1>4 DEF KeptIsThere, Promise, Up, Looping
<1>12. KeptBetween'
  <2>1. CASE Emitted' = Emitted
    BY <2>1, <1>2 DEF KeptBetween
  <2>2. CASE pc = "emit" /\ session' = session /\ Emitted' = Emitted \cup Held
    <3> SUFFICES ASSUME NEW i \in DOMAIN offers, NEW j \in DOMAIN offers,
                        NEW k \in DOMAIN offers,
                        NEW l \in Emitted \cup Held, NEW m \in Emitted \cup Held,
                        i < j, j < k, offers[j].fate = "kept",
                        l.n = offers[i].n, m.n = offers[k].n, l.pushed = m.pushed
                 PROVE  \E x \in Emitted \cup Held : x.n = offers[j].n /\ x.pushed = m.pushed
      BY <1>2, <2>2 DEF KeptBetween
    <3>1. /\ offers[i].n < offers[j].n /\ offers[j].n < offers[k].n
          /\ l.n < m.n
      <4>1. l.n >= 1 /\ m.n >= 1 /\ l.n \in Nat /\ m.n \in Nat
        BY <1>1, KnownTypes
      <4>2. offers[j].n # 0 /\ offers[j].n \in Nat
        BY OfferTypes
      <4>3. i < j /\ j < k /\ offers[i].n # 0 /\ offers[k].n # 0
        BY <4>1
      <4>4. offers[i].n < offers[j].n /\ offers[j].n < offers[k].n
        BY <4>2, <4>3 DEF NumbersRise
      <4> QED BY <4>1, <4>2, <4>4
    <3>2. CASE m \in Held
      <4>1. l \in Emitted /\ m.pushed = session
        BY <3>1, <3>2, HeldBetween, KnownTypes, <1>1 DEF Held
      <4>2. PICK x \in Known : x.n = offers[j].n /\ x.pushed = session
        BY <2>2, <4>1, <1>1, KnownTypes DEF KeptIsThere, Up, Looping
      <4>3. x \notin Queued
        <5> SUFFICES ASSUME x \in Queued PROVE FALSE
          OBVIOUS
        <5>1. m.n < x.n
          BY <3>2, HeldBetween
        <5> QED BY <5>1, <3>1, <4>2, KnownTypes, <1>1
      <4> QED BY <4>1, <4>2, <4>3 DEF Known
    <3>3. CASE m \in Emitted /\ l \in Held
      BY <3>1, <3>3, HeldBetween, KnownTypes, <1>1
    <3>4. CASE m \in Emitted /\ l \in Emitted
      BY <3>4 DEF KeptBetween
    <3> QED BY <3>2, <3>3, <3>4
  <2> QED BY <1>2, <2>1, <2>2 DEF Promise
<1> QED BY <1>5, <1>6, <1>7, <1>8, <1>9, <1>10, <1>11, <1>12

\* A list more, while the messages known stay the same.
LEMMA ListMore ==
    ASSUME FeedInv, BridgeInv, TypeOK', call[Client] = NoMessage,
           NEW x \in List, offers' = Append(offers, x),
           \/ /\ UNCHANGED vars
              /\ x.n = 0
              /\ x.fate = "unbuilt" \/ (x.fate = "skipped" /\ ~connected)
           \/ /\ CheckConnected(Client)
              /\ x.n = calls[Client] + 1
              /\ x.fate = "pending",
           todo' \in 0..Lists, clientRuns' \in BOOLEAN
    PROVE  BridgeInv'
<1> USE DEF BridgeInv
<1> DEFINE L == Len(offers)
<1>1. TypeOK /\ Client \in Producers /\ Client \in Senders
  BY FeedAssumption DEF FeedInv, Senders
<1>2. /\ L \in Nat /\ DOMAIN offers = 1..L
      /\ \A i \in 1..L : offers[i].n \in Nat
  BY OfferTypes
<1>3. /\ offers' \in Seq(List) /\ Len(offers') = L + 1 /\ DOMAIN offers' = 1..(L + 1)
      /\ \A i \in 1..L : offers'[i] = offers[i]
      /\ offers'[L + 1] = x
  BY OfferTypes
<1> HIDE DEF L
<1>4. UNCHANGED <<sent, held, queue, pc, session, connected>>
  BY DEF CheckConnected, vars, webVars
<1>5. Emitted' = Emitted /\ Known' = Known
  BY <1>4 DEF Emitted, Held, Queued, Known
<1>6. /\ \A m \in Known :
            /\ m.n \in Nat /\ m.n >= 1 /\ m.n <= calls[Client]
            /\ m.seen \in Nat /\ m.pushed \in Nat
            /\ m.seen <= session /\ m.pushed <= session
      /\ session \in Nat /\ calls[Client] \in Nat
  <2>1. Finished(Client) = calls[Client]
    BY <1>1 DEF Finished
  <2> QED BY <2>1, <1>1, KnownTypes, KnownFinished DEF SeenFirst
<1>7. \/ /\ x.n = 0 /\ calls'[Client] = calls[Client] /\ call'[Client] = NoMessage
         /\ x.fate = "unbuilt" \/ (x.fate = "skipped" /\ ~connected)
      \/ /\ x.n = calls[Client] + 1 /\ calls'[Client] = calls[Client] + 1
         /\ x.fate = "pending" /\ connected /\ call'[Client] # NoMessage
         /\ call'[Client] = [by |-> Client, n |-> calls[Client] + 1, seen |-> session]
  <2>1. CASE UNCHANGED vars /\ x.n = 0
    BY <2>1, <1>6 DEF vars, prodVars
  <2>2. CASE CheckConnected(Client) /\ x.n = calls[Client] + 1
    <3>1. calls'[Client] = calls[Client] + 1
      BY <2>2, <1>1 DEF CheckConnected, TypeOK
    <3>2. call'[Client] = [by |-> Client, n |-> calls[Client] + 1, seen |-> session]
      BY <2>2, <1>1 DEF CheckConnected, TypeOK
    <3>3. call'[Client] # NoMessage
      <4>1. calls[Client] + 1 \in 1..MaxCalls /\ session \in 0..MaxSessions
        BY <2>2, <1>1, <1>6, FeedAssumption DEF CheckConnected, TypeOK
      <4>2. call'[Client] \in Offer
        BY <3>2, <4>1, <1>1 DEF Offer
      <4> QED BY <4>2, NoMessageIsNone
    <3> QED BY <2>2, <3>1, <3>2, <3>3, <1>6 DEF CheckConnected
  <2> QED BY <2>1, <2>2
<1>8. \A i \in 1..L : offers[i].n <= calls[Client] /\ offers[i].fate # "pending"
  BY <1>2 DEF NumbersRise, BridgeTypeOK
<1>9. BridgeTypeOK'
  BY <1>3, <1>7, <1>8, <1>2 DEF BridgeTypeOK
<1>10. NumbersRise'
  BY <1>2, <1>3, <1>6, <1>7, <1>8 DEF NumbersRise
<1>11. SeenFirst' /\ OpenUnseen'
  <2>1. Calling' = {} \/ \A m \in Calling' : m.seen = session
    BY <1>7 DEF Calling
  <2>2. pc # "open" \/ ~connected
    BY DEF FeedInv, ConnectedInSession, InSession, Looping
  <2>3. Calling' = {} \/ connected
    BY <1>7 DEF Calling
  <2> QED BY <1>4, <1>5, <1>6, <2>1, <2>2, <2>3 DEF SeenFirst, OpenUnseen
<1>12. SkippedWhileDown'
  <2> SUFFICES ASSUME NEW i \in 1..(L + 1), NEW j \in 1..(L + 1), NEW m \in Known,
                      i < j, offers'[j].fate = "skipped", m.n = offers'[i].n,
                      m.seen = session
               PROVE  ~connected /\ pc # "open"
    BY <1>3, <1>4, <1>5 DEF SkippedWhileDown
  <2>1. i \in 1..L /\ offers'[i] = offers[i]
    BY <1>2, <1>3
  <2>2. CASE j \in 1..L
    BY <2>1, <2>2, <1>2, <1>3 DEF SkippedWhileDown
  <2>3. CASE j = L + 1
    <3>1. ~connected
      BY <2>3, <1>3, <1>7
    <3>2. pc # "open"
      BY <1>6 DEF OpenUnseen
    <3> QED BY <3>1, <3>2
  <2> QED BY <2>2, <2>3, <1>2
<1>13. SkippedParts'
  <2> SUFFICES ASSUME NEW i \in DOMAIN offers', NEW j \in DOMAIN offers',
                      NEW k \in DOMAIN offers',
                      NEW l \in Known', NEW m \in Known' \cup Calling',
                      i < j, j < k, offers'[j].fate = "skipped",
                      l.n = offers'[i].n, m.n = offers'[k].n
               PROVE  l.seen < m.seen
    BY DEF SkippedParts
  <2>1. /\ i \in 1..L /\ j \in 1..L
        /\ offers'[i] = offers[i] /\ offers'[j] = offers[j]
        /\ l \in Known
    BY <1>2, <1>3, <1>5
  <2>2. CASE m \in Known'
    <3>1. m \in Known /\ m \in Known \cup Calling
      BY <2>2, <1>5
    <3>2. k # L + 1
      BY <3>1, <1>3, <1>6, <1>7
    <3>3. k \in 1..L /\ offers'[k] = offers[k]
      BY <3>2, <1>2, <1>3
    <3>4. offers[j].fate = "skipped" /\ l.n = offers[i].n /\ m.n = offers[k].n
      BY <2>1, <3>3
    <3> QED BY <2>1, <3>1, <3>3, <3>4, <1>2 DEF SkippedParts
  <2>3. CASE m \in Calling'
    <3>1. m.seen = session /\ connected
      BY <2>3, <1>7 DEF Calling
    <3>2. l.seen # session
      BY <2>1, <3>1, <1>2 DEF SkippedWhileDown
    <3> QED BY <2>1, <3>1, <3>2, <1>6
  <2> QED BY <2>2, <2>3
<1>14. KeptIsThere'
  <2> SUFFICES ASSUME pc \in Up, NEW i \in 1..(L + 1), NEW j \in 1..(L + 1), NEW l \in Known,
                      i < j, offers'[j].fate = "kept", l.n = offers'[i].n,
                      l.pushed = session
               PROVE  \E m \in Known : m.n = offers'[j].n /\ m.pushed = session
    BY <1>3, <1>4, <1>5 DEF KeptIsThere
  <2>1. j \in 1..L
    BY <1>2, <1>3, <1>7
  <2>2. i \in 1..L /\ offers'[i] = offers[i] /\ offers'[j] = offers[j]
    BY <2>1, <1>2, <1>3
  <2> QED BY <2>1, <2>2, <1>2 DEF KeptIsThere
<1>15. KeptBetween'
  <2> SUFFICES ASSUME NEW i \in DOMAIN offers', NEW j \in DOMAIN offers',
                      NEW k \in DOMAIN offers', NEW l \in Emitted', NEW m \in Emitted',
                      i < j, j < k, offers'[j].fate = "kept",
                      l.n = offers'[i].n, m.n = offers'[k].n, l.pushed = m.pushed
               PROVE  \E x1 \in Emitted' : x1.n = offers'[j].n /\ x1.pushed = m.pushed
    BY DEF KeptBetween
  <2>1. l \in Emitted /\ m \in Emitted /\ m \in Known
    BY <1>5 DEF Known
  <2>2. k # L + 1
    BY <2>1, <1>3, <1>6, <1>7
  <2>3. /\ i \in DOMAIN offers /\ j \in DOMAIN offers /\ k \in DOMAIN offers
        /\ offers'[i] = offers[i] /\ offers'[j] = offers[j] /\ offers'[k] = offers[k]
    BY <2>2, <1>2, <1>3
  <2>4. \E x1 \in Emitted : x1.n = offers[j].n /\ x1.pushed = m.pushed
    BY <2>1, <2>3 DEF KeptBetween
  <2> QED BY <2>3, <2>4, <1>5
<1> QED BY <1>9, <1>10, <1>11, <1>12, <1>13, <1>14, <1>15

\* The push of the last list: its message is known now, if the feed is started.
LEMMA PushKeeps ==
    ASSUME FeedInv, BridgeInv, TypeOK', PushList
    PROVE  BridgeInv'
<1> USE DEF BridgeInv
<1> DEFINE L == Len(offers)
           c == call[Client]
           new == [by |-> Client, n |-> c.n, seen |-> c.seen, pushed |-> session]
           f == IF sendFlag THEN "kept" ELSE "dropped"
<1>1. /\ TypeOK /\ Client \in Producers /\ Client \in Senders
      /\ c # NoMessage /\ c.by = Client /\ c.n = calls[Client]
      /\ Calling = {c}
  BY FeedAssumption DEF FeedInv, CallIsLast, Senders, PushList, Push, Calling
<1>2. /\ L \in Nat /\ DOMAIN offers = 1..L /\ L >= 1
      /\ offers[L].n = c.n
      /\ \A i \in 1..L : offers[i] \in List /\ offers[i].n \in Nat
  <2>1. offers # <<>> /\ offers[L].n = c.n
    BY <1>1 DEF NumbersRise
  <2> QED BY <2>1, OfferTypes
<1>3. /\ UNCHANGED <<sent, held, pc, session, connected, calls, todo, clientRuns>>
      /\ offers' = [offers EXCEPT ![L].fate = f]
  BY DEF PushList, Push, webVars
<1>4. call'[Client] = NoMessage /\ Calling' = {}
  BY <1>1 DEF PushList, Push, TypeOK, Calling
<1>5. \/ sendFlag /\ queue' = Append(queue, new)
      \/ ~sendFlag /\ queue' = queue
  BY <1>1 DEF PushList, Push, PushLocked
<1>6. new.by = Client /\ new.n = c.n /\ new.seen = c.seen /\ new.pushed = session
  OBVIOUS
<1>7. f = IF sendFlag THEN "kept" ELSE "dropped"
  OBVIOUS
<1> HIDE DEF L, c, new, f
<1>8. /\ Emitted' = Emitted
      /\ Known' = IF sendFlag THEN Known \cup {new} ELSE Known
  <2>1. Emitted' = Emitted /\ Held' = Held
    BY <1>3 DEF Emitted, Held
  <2>2. CASE sendFlag
    <3>1. Elements(queue)' = Elements(queue) \cup {new}
      BY <2>2, <1>1, <1>5, AppendElements DEF TypeOK
    <3>2. Queued' = Queued \cup {new}
      BY <3>1, <1>6 DEF Queued, Elements
    <3> QED BY <2>1, <2>2, <3>2 DEF Known
  <2>3. CASE ~sendFlag
    BY <2>1, <2>3, <1>5 DEF Known, Queued
  <2> QED BY <2>1, <2>2, <2>3
<1>9. /\ offers' \in Seq(List) /\ Len(offers') = L /\ DOMAIN offers' = 1..L
      /\ \A i \in 1..L : offers'[i].n = offers[i].n
      /\ \A i \in 1..L : i # L => offers'[i].fate = offers[i].fate
      /\ offers'[L].fate = f /\ offers[L].fate = "pending"
  <2> DEFINE r == [offers[L] EXCEPT !.fate = f]
  <2>1. offers[L].fate = "pending"
    BY <1>1, <1>2 DEF BridgeTypeOK, c, L
  <2>2. r \in List /\ r.fate = f /\ r.n = offers[L].n
    BY <1>2, <1>7 DEF List, Fates
  <2>3. offers' = [offers EXCEPT ![L] = r]
    BY <1>3
  <2> HIDE DEF r
  <2> QED BY <1>2, <2>1, <2>2, <2>3, OfferTypes
<1>10. /\ \A m \in Known : m.n \in Nat /\ m.n >= 1 /\ m.seen \in Nat /\ m.pushed \in Nat
                         /\ m.seen <= m.pushed /\ m.pushed <= session
       /\ c.n \in Nat /\ c.n >= 1 /\ c.seen \in Nat /\ c.seen <= session
       /\ session \in Nat /\ calls[Client] \in Nat
  BY <1>1, KnownTypes DEF SeenFirst
\* Only the last list has the number of the message that is pushed.
<1>11. \A i \in 1..L : offers[i].n = c.n => i = L
  <2>1. ASSUME NEW i \in 1..L, offers[i].n = c.n, i # L PROVE FALSE
    <3>1. i < L /\ offers[i].n # 0 /\ offers[L].n # 0
      BY <2>1, <1>2, <1>10
    <3>2. offers[i].n < offers[L].n
      BY <3>1, <1>2 DEF NumbersRise
    <3> QED BY <3>2, <2>1, <1>2, <1>10
  <2> QED BY <2>1
<1>12. BridgeTypeOK'
  <2>1. \A i \in 1..L : offers[i].fate = "pending" <=> i = L
    BY <1>1, <1>2 DEF BridgeTypeOK, c, L
  <2> QED BY <1>2, <1>3, <1>4, <1>7, <1>9, <2>1 DEF BridgeTypeOK
<1>13. NumbersRise'
  <2>1. \A i \in 1..L :
          /\ offers[i].n <= calls[Client]
          /\ offers[i].n = 0 <=> offers[i].fate \in {"unbuilt", "skipped"}
    BY <1>2 DEF NumbersRise
  <2>2. \A i, j \in 1..L :
          i < j /\ offers[i].n # 0 /\ offers[j].n # 0 => offers[i].n < offers[j].n
    BY <1>2 DEF NumbersRise
  <2>3. \A i \in 1..L : offers'[i].n = 0 <=> offers'[i].fate \in {"unbuilt", "skipped"}
    <3>1. f \notin {"unbuilt", "skipped"} /\ offers[L].n # 0
      BY <1>2, <1>7, <1>10
    <3>2. ASSUME NEW i \in 1..L
          PROVE  offers'[i].n = 0 <=> offers'[i].fate \in {"unbuilt", "skipped"}
      <4>1. CASE i = L
        BY <3>1, <4>1, <1>2, <1>9
      <4>2. CASE i # L
        <5>1. offers'[i].n = offers[i].n /\ offers'[i].fate = offers[i].fate
          BY <4>2, <1>9
        <5>2. offers[i].n = 0 <=> offers[i].fate \in {"unbuilt", "skipped"}
          BY <2>1
        <5> QED BY <5>1, <5>2
      <4> QED BY <4>1, <4>2
    <3> QED BY <3>2
  <2> QED BY <1>3, <1>4, <1>9, <2>1, <2>2, <2>3 DEF NumbersRise
<1>14. SeenFirst' /\ OpenUnseen'
  <2>1. pc = "open" => c.seen < session
    BY <1>1 DEF OpenUnseen
  <2>2. SeenFirst'
    BY <1>3, <1>4, <1>6, <1>8, <1>10 DEF SeenFirst
  <2>3. OpenUnseen'
    BY <1>3, <1>4, <1>6, <1>8, <2>1 DEF OpenUnseen
  <2> QED BY <2>2, <2>3
<1>15. SkippedWhileDown'
  <2> SUFFICES ASSUME NEW i \in DOMAIN offers', NEW j \in DOMAIN offers', NEW m \in Known',
                      i < j, offers'[j].fate = "skipped", m.n = offers'[i].n,
                      m.seen = session
               PROVE  ~connected /\ pc # "open"
    BY <1>3 DEF SkippedWhileDown
  <2>1. i \in 1..L /\ j \in 1..L /\ j # L /\ i # L
    BY <1>2, <1>7, <1>9
  <2>2. m # new
    BY <2>1, <1>6, <1>9, <1>11
  <2> QED BY <2>1, <2>2, <1>2, <1>8, <1>9 DEF SkippedWhileDown
<1>16. SkippedParts'
  <2> SUFFICES ASSUME NEW i \in DOMAIN offers', NEW j \in DOMAIN offers',
                      NEW k \in DOMAIN offers',
                      NEW l \in Known', NEW m \in Known' \cup Calling',
                      i < j, j < k, offers'[j].fate = "skipped",
                      l.n = offers'[i].n, m.n = offers'[k].n
               PROVE  l.seen < m.seen
    BY DEF SkippedParts
  <2>1. /\ i \in DOMAIN offers /\ j \in DOMAIN offers /\ k \in DOMAIN offers
        /\ i # L /\ offers[j].fate = "skipped"
        /\ l.n = offers[i].n /\ m.n = offers[k].n
    BY <1>2, <1>7, <1>9
  <2>2. l \in Known
    BY <2>1, <1>2, <1>6, <1>8, <1>11
  <2>3. CASE m \in Known
    BY <2>1, <2>2, <2>3 DEF SkippedParts
  <2>4. CASE m = new
    <3>1. c \in Known \cup Calling /\ c.n = offers[k].n /\ c.seen = m.seen
      BY <2>1, <2>4, <1>1, <1>6
    <3> QED BY <2>1, <2>2, <3>1 DEF SkippedParts
  <2> QED BY <2>3, <2>4, <1>4, <1>8
<1>17. KeptIsThere'
  <2> SUFFICES ASSUME pc \in Up, NEW i \in DOMAIN offers', NEW j \in DOMAIN offers',
                      NEW l \in Known',
                      i < j, offers'[j].fate = "kept", l.n = offers'[i].n,
                      l.pushed = session
               PROVE  \E m \in Known' : m.n = offers'[j].n /\ m.pushed = session
    BY <1>3 DEF KeptIsThere
  <2>1. /\ i \in DOMAIN offers /\ j \in DOMAIN offers /\ i # L
        /\ l.n = offers[i].n /\ offers'[j].n = offers[j].n
    BY <1>2, <1>9
  <2>2. l \in Known
    BY <2>1, <1>2, <1>6, <1>8, <1>11
  <2>3. CASE j = L
    <3>1. sendFlag
      BY <2>3, <1>7, <1>9
    <3> QED BY <2>1, <2>3, <3>1, <1>2, <1>6, <1>8
  <2>4. CASE j # L
    <3>1. offers[j].fate = "kept"
      BY <2>1, <2>4, <1>2, <1>9
    <3>2. \E m \in Known : m.n = offers[j].n /\ m.pushed = session
      BY <2>1, <2>2, <3>1 DEF KeptIsThere
    <3> QED BY <2>1, <3>2, <1>8
  <2> QED BY <2>3, <2>4
<1>18. KeptBetween'
  <2> SUFFICES ASSUME NEW i \in DOMAIN offers', NEW j \in DOMAIN offers',
                      NEW k \in DOMAIN offers', NEW l \in Emitted', NEW m \in Emitted',
                      i < j, j < k, offers'[j].fate = "kept",
                      l.n = offers'[i].n, m.n = offers'[k].n, l.pushed = m.pushed
               PROVE  \E x \in Emitted' : x.n = offers'[j].n /\ x.pushed = m.pushed
    BY DEF KeptBetween
  <2>1. /\ i \in DOMAIN offers /\ j \in DOMAIN offers /\ k \in DOMAIN offers
        /\ offers[j].fate = "kept"
        /\ l.n = offers[i].n /\ m.n = offers[k].n /\ offers'[j].n = offers[j].n
    BY <1>2, <1>9
  <2>2. \E x \in Emitted : x.n = offers[j].n /\ x.pushed = m.pushed
    BY <2>1, <1>8 DEF KeptBetween
  <2> QED BY <2>1, <2>2, <1>8
<1> QED BY <1>12, <1>13, <1>14, <1>15, <1>16, <1>17, <1>18

-----------------------------------------------------------------------------
LEMMA BridgeInitInv == BridgeInit => BridgeInv
<1> SUFFICES ASSUME BridgeInit PROVE BridgeInv
  OBVIOUS
<1>1. TypeOK
  BY InitTypeOK DEF BridgeInit
<1>2. /\ queue = <<>> /\ sent = <<>> /\ pc = "none" /\ call[Client] = NoMessage
      /\ offers = <<>> /\ DOMAIN offers = {} /\ todo = 0 /\ clientRuns = TRUE
  BY FeedAssumption DEF BridgeInit, Init
<1>3. Known = {} /\ Emitted = {} /\ Calling = {}
  BY <1>2 DEF Known, Emitted, Held, Queued, Calling
<1>4. BridgeTypeOK
  BY <1>1, <1>2, BridgeAssumption DEF BridgeTypeOK
<1>5. NumbersRise
  BY <1>2 DEF NumbersRise
<1> QED BY <1>2, <1>3, <1>4, <1>5
        DEF BridgeInv, SeenFirst, OpenUnseen, SkippedWhileDown, SkippedParts,
            KeptIsThere, KeptBetween, Up, Looping

\* A step that leaves the feed and the offers alone.
LEMMA NothingNew ==
    ASSUME BridgeInv, TypeOK', UNCHANGED <<vars, offers>>,
           todo' \in 0..Lists, clientRuns' \in BOOLEAN
    PROVE  BridgeInv'
<1>1. UNCHANGED <<sent, held, queue, pc, session, connected, call, calls, offers>>
  BY DEF vars, webVars, prodVars
<1>2. Emitted' = Emitted /\ Known' = Known /\ Calling' = Calling
  BY <1>1 DEF Emitted, Held, Queued, Known, Calling
<1>3. BridgeTypeOK'
  BY <1>1 DEF BridgeInv, BridgeTypeOK, List
<1> QED BY <1>1, <1>2, <1>3
        DEF BridgeInv, NumbersRise, SeenFirst, OpenUnseen, SkippedWhileDown,
            SkippedParts, KeptIsThere, KeptBetween

LEMMA BridgeStep == FeedInv /\ BridgeInv /\ TypeOK' /\ [BridgeNext]_allVars => BridgeInv'
<1> SUFFICES ASSUME FeedInv, BridgeInv, TypeOK', [BridgeNext]_allVars PROVE BridgeInv'
  OBVIOUS
<1>1. /\ todo \in 0..Lists /\ clientRuns \in BOOLEAN
      /\ Lists \in Nat /\ calls[Client] + 1 \in Nat
  BY BridgeAssumption, FeedAssumption DEF BridgeInv, BridgeTypeOK, TypeOK, Senders, FeedInv
<1>2. CASE BeginSeries
  BY <1>1, <1>2, NothingNew DEF BeginSeries
<1>3. CASE OfferList
  <2> DEFINE x == [fate |-> "pending", n |-> calls[Client] + 1]
  <2>1. /\ CheckConnected(Client) /\ todo' \in 0..Lists /\ clientRuns' \in BOOLEAN
        /\ offers' = Append(offers, x) /\ call[Client] = NoMessage
    BY <1>1, <1>3 DEF OfferList, CheckConnected
  <2>2. calls[Client] + 1 \in 0..MaxCalls
    BY <2>1, FeedAssumption DEF CheckConnected, FeedInv, TypeOK, Senders
  <2>3. x \in List /\ x.n = calls[Client] + 1 /\ x.fate = "pending"
    BY <2>2 DEF List, Fates
  <2> HIDE DEF x
  <2> QED BY <2>1, <2>3, ListMore
<1>4. CASE SkipList \/ LeaveOutList \/ RankingThrows
  <2>1. PICK x \in {[fate |-> "skipped", n |-> 0], [fate |-> "unbuilt", n |-> 0]} :
          /\ offers' = Append(offers, x)
          /\ x.fate = "skipped" => ~connected
    BY <1>4 DEF SkipList, LeaveOutList, RankingThrows
  <2>2. x \in List /\ x.n = 0 /\ (x.fate = "unbuilt" \/ (x.fate = "skipped" /\ ~connected))
    BY <2>1, FeedAssumption DEF List, Fates
  <2>3. UNCHANGED vars /\ call[Client] = NoMessage
    BY <1>4 DEF SkipList, LeaveOutList, RankingThrows
  <2>4. todo' \in 0..Lists
    BY <1>1, <1>4 DEF SkipList, LeaveOutList, RankingThrows
  <2>5. clientRuns' = clientRuns \/ clientRuns' = FALSE
    BY <1>4 DEF SkipList, LeaveOutList, RankingThrows
  <2>6. clientRuns' \in BOOLEAN
    BY <1>1, <2>5
  <2> QED BY <2>1, <2>2, <2>3, <2>4, <2>6, ListMore
<1>5. CASE PushList
  BY <1>5, PushKeeps
<1>6. CASE Others
  BY <1>6, OthersKeep
<1>7. CASE UNCHANGED allVars
  BY <1>1, <1>7, NothingNew DEF allVars, bridgeVars
<1> QED BY <1>2, <1>3, <1>4, <1>5, <1>6, <1>7
        DEF BridgeNext, ClientThread, NextList, Others

\* The inductive invariant holds next to that of the feed.
THEOREM BridgeInvariant == BridgeSpec => []BridgeInv
<1>1. FeedInv => TypeOK
  BY DEF FeedInv
<1> QED
  BY <1>1, BridgeInitInv, BridgeStep, BridgeRefinesFeed, FeedInvariant, PTL DEF BridgeSpec

\* Feed and series have their types, and a list waits for the mutex exactly
\* while the call of the client thread is in progress.
THEOREM BridgeTypeCorrect == BridgeSpec => []BridgeTypeOK
<1>1. BridgeInv => BridgeTypeOK
  BY DEF BridgeInv
<1> QED BY <1>1, BridgeInvariant, PTL

\* The parts of the invariant, and that nothing stale is sent, exclude a hole.
LEMMA NoHole == FeedInv /\ BridgeInv => NoHoleInSeries
<1> SUFFICES ASSUME FeedInv, BridgeInv,
                    NEW i \in DOMAIN offers, NEW j \in DOMAIN offers,
                    NEW k \in DOMAIN offers, NEW s \in 1..session,
                    i < j, j < k, SentIn(i, s), SentIn(k, s), ~SentIn(j, s), ~Late(i, s)
             PROVE  offers[j].fate \in {"unbuilt", "dropped"}
  BY DEF NoHoleInSeries
<1> USE DEF BridgeInv
<1>1. TypeOK /\ NoStaleBacklog
  BY DEF FeedInv
<1>2. PICK a \in DOMAIN sent :
        /\ sent[a].session = s
        /\ sent[a].msg.by = Client /\ sent[a].msg.n = offers[i].n
  BY DEF SentIn
<1>3. PICK b \in DOMAIN sent :
        /\ sent[b].session = s
        /\ sent[b].msg.by = Client /\ sent[b].msg.n = offers[k].n
  BY DEF SentIn
<1> DEFINE l == sent[a].msg
           m == sent[b].msg
<1>4. l \in Emitted /\ m \in Emitted
  BY <1>2, <1>3 DEF Emitted
<1>5. l.pushed = s /\ m.pushed = s
  BY <1>1, <1>2, <1>3 DEF NoStaleBacklog
<1>6. l \in Known /\ m \in Known
  BY <1>4 DEF Known
<1>7. ~(l.seen < s) /\ l.n = offers[i].n /\ m.n = offers[k].n
  BY <1>2, <1>3 DEF Late
<1> HIDE DEF l, m
<1>8. l.seen \in Nat /\ m.seen \in Nat /\ s \in Nat /\ m.seen <= m.pushed
  BY <1>1, <1>6, KnownTypes DEF SeenFirst
<1>9. offers[j].fate # "skipped"
  <2>1. offers[j].fate = "skipped" => l.seen < m.seen
    BY <1>6, <1>7 DEF SkippedParts
  <2> QED BY <2>1, <1>5, <1>7, <1>8
<1>10. offers[j].fate # "kept"
  <2> SUFFICES ASSUME offers[j].fate = "kept" PROVE FALSE
    OBVIOUS
  <2>1. PICK x \in Emitted : x.n = offers[j].n /\ x.pushed = s
    BY <1>4, <1>5, <1>7 DEF KeptBetween
  <2>2. PICK d \in DOMAIN sent : x = sent[d].msg /\ sent[d].msg.by = Client
    BY DEF Emitted
  <2>3. sent[d].session = s
    BY <1>1, <2>1, <2>2 DEF NoStaleBacklog
  <2> QED BY <2>1, <2>2, <2>3 DEF SentIn
<1>11. offers[j].fate # "pending"
  <2>1. offers[j].fate = "pending" => j = Len(offers)
    BY DEF BridgeTypeOK
  <2> QED BY <2>1, OfferTypes
<1>12. offers[j].fate \in Fates
  BY OfferTypes DEF List
<1> QED BY <1>9, <1>10, <1>11, <1>12 DEF Fates

\* What the browsers of a session see of a series of lists has no hole, for any
\* number of lists, sessions and other senders: a list missing between two that
\* were sent was never built, was stopped by the user, or follows the one late
\* call that the unlocked test of m_bConnected lets into the session.
THEOREM SeriesHasNoHole == BridgeSpec => []NoHoleInSeries
BY NoHole, BridgeInvariant, BridgeRefinesFeed, FeedInvariant, PTL
=============================================================================
