--------------------------- MODULE WebFeed_proofs ---------------------------
(***************************************************************************)
(* Theorems about WebFeed for any set of producers, any disciplines and    *)
(* any bounds: its type invariant, the order and the freshness of what is  *)
(* emitted, the refinement of FeedChannel, the late calls and the length   *)
(* of the queue while there is no connection.                              *)
(***************************************************************************)
EXTENDS WebFeed, SequenceTheorems, FiniteSetTheorems, TLAPS

USE FeedAssumption

\* The empty marker is no message and no offer: it has another domain.
LEMMA NoMessageIsNone ==
    /\ NoMessage \notin Message
    /\ NoMessage \notin Offer
<1>1. DOMAIN NoMessage = {"by"}
  BY DEF NoMessage
<1>2. \A m \in Message \cup Offer : "n" \in DOMAIN m
  BY DEF Message, Offer
<1>. QED
  BY <1>1, <1>2

\* What PushLocked puts in the queue is a message.
LEMMA PushLockedType ==
    ASSUME queue \in Seq(Message), session \in 0..MaxSessions,
           NEW o \in Offer, PushLocked(o)
    PROVE  queue' \in Seq(Message)
<1>. DEFINE m == [by |-> o.by, n |-> o.n, seen |-> o.seen, pushed |-> session]
<1>1. m \in Message
  BY DEF Message, Offer
<1>2. Append(queue, m) \in Seq(Message)
  BY <1>1
<1>. QED
  BY <1>2 DEF PushLocked

\* Every step keeps the types.
LEMMA TypeStep == TypeOK /\ [Next]_vars => TypeOK'
<1>. SUFFICES ASSUME TypeOK, [Next]_vars PROVE TypeOK'
  OBVIOUS
<1>. USE NoMessageIsNone DEF TypeOK, uiVars, prodVars, webVars, vars, PcValues,
         InSession, Looping
<1>1. ASSUME NEW p \in Producers, CheckConnected(p) PROVE TypeOK'
  <2>1. calls[p] + 1 \in 1..MaxCalls
    BY <1>1 DEF CheckConnected, Senders
  <2>2. [by |-> p, n |-> calls[p] + 1, seen |-> session] \in Offer
    BY <2>1 DEF Offer, Senders
  <2>. QED
    BY <1>1, <2>1, <2>2 DEF CheckConnected, Senders
<1>2. ASSUME NEW p \in Producers, Push(p) PROVE TypeOK'
  <2>1. queue' \in Seq(Message)
    BY <1>2, PushLockedType DEF Push
  <2>. QED
    BY <1>2, <2>1 DEF Push
<1>3. CASE Dial
  BY <1>3 DEF Dial
<1>4. CASE ConnectReturns
  BY <1>4 DEF ConnectReturns, Connect, ConnectFails, ConnectThrows
<1>5. CASE ClearBefore
  <2>1. session + 1 \in 0..MaxSessions
    BY <1>5 DEF ClearBefore
  <2>. QED
    BY <1>5, <2>1 DEF ClearBefore, ClearSendQueue
<1>6. CASE OpenSession
  BY <1>6 DEF OpenSession
<1>7. CASE Subscribe
  BY <1>7 DEF Subscribe, LoopHead
<1>8. CASE SendPdf
  <2>1. calls[Web] + 1 \in 1..MaxCalls
    BY <1>8 DEF SendPdf, Senders
  <2>2. [by |-> Web, n |-> calls[Web] + 1, seen |-> session] \in Offer
    BY <2>1 DEF Offer, Senders
  <2>3. queue' \in Seq(Message)
    BY <1>8, <2>2, PushLockedType DEF SendPdf
  <2>. QED
    BY <1>8, <2>1, <2>3 DEF SendPdf, Senders
<1>9. CASE NoPdf \/ PdfReadHangs
  BY <1>9 DEF NoPdf, PdfReadHangs
<1>10. CASE Pop
  <2>1. queue # <<>>
    BY <1>10 DEF Pop, NothingToSend
  <2>2. Head(queue) \in Message /\ Tail(queue) \in Seq(Message)
    BY <2>1
  <2>. QED
    BY <1>10, <2>2 DEF Pop
<1>11. CASE Flushed
  BY <1>11 DEF Flushed
<1>12. CASE Emit
  <2>1. PICK e \in EventOf(discipline) :
           sent' = Append(sent, [msg |-> held, session |-> session, channel |-> e])
    BY <1>12 DEF Emit
  <2>2. e \in EventNames
    BY DEF EventOf, EventNames
  <2>3. held \in Message
    BY <1>12 DEF Emit
  <2>4. [msg |-> held, session |-> session, channel |-> e]
            \in [msg : Message, session : 0..MaxSessions, channel : EventNames]
    BY <2>2, <2>3
  <2>5. sent' \in Seq([msg : Message, session : 0..MaxSessions, channel : EventNames])
    BY <2>1, <2>4
  <2>. QED
    BY <1>12, <2>5 DEF Emit
<1>13. CASE EmitNothing
  BY <1>13 DEF EmitNothing
<1>14. CASE EmitFails
  BY <1>14 DEF EmitFails
<1>15. CASE Heartbeat
  BY <1>15 DEF Heartbeat, LoopHead
<1>16. CASE Disconnect
  BY <1>16 DEF Disconnect
<1>17. CASE CloseSession
  BY <1>17 DEF CloseSession
<1>18. CASE ClearAfter
  BY <1>18 DEF ClearAfter, ClearSendQueue
<1>19. CASE RunReturns
  BY <1>19 DEF RunReturns
<1>20. CASE Controlling
  <2>1. CASE StartThreads
    BY <2>1 DEF StartThreads
  <2>2. CASE ClickStart
    BY <2>2 DEF ClickStart, ToggleStart
  <2>3. CASE FireAutoStart
    BY <2>3 DEF FireAutoStart, ToggleStart
  <2>4. CASE ChangeDiscipline
    BY <2>4 DEF ChangeDiscipline
  <2>5. CASE StopClientSocketThread
    BY <2>5 DEF StopClientSocketThread
  <2>6. CASE StopWebSocketThread
    BY <2>6 DEF StopWebSocketThread
  <2>7. CASE JoinWeb
    BY <2>7 DEF JoinWeb
  <2>. QED
    BY <1>20, <2>1, <2>2, <2>3, <2>4, <2>5, <2>6, <2>7 DEF Controlling
<1>21. CASE UNCHANGED vars
  BY <1>21
<1>. QED
  BY <1>1, <1>2, <1>3, <1>4, <1>5, <1>6, <1>7, <1>8, <1>9, <1>10, <1>11, <1>12,
     <1>13, <1>14, <1>15, <1>16, <1>17, <1>18, <1>19, <1>20, <1>21
     DEF Next, Producing, WebStep

\* The initial states have the types.
LEMMA InitTypeOK == Init => TypeOK
<1>. SUFFICES ASSUME Init PROVE TypeOK
  OBVIOUS
<1>1. queue \in Seq(Message)
  BY DEF Init
<1>2. sent \in Seq([msg : Message, session : 0..MaxSessions, channel : EventNames])
  BY DEF Init
<1>3. /\ calls \in [Senders -> 0..MaxCalls]
      /\ session \in 0..MaxSessions
  BY DEF Init
<1>4. /\ call \in [Producers -> Offer \cup {NoMessage}]
      /\ held \in Message \cup {NoMessage}
  BY DEF Init
<1>. QED
  BY <1>1, <1>2, <1>3, <1>4 DEF Init, TypeOK, PcValues

\* Every reachable state has the types of TypeOK: whatever the threads do, the
\* web thread holds a popped message exactly where it is about to emit it.
THEOREM FeedTypeCorrect == Spec => []TypeOK
  BY InitTypeOK, TypeStep, PTL DEF Spec

-----------------------------------------------------------------------------
\* What a step can do to the messages, whichever action takes it.

\* No message moves and no call starts or ends.
Quiet == /\ UNCHANGED <<queue, held, sent, call, calls>>
         /\ pc' = "emit" <=> pc = "emit"

\* The popped message is dropped, or lost by a failed emit.
Discard == /\ pc = "emit"
           /\ pc' # "emit"
           /\ UNCHANGED <<queue, sent, call, calls>>

\* The queue is emptied.
Clear == /\ queue' = <<>>
         /\ pc # "emit"
         /\ pc' # "emit"
         /\ UNCHANGED <<sent, call, calls>>

LEMMA StepCases ==
    ASSUME TypeOK, [Next]_vars
    PROVE  \/ \E p \in Producers : CheckConnected(p) \/ Push(p)
           \/ SendPdf \/ Pop \/ Emit \/ Discard \/ Clear \/ Quiet
<1>. USE DEF Quiet, Discard, Clear, uiVars, prodVars, webVars, vars
<1>1. CASE Dial \/ ConnectReturns
  BY <1>1 DEF Dial, ConnectReturns, Connect, ConnectFails,
      ConnectThrows
<1>2. CASE ClearBefore \/ ClearAfter
  BY <1>2 DEF ClearBefore, ClearAfter, ClearSendQueue
<1>3. CASE OpenSession \/ NoPdf \/ PdfReadHangs \/ Flushed \/ Disconnect \/ CloseSession \/ RunReturns
  BY <1>3 DEF OpenSession, NoPdf, PdfReadHangs, Flushed, Disconnect, CloseSession, RunReturns
<1>4. CASE Subscribe \/ Heartbeat
  BY <1>4 DEF Subscribe, Heartbeat, LoopHead
<1>5. CASE EmitNothing \/ EmitFails
  BY <1>5 DEF EmitNothing, EmitFails
<1>6. CASE Controlling
  <2>1. CASE StartThreads
    BY <2>1 DEF StartThreads
  <2>2. CASE ClickStart \/ FireAutoStart
    BY <2>2 DEF ClickStart, FireAutoStart
  <2>3. CASE ChangeDiscipline
    BY <2>3 DEF ChangeDiscipline
  <2>4. CASE StopClientSocketThread \/ StopWebSocketThread \/ JoinWeb
    BY <2>4 DEF StopClientSocketThread, StopWebSocketThread, JoinWeb
  <2>. QED
    BY <1>6, <2>1, <2>2, <2>3, <2>4 DEF Controlling
<1>7. CASE UNCHANGED vars
  BY <1>7
<1>. QED
  BY <1>1, <1>2, <1>3, <1>4, <1>5, <1>6, <1>7 DEF Next, Producing, WebStep

\* The three parts of FeedInv that put the messages of a thread in order.
OrderInv == CallIsLast /\ PushedFinished /\ OrderedThroughout

\* What was emitted is a message.
LEMMA SentMessages ==
    ASSUME TypeOK
    PROVE  \A i \in DOMAIN sent : sent[i].msg \in Message
<1>. DEFINE Record == [msg : Message, session : 0..MaxSessions, channel : EventNames]
<1>1. sent \in Seq(Record)
  BY DEF TypeOK
<1>2. \A R : sent \in Seq(R) => \A i \in DOMAIN sent : sent[i] \in R
  OBVIOUS
<1>3. \A i \in DOMAIN sent : sent[i] \in Record
  BY <1>1, <1>2
<1>. QED
  BY <1>3

\* A message m appended to the queue keeps the order, if it is later than
\* everything of its sender that was pushed before.
LEMMA AppendKeepsOrder ==
    ASSUME TypeOK, OrderedThroughout, PushedFinished,
           NEW m \in Message, m.n > Finished(m.by),
           queue' = Append(queue, m),
           UNCHANGED <<sent, held>>, pc' = "emit" <=> pc = "emit"
    PROVE  OrderedThroughout'
<1>1. queue \in Seq(Message)
  BY DEF TypeOK
<1>2. DOMAIN queue' = 1..(Len(queue) + 1) /\ DOMAIN queue = 1..Len(queue)
  BY <1>1
<1>3. \A i \in DOMAIN queue : queue'[i] = queue[i]
  BY <1>1
<1>4. queue'[Len(queue) + 1] = m
  BY <1>1
<1>5. /\ \A i \in DOMAIN queue : InCallOrder(queue[i], m)
      /\ \A i \in DOMAIN sent : InCallOrder(sent[i].msg, m)
      /\ pc = "emit" => InCallOrder(held, m)
  <2>1. \A x \in Message : x.n <= Finished(x.by) => InCallOrder(x, m)
    <3>. SUFFICES ASSUME NEW x \in Message, x.n <= Finished(x.by), x.by = m.by
                  PROVE  x.n < m.n
      BY DEF InCallOrder
    <3>1. x.n \in Nat /\ m.n \in Nat /\ Finished(m.by) \in Int
      <4>1. m.by \in Senders /\ calls[m.by] \in Nat
        BY DEF TypeOK, Message
      <4>. QED
        BY <4>1 DEF Message, Finished
    <3>. QED
      BY <3>1
  <2>2. \A i \in DOMAIN sent : sent[i].msg \in Message
    BY SentMessages
  <2>3. pc = "emit" => held \in Message
    BY DEF TypeOK
  <2>4. \A i \in DOMAIN queue : queue[i] \in Message
    BY <1>1
  <2>. QED
    BY <2>1, <2>2, <2>3, <2>4 DEF PushedFinished
<1>6. SentInCallOrder'
  BY DEF OrderedThroughout, SentInCallOrder, InCallOrder
<1>7. \A i, j \in DOMAIN queue' : i < j => InCallOrder(queue'[i], queue'[j])
  BY <1>2, <1>3, <1>4, <1>5 DEF OrderedThroughout
<1>8. \A i \in DOMAIN sent, j \in DOMAIN queue' : InCallOrder(sent[i].msg, queue'[j])
  BY <1>2, <1>3, <1>4, <1>5 DEF OrderedThroughout
<1>9. pc = "emit" => \A j \in DOMAIN queue' : InCallOrder(held, queue'[j])
  BY <1>2, <1>3, <1>4, <1>5 DEF OrderedThroughout
<1>. QED
  BY <1>6, <1>7, <1>8, <1>9 DEF OrderedThroughout, InCallOrder

\* What was pushed stays below the finished calls when m is appended and the
\* call that pushed it is over.
LEMMA AppendKeepsFinished ==
    ASSUME TypeOK, PushedFinished,
           NEW m \in Message, m.n <= Finished(m.by)',
           queue' = Append(queue, m) \/ queue' = queue,
           UNCHANGED <<sent, held>>, pc' = "emit" <=> pc = "emit",
           \A s \in Senders : Finished(s) \in Int /\ Finished(s)' \in Int
                                /\ Finished(s) <= Finished(s)'
    PROVE  PushedFinished'
<1>1. \A x \in Message : x.n <= Finished(x.by) => x.n <= Finished(x.by)'
  <2>. SUFFICES ASSUME NEW x \in Message, x.n <= Finished(x.by)
                PROVE  x.n <= Finished(x.by)'
    OBVIOUS
  <2>1. x.n \in Nat /\ x.by \in Senders
    BY DEF Message
  <2>2. /\ Finished(x.by) \in Int /\ Finished(x.by)' \in Int
        /\ Finished(x.by) <= Finished(x.by)'
    BY <2>1
  <2>. QED
    BY <2>1, <2>2
<1>2. queue \in Seq(Message)
  BY DEF TypeOK
<1>3. (\A i \in DOMAIN queue : queue[i].n <= Finished(queue[i].by))'
  <2>1. \A i \in DOMAIN queue : \A s \in Senders :
           s = queue[i].by => queue[i].n <= Finished(s)'
    <3>1. \A i \in DOMAIN queue : queue[i] \in Message
      BY <1>2
    <3>. QED
      BY <1>1, <3>1 DEF PushedFinished
  <2>2. \A i \in DOMAIN queue' :
           queue'[i] = m \/ (i \in DOMAIN queue /\ queue'[i] = queue[i])
    BY <1>2
  <2>3. \A i \in DOMAIN queue : queue[i].by \in Senders
    <3>1. \A i \in DOMAIN queue : queue[i] \in Message
      BY <1>2
    <3>. QED
      BY <3>1 DEF Message
  <2>4. \A i \in DOMAIN queue' : \A s \in Senders :
           s = queue'[i].by => queue'[i].n <= Finished(s)'
    BY <2>1, <2>2
  <2>5. \A i \in DOMAIN queue' : queue'[i].by \in Senders
    BY <2>2, <2>3 DEF Message
  <2>. QED
    BY <2>4, <2>5
<1>4. (\A i \in DOMAIN sent : sent[i].msg.n <= Finished(sent[i].msg.by))'
  <2>1. \A i \in DOMAIN sent : \A s \in Senders :
           s = sent[i].msg.by => sent[i].msg.n <= Finished(s)'
    BY <1>1, SentMessages DEF PushedFinished
  <2>2. \A i \in DOMAIN sent : sent[i].msg.by \in Senders
    BY SentMessages DEF Message
  <2>. QED
    BY <2>1, <2>2
<1>5. (pc = "emit" => held.n <= Finished(held.by))'
  <2>1. pc = "emit" => held \in Message
    BY DEF TypeOK
  <2>. QED
    BY <1>1, <2>1 DEF PushedFinished
<1>. QED
  BY <1>3, <1>4, <1>5 DEF PushedFinished

\* Every step keeps the order of the messages of each thread.
LEMMA OrderStep ==
    ASSUME TypeOK, OrderInv, [Next]_vars
    PROVE  OrderInv'
<1>. USE DEF OrderInv, uiVars, prodVars, webVars
<1>0. TypeOK'
  BY TypeStep
<1>1. ASSUME NEW p \in Producers, CheckConnected(p) PROVE OrderInv'
  <2>1. /\ UNCHANGED <<queue, held, sent>>
        /\ pc' = pc
        /\ call' = [call EXCEPT ![p] = [by |-> p, n |-> calls[p] + 1, seen |-> session]]
        /\ calls' = [calls EXCEPT ![p] = @ + 1]
        /\ call[p] = NoMessage
    BY <1>1 DEF CheckConnected
  <2>2. [by |-> p, n |-> calls[p] + 1, seen |-> session] # NoMessage
    BY DEF NoMessage
  <2>3. calls[p] \in Nat
    BY DEF TypeOK, Senders
  <2>4. CallIsLast'
    BY <2>1, <2>3 DEF CallIsLast, TypeOK, Senders
  <2>5. \A s \in Senders : Finished(s)' = Finished(s)
    BY <2>1, <2>2, <2>3 DEF Finished, TypeOK, Senders
  <2>6. PushedFinished'
    <3>1. \A i \in DOMAIN queue : queue[i] \in Message
      BY DEF TypeOK
    <3>2. pc = "emit" => held \in Message
      BY DEF TypeOK
    <3>. QED
      BY <2>1, <2>5, <3>1, <3>2, SentMessages DEF PushedFinished, Message
  <2>7. OrderedThroughout'
    BY <2>1 DEF OrderedThroughout, SentInCallOrder, InCallOrder
  <2>. QED
    BY <2>4, <2>6, <2>7
<1>2. ASSUME NEW p \in Producers, Push(p) PROVE OrderInv'
  <2>. DEFINE m == [by |-> p, n |-> calls[p], seen |-> call[p].seen, pushed |-> session]
  <2>1. /\ UNCHANGED <<sent, held, calls>>
        /\ pc' = pc
        /\ call' = [call EXCEPT ![p] = NoMessage]
        /\ call[p] # NoMessage
    BY <1>2 DEF Push
  <2>2. call[p].by = p /\ call[p].n = calls[p] /\ calls[p] > 0
    BY <2>1 DEF CallIsLast
  <2>3. queue' = Append(queue, m) \/ queue' = queue
    BY <1>2, <2>2 DEF Push, PushLocked
  <2>4. calls[p] \in 1..MaxCalls /\ call[p].seen \in 0..MaxSessions
    BY <2>1, <2>2 DEF TypeOK, Offer, Senders
  <2>5. m \in Message
    BY <2>4 DEF Message, Senders, TypeOK
  <2>6. Finished(p) = calls[p] - 1 /\ Finished(p)' = calls[p]
    BY <2>1 DEF Finished, TypeOK
  <2>7. \A s \in Senders : /\ Finished(s) \in Int /\ Finished(s)' \in Int
                            /\ Finished(s) <= Finished(s)'
    <3>1. \A s \in Senders : calls[s] \in Nat
      BY DEF TypeOK
    <3>2. \A s \in Producers : call'[s] = IF s = p THEN NoMessage ELSE call[s]
      BY <2>1 DEF TypeOK
    <3>. QED
      BY <2>1, <3>1, <3>2 DEF Finished
  <2>8. CallIsLast'
    BY <2>1 DEF CallIsLast, TypeOK
  <2>9. PushedFinished'
    BY <2>1, <2>3, <2>4, <2>5, <2>6, <2>7, AppendKeepsFinished
  <2>10. OrderedThroughout'
    <3>1. CASE queue' = queue
      BY <2>1, <3>1 DEF OrderedThroughout, SentInCallOrder, InCallOrder
    <3>2. CASE queue' = Append(queue, m)
      BY <2>1, <2>4, <2>5, <2>6, <3>2, AppendKeepsOrder
    <3>. QED
      BY <2>3, <3>1, <3>2
  <2>. QED
    BY <2>8, <2>9, <2>10
<1>3. CASE SendPdf
  <2>. DEFINE m == [by |-> Web, n |-> calls[Web] + 1, seen |-> session, pushed |-> session]
  <2>1. /\ UNCHANGED <<sent, held, call>>
        /\ pc # "emit" /\ pc' # "emit"
        /\ calls' = [calls EXCEPT ![Web] = @ + 1]
        /\ calls[Web] < MaxCalls
    BY <1>3 DEF SendPdf
  <2>2. queue' = Append(queue, m) \/ queue' = queue
    BY <1>3 DEF SendPdf, PushLocked
  <2>3. \A s \in Senders : calls[s] \in Nat /\ calls'[s] = IF s = Web THEN calls[s] + 1 ELSE calls[s]
    BY <2>1 DEF TypeOK
  <2>4. Web \in Senders /\ Web \notin Producers
    BY DEF Senders
  <2>5. m \in Message
    BY <2>1, <2>3, <2>4 DEF Message, TypeOK
  <2>6. Finished(Web) = calls[Web] /\ Finished(Web)' = calls[Web] + 1
    BY <2>3, <2>4 DEF Finished
  <2>7. \A s \in Senders : /\ Finished(s) \in Int /\ Finished(s)' \in Int
                            /\ Finished(s) <= Finished(s)'
    BY <2>1, <2>3, <2>4 DEF Finished
  <2>8. CallIsLast'
    BY <2>1, <2>3, <2>4 DEF CallIsLast, Senders
  <2>9. PushedFinished'
    BY <2>1, <2>2, <2>3, <2>4, <2>5, <2>6, <2>7, AppendKeepsFinished
  <2>10. OrderedThroughout'
    <3>1. CASE queue' = queue
      BY <2>1, <3>1 DEF OrderedThroughout, SentInCallOrder, InCallOrder
    <3>2. CASE queue' = Append(queue, m)
      <4>1. m.n > Finished(m.by)
        BY <2>3, <2>4, <2>6
      <4>. QED
        BY <2>1, <2>5, <3>2, <4>1, AppendKeepsOrder
    <3>. QED
      BY <2>2, <3>1, <3>2
  <2>. QED
    BY <2>8, <2>9, <2>10
<1>4. CASE Pop
  <2>1. /\ UNCHANGED <<sent, call, calls>>
        /\ pc # "emit" /\ pc' = "emit"
        /\ held' = Head(queue) /\ queue' = Tail(queue)
        /\ Len(queue) # 0
    BY <1>4 DEF Pop, NothingToSend
  <2>2. queue \in Seq(Message)
    BY DEF TypeOK
  <2>3. 1 \in DOMAIN queue /\ held' = queue[1]
    BY <2>1, <2>2
  <2>4. \A i \in DOMAIN queue' : i + 1 \in DOMAIN queue /\ queue'[i] = queue[i + 1] /\ i \in Nat /\ 1 < i + 1
    BY <2>1, <2>2
  <2>5. CallIsLast'
    BY <2>1 DEF CallIsLast
  <2>6. PushedFinished'
    BY <2>1, <2>3, <2>4 DEF PushedFinished, Finished
  <2>7. \A i, j \in DOMAIN queue' : i < j => i + 1 < j + 1
    BY <2>4
  <2>8. OrderedThroughout'
    <3>1. SentInCallOrder'
      BY <2>1 DEF OrderedThroughout, SentInCallOrder, InCallOrder
    <3>2. \A i, j \in DOMAIN queue' : i < j => InCallOrder(queue'[i], queue'[j])
      BY <2>4, <2>7 DEF OrderedThroughout
    <3>3. \A i \in DOMAIN sent, j \in DOMAIN queue' : InCallOrder(sent[i].msg, queue'[j])
      BY <2>4 DEF OrderedThroughout
    <3>4. \A i \in DOMAIN sent : InCallOrder(sent[i].msg, held')
      BY <2>3 DEF OrderedThroughout
    <3>5. \A j \in DOMAIN queue' : InCallOrder(held', queue'[j])
      BY <2>3, <2>4 DEF OrderedThroughout
    <3>. QED
      BY <2>1, <3>1, <3>2, <3>3, <3>4, <3>5 DEF OrderedThroughout, InCallOrder
  <2>. QED
    BY <2>5, <2>6, <2>8
<1>5. CASE Emit
  <2>1. /\ UNCHANGED <<queue, call, calls>>
        /\ pc = "emit" /\ pc' # "emit"
    BY <1>5 DEF Emit
  <2>2. PICK e \in EventOf(discipline) :
           sent' = Append(sent, [msg |-> held, session |-> session, channel |-> e])
    BY <1>5 DEF Emit
  <2>3. /\ DOMAIN sent' = DOMAIN sent \cup {Len(sent) + 1}
        /\ \A i \in DOMAIN sent : sent'[i] = sent[i] /\ i <= Len(sent) /\ i \in Nat
        /\ sent'[Len(sent) + 1].msg = held
        /\ Len(sent) \in Nat
    <3>. DEFINE Record == [msg : Message, session : 0..MaxSessions, channel : EventNames]
    <3>1. sent \in Seq(Record)
      BY DEF TypeOK
    <3>. HIDE DEF Record
    <3>. QED
      BY <2>2, <3>1
  <2>4. CallIsLast'
    BY <2>1 DEF CallIsLast
  <2>5. PushedFinished'
    <3>1. \A i \in DOMAIN sent' : sent'[i].msg.n <= Finished(sent'[i].msg.by)
      BY <2>1, <2>3 DEF PushedFinished
    <3>. QED
      BY <2>1, <3>1 DEF PushedFinished, Finished
  <2>6. OrderedThroughout'
    <3>1. SentInCallOrder'
      <4>. SUFFICES ASSUME NEW i \in DOMAIN sent', NEW j \in DOMAIN sent', i < j
                    PROVE  InCallOrder(sent'[i].msg, sent'[j].msg)
        BY DEF SentInCallOrder, InCallOrder
      <4>1. i \in DOMAIN sent
        BY <2>3
      <4>2. CASE j \in DOMAIN sent
        BY <2>3, <4>1, <4>2 DEF OrderedThroughout, SentInCallOrder
      <4>3. CASE j = Len(sent) + 1
        BY <2>1, <2>3, <4>1, <4>3 DEF OrderedThroughout
      <4>. QED
        BY <2>3, <4>2, <4>3
    <3>2. \A i \in DOMAIN sent', j \in DOMAIN queue : InCallOrder(sent'[i].msg, queue[j])
      BY <2>1, <2>3 DEF OrderedThroughout
    <3>. QED
      BY <2>1, <3>1, <3>2 DEF OrderedThroughout, InCallOrder
  <2>. QED
    BY <2>4, <2>5, <2>6
<1>6. CASE Discard
  BY <1>6 DEF Discard, CallIsLast, PushedFinished, Finished, OrderedThroughout,
     SentInCallOrder, InCallOrder
<1>7. CASE Clear
  BY <1>7 DEF Clear, CallIsLast, PushedFinished, Finished, OrderedThroughout,
     SentInCallOrder, InCallOrder
<1>8. CASE Quiet
  BY <1>8 DEF Quiet, CallIsLast, PushedFinished, Finished, OrderedThroughout,
     SentInCallOrder, InCallOrder
<1>. QED
  BY <1>1, <1>2, <1>3, <1>4, <1>5, <1>6, <1>7, <1>8, StepCases

\* Every step keeps m_bConnected true exactly during a session.
LEMMA ConnectedStep ==
    ASSUME TypeOK, ConnectedInSession, [Next]_vars
    PROVE  ConnectedInSession'
<1>. USE DEF ConnectedInSession, InSession, Looping, TypeOK,
         uiVars, prodVars, webVars, vars
<1>1. ASSUME NEW p \in Producers, CheckConnected(p) \/ Push(p) PROVE ConnectedInSession'
  BY <1>1 DEF CheckConnected, Push
<1>2. CASE Dial \/ ConnectReturns \/ ClearBefore \/ OpenSession
  BY <1>2 DEF Dial, ConnectReturns, Connect, ConnectFails,
      ConnectThrows, ClearBefore, OpenSession
<1>3. CASE Subscribe \/ SendPdf \/ NoPdf \/ PdfReadHangs
  BY <1>3 DEF Subscribe, SendPdf, NoPdf, PdfReadHangs, LoopHead
<1>4. CASE Pop \/ Flushed \/ Emit
  BY <1>4 DEF Pop, Flushed, Emit
<1>5. CASE EmitNothing \/ EmitFails
  BY <1>5 DEF EmitNothing, EmitFails
<1>6. CASE Heartbeat \/ Disconnect
  BY <1>6 DEF Heartbeat, Disconnect, LoopHead
<1>7. CASE CloseSession \/ ClearAfter \/ RunReturns
  BY <1>7 DEF CloseSession, ClearAfter, RunReturns
<1>8. CASE Controlling
  <2>1. CASE StartThreads
    BY <2>1 DEF StartThreads
  <2>2. CASE ClickStart \/ FireAutoStart \/ ChangeDiscipline
    BY <2>2 DEF ClickStart, FireAutoStart, ChangeDiscipline
  <2>3. CASE StopClientSocketThread \/ StopWebSocketThread \/ JoinWeb
    BY <2>3 DEF StopClientSocketThread, StopWebSocketThread, JoinWeb
  <2>. QED
    BY <1>8, <2>1, <2>2, <2>3 DEF Controlling
<1>9. CASE UNCHANGED vars
  BY <1>9
<1>. QED
  BY <1>1, <1>2, <1>3, <1>4, <1>5, <1>6, <1>7, <1>8, <1>9 DEF Next, Producing, WebStep

\* The states in which the queue may only hold messages of this session.
Fresh == InSession \cup {"open"}

\* A step that neither clears, pops, pushes nor emits, and does not enter Fresh
\* from outside, keeps FreshInSession and NoStaleBacklog.
LEMMA IdleKeepsFresh ==
    ASSUME FreshInSession, NoStaleBacklog,
           UNCHANGED <<queue, held, sent, session>>,
           pc' \in Fresh => pc \in Fresh,
           pc' = "emit" => pc = "emit"
    PROVE  FreshInSession' /\ NoStaleBacklog'
  BY DEF FreshInSession, NoStaleBacklog, Fresh

\* A push adds a message of this session.
LEMMA PushKeepsFresh ==
    ASSUME TypeOK, FreshInSession, NoStaleBacklog,
           UNCHANGED <<held, sent, session>>,
           pc' \in Fresh => pc \in Fresh,
           pc' = "emit" => pc = "emit",
           NEW o, PushLocked(o)
    PROVE  FreshInSession' /\ NoStaleBacklog'
<1>1. CASE queue' = queue
  BY <1>1, IdleKeepsFresh
<1>2. CASE queue' # queue
  <2>. DEFINE m == [by |-> o.by, n |-> o.n, seen |-> o.seen, pushed |-> session]
  <2>1. queue' = Append(queue, m)
    BY <1>2 DEF PushLocked
  <2>2. queue \in Seq(Message)
    BY DEF TypeOK
  <2>3. \A i \in DOMAIN queue' :
           queue'[i] = m \/ (i \in DOMAIN queue /\ queue'[i] = queue[i])
    BY <2>1, <2>2
  <2>4. \A i \in DOMAIN queue' : pc' \in Fresh => queue'[i].pushed = session
    BY <2>3 DEF FreshInSession, Fresh
  <2>. QED
    BY <2>4 DEF FreshInSession, NoStaleBacklog, Fresh
<1>. QED
  BY <1>1, <1>2

\* Every step keeps older messages out of a session.
LEMMA FreshStep ==
    ASSUME TypeOK, FreshInSession, NoStaleBacklog, [Next]_vars
    PROVE  FreshInSession' /\ NoStaleBacklog'
<1>. USE DEF Fresh, InSession, Looping, uiVars, prodVars, webVars, vars
<1>1. ASSUME NEW p \in Producers, CheckConnected(p)
      PROVE  FreshInSession' /\ NoStaleBacklog'
  BY <1>1, IdleKeepsFresh DEF CheckConnected
<1>2. ASSUME NEW p \in Producers, Push(p)
      PROVE  FreshInSession' /\ NoStaleBacklog'
  BY <1>2, PushKeepsFresh DEF Push
<1>3. CASE Dial \/ ConnectReturns \/ OpenSession \/ Subscribe \/ NoPdf \/ PdfReadHangs \/ Flushed
  BY <1>3, IdleKeepsFresh DEF Dial, ConnectReturns, Connect, ConnectFails,
      ConnectThrows, OpenSession, Subscribe,
     NoPdf, PdfReadHangs, Flushed, LoopHead
<1>4. CASE Heartbeat \/ Disconnect \/ CloseSession \/ RunReturns
  BY <1>4, IdleKeepsFresh DEF Heartbeat, Disconnect, CloseSession, RunReturns, LoopHead
<1>5. CASE ClearBefore \/ ClearAfter
  BY <1>5 DEF ClearBefore, ClearAfter, ClearSendQueue, FreshInSession, NoStaleBacklog
<1>6. CASE SendPdf
  BY <1>6, PushKeepsFresh DEF SendPdf
<1>7. CASE Pop
  <2>1. /\ UNCHANGED <<sent, session>>
        /\ pc = "flush" /\ pc' = "emit"
        /\ held' = Head(queue) /\ queue' = Tail(queue)
        /\ Len(queue) # 0
    BY <1>7 DEF Pop, NothingToSend
  <2>2. queue \in Seq(Message)
    BY DEF TypeOK
  <2>3. 1 \in DOMAIN queue /\ held' = queue[1]
    BY <2>1, <2>2
  <2>4. \A i \in DOMAIN queue' : i + 1 \in DOMAIN queue /\ queue'[i] = queue[i + 1]
    BY <2>1, <2>2
  <2>. QED
    BY <2>1, <2>3, <2>4 DEF FreshInSession, NoStaleBacklog
<1>8. CASE Emit
  <2>1. /\ UNCHANGED <<queue, session>>
        /\ pc = "emit" /\ pc' = "flush"
    BY <1>8 DEF Emit
  <2>2. PICK e \in EventOf(discipline) :
           sent' = Append(sent, [msg |-> held, session |-> session, channel |-> e])
    BY <1>8 DEF Emit
  <2>3. \A i \in DOMAIN sent' :
           \/ i \in DOMAIN sent /\ sent'[i] = sent[i]
           \/ sent'[i] = [msg |-> held, session |-> session, channel |-> e]
    <3>. DEFINE Record == [msg : Message, session : 0..MaxSessions, channel : EventNames]
    <3>1. sent \in Seq(Record)
      BY DEF TypeOK
    <3>. HIDE DEF Record
    <3>. QED
      BY <2>2, <3>1
  <2>4. held.pushed = session
    BY <2>1 DEF FreshInSession
  <2>5. NoStaleBacklog'
    BY <2>3, <2>4 DEF NoStaleBacklog
  <2>6. FreshInSession'
    BY <2>1 DEF FreshInSession
  <2>. QED
    BY <2>5, <2>6
<1>9. CASE EmitNothing \/ EmitFails
  BY <1>9 DEF EmitNothing, EmitFails, FreshInSession, NoStaleBacklog
<1>10. CASE Controlling
  <2>1. CASE StartThreads
    BY <2>1, IdleKeepsFresh DEF StartThreads
  <2>2. CASE ClickStart \/ FireAutoStart \/ ChangeDiscipline
    BY <2>2, IdleKeepsFresh DEF ClickStart, FireAutoStart, ChangeDiscipline
  <2>3. CASE StopClientSocketThread \/ StopWebSocketThread \/ JoinWeb
    BY <2>3, IdleKeepsFresh DEF StopClientSocketThread, StopWebSocketThread, JoinWeb
  <2>. QED
    BY <1>10, <2>1, <2>2, <2>3 DEF Controlling
<1>11. CASE UNCHANGED vars
  BY <1>11, IdleKeepsFresh
<1>. QED
  BY <1>1, <1>2, <1>3, <1>4, <1>5, <1>6, <1>7, <1>8, <1>9, <1>10, <1>11
     DEF Next, Producing, WebStep

-----------------------------------------------------------------------------
\* The inductive invariant holds in every reachable state.
THEOREM FeedInvariant == Spec => []FeedInv
<1>1. Init => FeedInv
  <2>. SUFFICES ASSUME Init PROVE FeedInv
    OBVIOUS
  <2>1. TypeOK
    BY InitTypeOK
  <2>2. /\ queue = <<>> /\ sent = <<>> /\ pc = "none" /\ connected = FALSE
        /\ \A p \in Producers : call[p] = NoMessage
    BY DEF Init
  <2>. QED
    BY <2>1, <2>2 DEF FeedInv, ConnectedInSession, InSession, Looping, CallIsLast,
       PushedFinished, OrderedThroughout, SentInCallOrder, FreshInSession, NoStaleBacklog
<1>2. FeedInv /\ [Next]_vars => FeedInv'
  BY TypeStep, ConnectedStep, OrderStep, FreshStep DEF FeedInv, OrderInv
<1>. QED
  BY <1>1, <1>2, PTL DEF Spec

\* However the unlocked check of m_bConnected, the pushes, the pops, failed emits
\* and reconnects interleave, no thread's messages are reordered or repeated on
\* the way to the server.
THEOREM SentInOrder == Spec => []SentInCallOrder
<1>1. FeedInv => SentInCallOrder
  BY DEF FeedInv, OrderedThroughout
<1>. QED
  BY <1>1, FeedInvariant, PTL

\* ClearSendQueue at the start of a session removes every push that came late:
\* nothing queued before a session is emitted in it.
THEOREM NothingStaleIsSent == Spec => []NoStaleBacklog
<1>1. FeedInv => NoStaleBacklog
  BY DEF FeedInv
<1>. QED
  BY <1>1, FeedInvariant, PTL

-----------------------------------------------------------------------------
\* Putting a held message in front of the queue.
LEMMA HeldInFront ==
    ASSUME NEW S, NEW q \in Seq(S), NEW h \in S, NEW m \in S
    PROVE  /\ <<h>> \o q # <<>>
           /\ Head(<<h>> \o q) = h
           /\ Tail(<<h>> \o q) = q
           /\ <<h>> \o Append(q, m) = Append(<<h>> \o q, m)
           /\ q # <<>> => <<Head(q)>> \o Tail(q) = q
<1>1. <<h>> \in Seq(S) /\ Len(<<h>>) = 1 /\ <<h>>[1] = h
  OBVIOUS
<1>2. <<h>> \o q \in Seq(S) /\ Len(<<h>> \o q) = 1 + Len(q)
  BY <1>1, ConcatProperties
<1>3. (<<h>> \o q)[1] = h /\ \A i \in 1..Len(q) : (<<h>> \o q)[i + 1] = q[i]
  BY <1>1, ConcatProperties
<1>4. Tail(<<h>> \o q) = q
  <2>1. /\ Tail(<<h>> \o q) \in Seq(S)
        /\ Len(Tail(<<h>> \o q)) = Len(q)
        /\ \A i \in 1..Len(q) : Tail(<<h>> \o q)[i] = q[i]
    BY <1>2, <1>3
  <2>. QED
    BY <2>1, SeqEqual
<1>5. <<h>> \o Append(q, m) = Append(<<h>> \o q, m)
  BY <1>1, AppendIsConcat, ConcatAssociative, <1>2
<1>6. q # <<>> => <<Head(q)>> \o Tail(q) = q
  BY HeadTailProperties
<1>. QED
  BY <1>2, <1>3, <1>4, <1>5, <1>6

\* A push, by a producer or by the web thread, is an Accept of the channel, or
\* nothing when the feed is stopped.
LEMMA PushAccepts ==
    ASSUME TypeOK, NEW o \in Offer, PushLocked(o),
           UNCHANGED <<held, sent, session, connected>>,
           pc' = "emit" <=> pc = "emit"
    PROVE  [Channel!Next]_(Channel!vars)
<1>1. CASE queue' = queue
  BY <1>1 DEF Channel!vars, Pending
<1>2. CASE queue' # queue
  <2>. DEFINE m == [by |-> o.by, n |-> o.n, seen |-> o.seen, pushed |-> session]
  <2>1. queue' = Append(queue, m)
    BY <1>2 DEF PushLocked
  <2>2. m \in Message
    BY DEF Message, Offer, TypeOK
  <2>3. queue \in Seq(Message) /\ (pc = "emit" => held \in Message)
    BY DEF TypeOK
  <2>. HIDE DEF m
  <2>4. Pending' = Append(Pending, m)
    BY <2>1, <2>2, <2>3, HeldInFront DEF Pending
  <2>5. Channel!Accept
    BY <2>2, <2>4 DEF Channel!Accept
  <2>. QED
    BY <2>5 DEF Channel!Next
<1>. QED
  BY <1>1, <1>2

\* Every step of the feed is a step of the channel or leaves it alone.
LEMMA ChannelStep ==
    ASSUME TypeOK, ConnectedInSession, CallIsLast, [Next]_vars
    PROVE  [Channel!Next]_(Channel!vars)
<1>. USE DEF uiVars, prodVars, webVars, vars, Channel!vars, Pending
<1>1. ASSUME NEW p \in Producers, CheckConnected(p) PROVE UNCHANGED Channel!vars
  BY <1>1 DEF CheckConnected
<1>2. ASSUME NEW p \in Producers, Push(p) PROVE [Channel!Next]_(Channel!vars)
  <2>1. call[p] \in Offer /\ PushLocked(call[p])
    BY <1>2 DEF Push, TypeOK
  <2>. QED
    BY <1>2, <2>1, PushAccepts DEF Push
<1>3. CASE Dial \/ ConnectReturns \/ NoPdf \/ PdfReadHangs \/ Flushed
  BY <1>3 DEF Dial, ConnectReturns, Connect, ConnectFails,
      ConnectThrows, NoPdf, PdfReadHangs, Flushed
<1>4. CASE Subscribe \/ Heartbeat
  BY <1>4 DEF Subscribe, Heartbeat, LoopHead
<1>5. CASE Disconnect \/ RunReturns
  BY <1>5 DEF Disconnect, RunReturns
<1>6. CASE ClearBefore
  <2>1. Channel!Begin
    BY <1>6 DEF ClearBefore, ClearSendQueue, Channel!Begin, ConnectedInSession,
       InSession, Looping
  <2>. QED
    BY <2>1 DEF Channel!Next
<1>7. CASE OpenSession
  <2>1. Channel!Open
    BY <1>7 DEF OpenSession, Channel!Open, ConnectedInSession, InSession, Looping
  <2>. QED
    BY <2>1 DEF Channel!Next
<1>8. CASE CloseSession
  <2>1. Channel!Close
    BY <1>8 DEF CloseSession, Channel!Close, ConnectedInSession, InSession, Looping
  <2>. QED
    BY <2>1 DEF Channel!Next
<1>9. CASE ClearAfter
  <2>1. Channel!Forget
    BY <1>9 DEF ClearAfter, ClearSendQueue, Channel!Forget, ConnectedInSession,
       InSession, Looping
  <2>. QED
    BY <2>1 DEF Channel!Next
<1>10. CASE SendPdf
  <2>1. [by |-> Web, n |-> calls[Web] + 1, seen |-> session] \in Offer
    BY <1>10 DEF SendPdf, Offer, Senders, TypeOK
  <2>. QED
    BY <1>10, <2>1, PushAccepts DEF SendPdf
<1>11. CASE Pop
  <2>1. /\ held' = Head(queue) /\ queue' = Tail(queue)
        /\ pc = "flush" /\ pc' = "emit" /\ Len(queue) # 0
        /\ UNCHANGED <<session, connected, sent>>
    BY <1>11 DEF Pop, NothingToSend
  <2>2. queue \in Seq(Message) /\ queue # <<>>
    BY <2>1 DEF TypeOK
  <2>3. <<Head(queue)>> \o Tail(queue) = queue
    BY <2>2, HeadTailProperties
  <2>. QED
    BY <2>1, <2>3
<1>12. CASE Emit \/ EmitNothing \/ EmitFails
  <2>1. /\ pc = "emit" /\ pc' # "emit"
        /\ UNCHANGED <<queue, session, connected>>
    BY <1>12 DEF Emit, EmitNothing, EmitFails
  <2>2. queue \in Seq(Message) /\ held \in Message
    BY <2>1 DEF TypeOK
  <2>3. Pending # <<>> /\ Head(Pending) = held /\ Pending' = Tail(Pending)
    BY <2>1, <2>2, HeldInFront
  <2>4. connected
    BY <2>1 DEF ConnectedInSession, InSession, Looping
  <2>5. CASE Emit
    <3>1. PICK e \in EventOf(discipline) :
             sent' = Append(sent, [msg |-> held, session |-> session, channel |-> e])
      BY <2>5 DEF Emit
    <3>2. e \in EventNames
      BY DEF EventOf, EventNames
    <3>3. Channel!Deliver
      BY <2>1, <2>3, <2>4, <3>1, <3>2 DEF Channel!Deliver
    <3>. QED
      BY <3>3 DEF Channel!Next
  <2>6. CASE EmitNothing \/ EmitFails
    <3>1. sent' = sent
      BY <2>6 DEF EmitNothing, EmitFails
    <3>2. Channel!Lose
      BY <2>1, <2>3, <2>4, <3>1 DEF Channel!Lose
    <3>. QED
      BY <3>2 DEF Channel!Next
  <2>. QED
    BY <1>12, <2>5, <2>6
<1>13. CASE Controlling
  <2>1. CASE StartThreads
    BY <2>1 DEF StartThreads
  <2>2. CASE ClickStart \/ FireAutoStart \/ ChangeDiscipline
    BY <2>2 DEF ClickStart, FireAutoStart, ChangeDiscipline
  <2>3. CASE StopClientSocketThread \/ StopWebSocketThread \/ JoinWeb
    BY <2>3 DEF StopClientSocketThread, StopWebSocketThread, JoinWeb
  <2>. QED
    BY <1>13, <2>1, <2>2, <2>3 DEF Controlling
<1>14. CASE UNCHANGED vars
  BY <1>14
<1>. QED
  BY <1>1, <1>2, <1>3, <1>4, <1>5, <1>6, <1>7, <1>8, <1>9, <1>10, <1>11, <1>12,
     <1>13, <1>14 DEF Next, Producing, WebStep

\* The feed implements the lossy ordered channel whose sessions start empty.
THEOREM FeedRefinesChannel == Spec => ImplementsChannel
<1>1. Init => Channel!Init
  BY DEF Init, Channel!Init, Pending
<1>2. FeedInv /\ [Next]_vars => [Channel!Next]_(Channel!vars)
  BY ChannelStep DEF FeedInv
<1>. QED
  BY <1>1, <1>2, FeedInvariant, PTL DEF Spec, ImplementsChannel, Channel!Spec

-----------------------------------------------------------------------------
\* The calls that saw an earlier session.

\* The invariant behind OneLateCallPerThread.
LateInv == LateIsFirst /\ SentBySession /\ OneLateCallPerThread

\* A step that moves no message, or only drops some, and does not enter Fresh
\* from outside, keeps LateInv.
LEMMA IdleKeepsLate ==
    ASSUME LateInv,
           UNCHANGED <<sent, session, call>>,
           queue' = queue \/ queue' = <<>>,
           pc' \in Fresh => pc \in Fresh,
           pc' = "emit" => pc = "emit" /\ held' = held
    PROVE  LateInv'
<1>1. SentBySession' /\ OneLateCallPerThread'
  BY DEF LateInv, SentBySession, OneLateCallPerThread
<1>2. LateIsFirst'
  <2>1. CASE queue' = queue
    BY <2>1 DEF LateInv, LateIsFirst, InTime, Reached, Fresh
  <2>2. CASE queue' = <<>>
    BY <2>2 DEF LateInv, LateIsFirst, InTime, Reached, Fresh
  <2>. QED
    BY <2>1, <2>2
<1>. QED
  BY <1>1, <1>2 DEF LateInv

\* A push keeps LateInv: if the call saw an earlier session, nothing of its
\* thread was there before it.
LEMMA PushKeepsLate ==
    ASSUME TypeOK, LateInv,
           UNCHANGED <<held, sent, session>>,
           pc' \in Fresh => pc \in Fresh,
           pc' = "emit" <=> pc = "emit",
           NEW o \in Offer, PushLocked(o),
           pc \in Fresh /\ Reached(o.by) => o.seen = session,
           \A p \in Producers : call'[p] # NoMessage =>
               call'[p] = call[p] /\ p # o.by
    PROVE  LateInv'
<1>. DEFINE m == [by |-> o.by, n |-> o.n, seen |-> o.seen, pushed |-> session]
<1>1. SentBySession' /\ OneLateCallPerThread'
  BY DEF LateInv, SentBySession, OneLateCallPerThread
<1>2. queue \in Seq(Message)
  BY DEF TypeOK
<1>3. \A i \in DOMAIN queue : i \in DOMAIN queue' /\ queue'[i] = queue[i]
  BY <1>2 DEF PushLocked
<1>4. \A j \in DOMAIN queue' :
         \/ j \in DOMAIN queue /\ queue'[j] = queue[j]
         \/ j \notin DOMAIN queue /\ queue'[j] = m
  BY <1>2 DEF PushLocked
<1>5. \A i, j \in DOMAIN queue' : i < j /\ j \in DOMAIN queue => i \in DOMAIN queue
  BY <1>2 DEF PushLocked
<1>6. \A i, j \in DOMAIN queue' : i < j /\ j \notin DOMAIN queue => i \in DOMAIN queue
  BY <1>2 DEF PushLocked
<1>8. ASSUME pc' \in Fresh
      PROVE  /\ \A i \in DOMAIN queue : InTime(queue[i], m)
             /\ \A i \in DOMAIN sent : sent[i].session = session => InTime(sent[i].msg, m)
             /\ pc = "emit" => InTime(held, m)
  BY <1>8 DEF InTime, Reached
<1>9. SUFFICES ASSUME pc' \in Fresh PROVE LateIsFirst'
  BY <1>1 DEF LateInv, LateIsFirst, Fresh
<1>10. pc \in Fresh
  BY <1>9
<1>11. \A i, j \in DOMAIN queue' : i < j => InTime(queue'[i], queue'[j])
  <2>. SUFFICES ASSUME NEW i \in DOMAIN queue', NEW j \in DOMAIN queue', i < j
                PROVE  InTime(queue'[i], queue'[j])
    OBVIOUS
  <2>1. CASE j \in DOMAIN queue
    BY <2>1, <1>3, <1>5, <1>10 DEF LateInv, LateIsFirst, Fresh
  <2>2. CASE j \notin DOMAIN queue
    <3>1. i \in DOMAIN queue /\ queue'[i] = queue[i] /\ queue'[j] = m
      BY <2>2, <1>3, <1>4, <1>6
    <3>. QED
      BY <3>1, <1>8, <1>9
  <2>. QED
    BY <2>1, <2>2
<1>12. \A i \in DOMAIN sent, j \in DOMAIN queue' :
          sent[i].session = session => InTime(sent[i].msg, queue'[j])
  BY <1>4, <1>8, <1>9, <1>10 DEF LateInv, LateIsFirst, Fresh
<1>13. pc = "emit" =>
          /\ \A i \in DOMAIN sent :
                sent[i].session = session => InTime(sent[i].msg, held)
          /\ \A j \in DOMAIN queue' : InTime(held, queue'[j])
  BY <1>4, <1>8, <1>9, <1>10 DEF LateInv, LateIsFirst, Fresh
<1>14. \A p \in Producers : call'[p] # NoMessage /\ Reached(p)' => call'[p].seen = session
  <2>. SUFFICES ASSUME NEW p \in Producers, call'[p] # NoMessage, Reached(p)'
                PROVE  call'[p].seen = session
    OBVIOUS
  <2>1. call'[p] = call[p] /\ p # o.by
    OBVIOUS
  <2>2. Reached(p)
    BY <1>4, <2>1 DEF Reached
  <2>. QED
    BY <1>10, <2>1, <2>2 DEF LateInv, LateIsFirst, Fresh
<1>. QED
  BY <1>11, <1>12, <1>13, <1>14 DEF LateIsFirst, InTime

\* Every step keeps LateInv.
LEMMA LateStep ==
    ASSUME TypeOK, ConnectedInSession, CallIsLast, LateInv, [Next]_vars
    PROVE  LateInv'
<1>. USE DEF Fresh, InSession, Looping, uiVars, prodVars, webVars, vars
<1>1. ASSUME NEW p \in Producers, CheckConnected(p) PROVE LateInv'
  <2>1. /\ UNCHANGED <<queue, held, sent, session, pc>>
        /\ call' = [call EXCEPT ![p] = [by |-> p, n |-> calls[p] + 1, seen |-> session]]
    BY <1>1 DEF CheckConnected
  <2>2. \A q \in Producers : call'[q] = call[q] \/ call'[q].seen = session
    BY <2>1 DEF TypeOK
  <2>3. \A q : Reached(q)' <=> Reached(q)
    BY <2>1 DEF Reached
  <2>4. SentBySession' /\ OneLateCallPerThread'
    BY <2>1 DEF LateInv, SentBySession, OneLateCallPerThread
  <2>5. LateIsFirst'
    BY <2>1, <2>2, <2>3 DEF LateInv, LateIsFirst, InTime
  <2>. QED
    BY <2>4, <2>5 DEF LateInv
<1>2. ASSUME NEW p \in Producers, Push(p) PROVE LateInv'
  <2>1. /\ UNCHANGED <<held, sent, session, pc>>
        /\ call[p] # NoMessage
        /\ call' = [call EXCEPT ![p] = NoMessage]
        /\ PushLocked(call[p])
    BY <1>2 DEF Push
  <2>2. call[p] \in Offer /\ call[p].by = p
    BY <2>1 DEF TypeOK, CallIsLast
  <2>3. \A q \in Producers : call'[q] # NoMessage => call'[q] = call[q] /\ q # p
    BY <2>1 DEF TypeOK
  <2>4. pc \in Fresh /\ Reached(p) => call[p].seen = session
    BY <2>1 DEF LateInv, LateIsFirst
  <2>. HIDE DEF Fresh
  <2>. QED
    BY <2>1, <2>2, <2>3, <2>4, PushKeepsLate
<1>3. CASE Dial \/ ConnectReturns \/ OpenSession \/ Subscribe \/ NoPdf \/ PdfReadHangs \/ Flushed
  BY <1>3, IdleKeepsLate DEF Dial, ConnectReturns, Connect, ConnectFails,
      ConnectThrows, OpenSession, Subscribe,
     NoPdf, PdfReadHangs, Flushed, LoopHead
<1>4. CASE Heartbeat \/ Disconnect \/ CloseSession \/ RunReturns
  BY <1>4, IdleKeepsLate DEF Heartbeat, Disconnect, CloseSession, RunReturns, LoopHead
<1>5. CASE ClearBefore
  <2>1. /\ queue' = <<>> /\ session' = session + 1 /\ pc' = "open"
        /\ UNCHANGED <<sent, call>>
    BY <1>5 DEF ClearBefore, ClearSendQueue
  <2>2. session \in Nat
    BY DEF TypeOK
  <2>3. \A i \in DOMAIN sent : sent[i].session \in Nat
    <3>. DEFINE Record == [msg : Message, session : 0..MaxSessions, channel : EventNames]
    <3>1. sent \in Seq(Record)
      BY DEF TypeOK
    <3>2. \A R : sent \in Seq(R) => \A i \in DOMAIN sent : sent[i] \in R
      OBVIOUS
    <3>3. \A i \in DOMAIN sent : sent[i] \in Record
      BY <3>1, <3>2
    <3>. QED
      BY <3>3
  <2>4. \A i \in DOMAIN sent : sent[i].session <= session' /\ sent[i].session # session'
    BY <2>1, <2>2, <2>3 DEF LateInv, SentBySession
  <2>5. \A s : ~Reached(s)'
    BY <2>1, <2>4 DEF Reached
  <2>6. LateIsFirst'
    BY <2>1, <2>5 DEF LateIsFirst
  <2>. QED
    BY <2>1, <2>4, <2>6 DEF LateInv, SentBySession, OneLateCallPerThread
<1>6. CASE ClearAfter
  BY <1>6, IdleKeepsLate DEF ClearAfter, ClearSendQueue
<1>7. CASE SendPdf
  <2>. DEFINE o == [by |-> Web, n |-> calls[Web] + 1, seen |-> session]
  <2>1. /\ UNCHANGED <<held, sent, session, call>>
        /\ pc = "pdf" /\ pc' = "flush" /\ calls[Web] < MaxCalls
        /\ PushLocked(o)
    BY <1>7 DEF SendPdf
  <2>2. o \in Offer
    BY <2>1 DEF Offer, Senders, TypeOK
  <2>3. o.by = Web /\ o.seen = session
    OBVIOUS
  <2>. HIDE DEF o, Fresh
  <2>4. pc' \in Fresh => pc \in Fresh
    BY <2>1 DEF Fresh
  <2>. QED
    BY <2>1, <2>2, <2>3, <2>4, PushKeepsLate
<1>8. CASE Pop
  <2>1. /\ UNCHANGED <<sent, session, call>>
        /\ pc = "flush" /\ pc' = "emit"
        /\ held' = Head(queue) /\ queue' = Tail(queue)
        /\ Len(queue) # 0
    BY <1>8 DEF Pop, NothingToSend
  <2>2. queue \in Seq(Message)
    BY DEF TypeOK
  <2>3. 1 \in DOMAIN queue /\ held' = queue[1]
    BY <2>1, <2>2
  <2>4. \A i \in DOMAIN queue' : i + 1 \in DOMAIN queue /\ queue'[i] = queue[i + 1] /\ i \in Nat /\ 1 < i + 1
    BY <2>1, <2>2
  <2>5. \A i, j \in DOMAIN queue' : i < j => i + 1 < j + 1
    BY <2>4
  <2>6. \A s : Reached(s)' => Reached(s)
    BY <2>1, <2>3, <2>4 DEF Reached
  <2>7. LateIsFirst'
    <3>1. \A i, j \in DOMAIN queue' : i < j => InTime(queue'[i], queue'[j])
      BY <2>1, <2>4, <2>5 DEF LateInv, LateIsFirst
    <3>2. \A i \in DOMAIN sent, j \in DOMAIN queue' :
             sent[i].session = session => InTime(sent[i].msg, queue'[j])
      BY <2>1, <2>4 DEF LateInv, LateIsFirst
    <3>3. \A i \in DOMAIN sent : sent[i].session = session => InTime(sent[i].msg, held')
      BY <2>1, <2>3 DEF LateInv, LateIsFirst
    <3>4. \A j \in DOMAIN queue' : InTime(held', queue'[j])
      BY <2>1, <2>3, <2>4 DEF LateInv, LateIsFirst
    <3>5. \A p \in Producers : call[p] # NoMessage /\ Reached(p)' => call[p].seen = session
      BY <2>1, <2>6 DEF LateInv, LateIsFirst
    <3>. QED
      BY <2>1, <3>1, <3>2, <3>3, <3>4, <3>5 DEF LateIsFirst, InTime
  <2>. QED
    BY <2>1, <2>7 DEF LateInv, SentBySession, OneLateCallPerThread
<1>9. CASE Emit
  <2>1. /\ UNCHANGED <<queue, session, call>>
        /\ pc = "emit" /\ pc' = "flush"
    BY <1>9 DEF Emit
  <2>2. PICK e \in EventOf(discipline) :
           sent' = Append(sent, [msg |-> held, session |-> session, channel |-> e])
    BY <1>9 DEF Emit
  <2>3. /\ DOMAIN sent' = DOMAIN sent \cup {Len(sent) + 1}
        /\ \A i \in DOMAIN sent : sent'[i] = sent[i] /\ i <= Len(sent) /\ i \in Nat
        /\ sent'[Len(sent) + 1].msg = held
        /\ sent'[Len(sent) + 1].session = session
        /\ Len(sent) \in Nat
    <3>. DEFINE Record == [msg : Message, session : 0..MaxSessions, channel : EventNames]
    <3>1. sent \in Seq(Record)
      BY DEF TypeOK
    <3>. HIDE DEF Record
    <3>. QED
      BY <2>2, <3>1
  <2>4. \A s : Reached(s)' => Reached(s)
    BY <2>1, <2>3 DEF Reached
  <2>5. SentBySession'
    <3>1. session \in Nat
      BY DEF TypeOK
    <3>. QED
      BY <2>1, <2>3, <3>1 DEF LateInv, SentBySession
  <2>6. OneLateCallPerThread'
    <3>. SUFFICES ASSUME NEW i \in DOMAIN sent', NEW j \in DOMAIN sent', i < j,
                         sent'[i].session = sent'[j].session,
                         sent'[i].msg.by = sent'[j].msg.by
                  PROVE  sent'[j].msg.seen = sent'[j].session
      BY DEF OneLateCallPerThread
    <3>1. i \in DOMAIN sent
      BY <2>3
    <3>2. CASE j \in DOMAIN sent
      BY <2>3, <3>1, <3>2 DEF LateInv, OneLateCallPerThread
    <3>3. CASE j = Len(sent) + 1
      BY <2>1, <2>3, <3>1, <3>3 DEF LateInv, LateIsFirst, InTime
    <3>. QED
      BY <2>3, <3>2, <3>3
  <2>7. LateIsFirst'
    <3>1. \A i \in DOMAIN sent', j \in DOMAIN queue :
             sent'[i].session = session => InTime(sent'[i].msg, queue[j])
      BY <2>1, <2>3 DEF LateInv, LateIsFirst
    <3>. QED
      BY <2>1, <2>4, <3>1 DEF LateInv, LateIsFirst, InTime
  <2>. QED
    BY <2>5, <2>6, <2>7 DEF LateInv
<1>10. CASE EmitNothing \/ EmitFails
  BY <1>10, IdleKeepsLate DEF EmitNothing, EmitFails
<1>11. CASE Controlling
  <2>1. CASE StartThreads
    BY <2>1, IdleKeepsLate DEF StartThreads
  <2>2. CASE ClickStart \/ FireAutoStart \/ ChangeDiscipline
    BY <2>2, IdleKeepsLate DEF ClickStart, FireAutoStart, ChangeDiscipline
  <2>3. CASE StopClientSocketThread \/ StopWebSocketThread \/ JoinWeb
    BY <2>3, IdleKeepsLate DEF StopClientSocketThread, StopWebSocketThread, JoinWeb
  <2>. QED
    BY <1>11, <2>1, <2>2, <2>3 DEF Controlling
<1>12. CASE UNCHANGED vars
  BY <1>12, IdleKeepsLate
<1>. QED
  BY <1>1, <1>2, <1>3, <1>4, <1>5, <1>6, <1>7, <1>8, <1>9, <1>10, <1>11, <1>12
     DEF Next, Producing, WebStep

\* The unlocked read of m_bConnected lets at most the first message of a thread
\* in a session come from a call that saw an earlier one, for any threads.
THEOREM OnlyFirstCallIsLate == Spec => []OneLateCallPerThread
<1>1. Init => LateInv
  <2>. SUFFICES ASSUME Init PROVE LateInv
    OBVIOUS
  <2>1. queue = <<>> /\ sent = <<>> /\ pc = "none"
    BY DEF Init
  <2>. QED
    BY <2>1 DEF LateInv, LateIsFirst, SentBySession, OneLateCallPerThread, InSession, Looping
<1>2. FeedInv /\ LateInv /\ [Next]_vars => LateInv'
  BY LateStep DEF FeedInv
<1>3. LateInv => OneLateCallPerThread
  BY DEF LateInv
<1>. QED
  BY <1>1, <1>2, <1>3, FeedInvariant, PTL DEF Spec

-----------------------------------------------------------------------------
\* The queue while there is no connection.

\* Where the web thread is when nobody can start a call.
Down == {"none", "connect", "dial", "clear", "open", "done"}

\* The number of producers between check and push, and how steps change it.
LEMMA PushingCount ==
    ASSUME TypeOK
    PROVE  /\ IsFiniteSet(Pushing)
           /\ Cardinality(Pushing) \in Nat
           /\ Cardinality(Pushing) <= Cardinality(Producers)
           /\ Cardinality(Producers) \in Nat
<1>1. Pushing \in SUBSET Producers
  BY DEF Pushing
<1>. QED
  BY <1>1, FS_Subset, FS_CardinalityType

\* A step that leaves the calls alone and clears the queue or leaves it alone,
\* and comes from a state where the thread was down or clears, keeps OnePushEach.
LEMMA IdleKeepsOnePush ==
    ASSUME TypeOK, OnePushEach, call' = call,
           \/ queue' = <<>>
           \/ queue' = queue /\ (pc' \in Down => pc \in Down)
    PROVE  OnePushEach'
<1>1. Pushing' = Pushing
  BY DEF Pushing
<1>2. CASE queue' = <<>>
  BY <1>1, <1>2, PushingCount DEF OnePushEach
<1>3. CASE queue' = queue /\ (pc' \in Down => pc \in Down)
  BY <1>1, <1>3 DEF OnePushEach, Down
<1>. QED
  BY <1>2, <1>3

\* Every step keeps OnePushEach.
LEMMA OnePushStep ==
    ASSUME TypeOK, ConnectedInSession, OnePushEach, [Next]_vars
    PROVE  OnePushEach'
<1>. USE DEF Down, uiVars, prodVars, webVars, vars
<1>1. ASSUME NEW p \in Producers, CheckConnected(p) PROVE OnePushEach'
  BY <1>1 DEF CheckConnected, ConnectedInSession, InSession, Looping, OnePushEach
<1>2. ASSUME NEW p \in Producers, Push(p) PROVE OnePushEach'
  <2>1. /\ pc' = pc
        /\ call[p] # NoMessage
        /\ call' = [call EXCEPT ![p] = NoMessage]
    BY <1>2 DEF Push
  <2>2. Pushing' = Pushing \ {p} /\ p \in Pushing
    BY <2>1 DEF Pushing, TypeOK
  <2>3. Cardinality(Pushing') = Cardinality(Pushing) - 1
    BY <2>2, PushingCount, FS_RemoveElement
  <2>4. queue \in Seq(Message)
    BY DEF TypeOK
  <2>5. Len(queue') <= Len(queue) + 1 /\ Len(queue') \in Nat /\ Len(queue) \in Nat
    BY <1>2, <2>4 DEF Push, PushLocked
  <2>. QED
    BY <2>1, <2>3, <2>5, PushingCount DEF OnePushEach
<1>3. CASE Dial \/ ConnectReturns \/ ClearBefore \/ OpenSession
  BY <1>3, IdleKeepsOnePush DEF Dial, ConnectReturns, Connect, ConnectFails,
      ConnectThrows, ClearBefore, OpenSession,
     ClearSendQueue
<1>4. CASE Subscribe \/ NoPdf \/ PdfReadHangs \/ Flushed \/ Heartbeat \/ Disconnect \/ CloseSession
  BY <1>4 DEF Subscribe, NoPdf, PdfReadHangs, Flushed, Heartbeat, Disconnect,
     CloseSession, LoopHead, OnePushEach
<1>5. CASE SendPdf \/ Pop \/ Emit
  BY <1>5 DEF SendPdf, Pop, Emit, OnePushEach
<1>6. CASE EmitNothing \/ EmitFails
  BY <1>6 DEF EmitNothing, EmitFails, OnePushEach
<1>7. CASE ClearAfter \/ RunReturns
  BY <1>7, IdleKeepsOnePush DEF ClearAfter, RunReturns, ClearSendQueue
<1>8. CASE Controlling
  <2>1. CASE StartThreads
    BY <2>1, IdleKeepsOnePush DEF StartThreads
  <2>2. CASE ClickStart \/ FireAutoStart \/ ChangeDiscipline
    BY <2>2, IdleKeepsOnePush DEF ClickStart, FireAutoStart, ChangeDiscipline
  <2>3. CASE StopClientSocketThread \/ StopWebSocketThread \/ JoinWeb
    BY <2>3, IdleKeepsOnePush DEF StopClientSocketThread, StopWebSocketThread, JoinWeb
  <2>. QED
    BY <1>8, <2>1, <2>2, <2>3 DEF Controlling
<1>9. CASE UNCHANGED vars
  BY <1>9, IdleKeepsOnePush
<1>. QED
  BY <1>1, <1>2, <1>3, <1>4, <1>5, <1>6, <1>7, <1>8, <1>9 DEF Next, Producing, WebStep

\* While the feed is down the queue holds at most one message per producer,
\* however many there are and however their pushes are delayed.
THEOREM QueueIsBoundedWhileDown == Spec => []BoundedWhileDown
<1>1. Init => OnePushEach
  <2>. SUFFICES ASSUME Init PROVE OnePushEach
    OBVIOUS
  <2>1. Len(queue) = 0 /\ TypeOK
    BY InitTypeOK DEF Init
  <2>. QED
    BY <2>1, PushingCount DEF OnePushEach
<1>2. FeedInv /\ OnePushEach /\ [Next]_vars => OnePushEach'
  BY OnePushStep DEF FeedInv
<1>3. FeedInv /\ OnePushEach => BoundedWhileDown
  <2>. SUFFICES ASSUME TypeOK, OnePushEach PROVE BoundedWhileDown
    BY DEF FeedInv
  <2>1. Len(queue) \in Nat
    BY DEF TypeOK
  <2>. QED
    BY <2>1, PushingCount DEF OnePushEach, BoundedWhileDown
<1>. QED
  BY <1>1, <1>2, <1>3, FeedInvariant, PTL DEF Spec
=============================================================================
