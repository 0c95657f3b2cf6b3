------------------------------ MODULE WebFeed ------------------------------
(***************************************************************************)
(* The outgoing half of the bridge: WebSocketRunnable (the web thread and  *)
(* its send queue), the threads that call AddToSendQueue, and the parts of *)
(* EquestreLogic and of the main dialog that start, stop and join them.    *)
(*                                                                         *)
(* A call of AddToSendQueue is two steps, because m_bConnected is read     *)
(* before the mutex is taken.  The web thread has a program counter with   *)
(* one value per call it makes in run().                                   *)
(***************************************************************************)
EXTENDS Naturals, Sequences, FiniteSets

CONSTANTS
    Producers,     \* threads that call AddToSendQueue: client thread, UI thread
    Client,        \* the producer that is the chrono client thread
    Web,           \* the web thread, itself a sender (SendPdf)
    Disciplines,   \* values m_discipline takes
    MaxCalls,      \* bound: calls of AddToSendQueue per sender
    MaxSessions    \* bound: successful connects

Senders == Producers \cup {Web}

ASSUME FeedAssumption ==
    /\ Client \in Producers
    /\ Web \notin Producers
    /\ IsFiniteSet(Producers)
    /\ Disciplines # {}
    /\ Disciplines \subseteq Nat
    /\ MaxCalls \in Nat
    /\ MaxSessions \in Nat

VARIABLES
    app,           \* life of the program, seen from the UI thread
    autoStart,     \* timer 2 ("Auto Start") is armed
    runFlag,       \* m_bRunFlag of WebSocketRunnable
    sendFlag,      \* m_bSendFlag
    connected,     \* m_bConnected
    discipline,    \* MyEquestreDb->m_discipline
    queue,         \* m_sendMessage
    pc,            \* where the web thread is in run() / FlushSendBuffer()
    held,          \* message popped by GetFromSendQueue and not yet emitted
    call,          \* call[p]: message of a producer between check and push
    calls,         \* ghost: calls[s], calls that passed the check, by sender
    session,       \* ghost: sessions begun by the web thread
    sent           \* ghost: what was emitted, in order

uiVars   == <<app, autoStart, runFlag, sendFlag>>
prodVars == <<call, calls>>
webVars  == <<connected, pc, held, session, sent>>
vars == <<uiVars, prodVars, webVars, discipline, queue>>

-----------------------------------------------------------------------------
\* A message is identified by who sent it and its number among that sender's
\* calls; seen and pushed are the sessions at the check and at the push.
Message == [by : Senders, n : 1..MaxCalls,
            seen : 0..MaxSessions, pushed : 0..MaxSessions]

\* What a producer carries from the check to the push.
Offer == [by : Senders, n : 1..MaxCalls, seen : 0..MaxSessions]

NoMessage == [by |-> "none"]

EventNames == {"push", "push_cross"}

Looping == {"pdf", "flush", "emit", "beat"}
InSession == {"subscribe", "stuck", "close", "down"} \cup Looping
PcValues == {"none", "connect", "dial", "clear", "open", "reset", "done"} \cup InSession

\* OnInitDialog loads the database before it starts the threads, so any
\* discipline may be there.
Init ==
    /\ app = "start"
    /\ autoStart = FALSE
    /\ runFlag = FALSE
    /\ sendFlag = FALSE
    /\ connected = FALSE
    /\ discipline \in Disciplines
    /\ queue = <<>>
    /\ pc = "none"
    /\ held = NoMessage
    /\ call = [p \in Producers |-> NoMessage]
    /\ calls = [s \in Senders |-> 0]
    /\ session = 0
    /\ sent = <<>>

-----------------------------------------------------------------------------
(* AddToSendQueue, ClearSendQueue, GetFromSendQueue                         *)

\* A thread that may be inside AddToSendQueue: the UI thread while the dialog
\* is open, the client thread until it is joined.
Runs(p) == app = "open" \/ (app = "closing" /\ p = Client)

\* Mutant of PushLocked: the newest message goes to the front.
PushInFront(o) ==
    queue' = IF sendFlag
             THEN <<[by |-> o.by, n |-> o.n, seen |-> o.seen,
                     pushed |-> session]>> \o queue
             ELSE queue

\* Mutant of PushLocked: a message that finds another one waiting is not added.
PushOnlyFirst(o) ==
    queue' = IF sendFlag /\ queue = <<>>
             THEN <<[by |-> o.by, n |-> o.n, seen |-> o.seen,
                     pushed |-> session]>>
             ELSE queue

\* Locked part of AddToSendQueue: the message is kept if the feed is started.
PushLocked(o) ==
    queue' = IF sendFlag
             THEN Append(queue, [by |-> o.by, n |-> o.n, seen |-> o.seen,
                                 pushed |-> session])
             ELSE queue

\* First line of AddToSendQueue: m_bConnected is read with no lock held.
CheckConnected(p) ==
    /\ Runs(p)
    /\ call[p] = NoMessage
    /\ connected
    /\ calls[p] < MaxCalls
    /\ calls' = [calls EXCEPT ![p] = @ + 1]
    /\ call' = [call EXCEPT ![p] = [by |-> p, n |-> calls[p] + 1,
                                    seen |-> session]]
    /\ UNCHANGED <<uiVars, webVars, discipline, queue>>

\* The rest of AddToSendQueue, under the mutex.
Push(p) ==
    /\ call[p] # NoMessage
    /\ PushLocked(call[p])
    /\ call' = [call EXCEPT ![p] = NoMessage]
    /\ UNCHANGED <<uiVars, webVars, discipline, calls>>

\* Mutant of ClearSendQueue: it clears nothing.
KeepSendQueue == UNCHANGED queue

ClearSendQueue == queue' = <<>>

\* The test of GetFromSendQueue: nothing to pop.
NothingToSend == Len(queue) = 0

\* The event a message is emitted under; any other discipline emits nothing.
EventOf(d) ==
    IF d \in {0, 3} THEN {"push"}
    ELSE IF d = 2 THEN {"push_cross"}
    ELSE {}

-----------------------------------------------------------------------------
(* The web thread: WebSocketRunnable::run                                   *)

\* while (m_bRunFlag) of the outer loop: SIOClient::connect is called.
Dial ==
    /\ pc = "connect"
    /\ runFlag
    /\ pc' = "dial"
    /\ UNCHANGED <<uiVars, prodVars, connected, held, session, sent,
                   discipline, queue>>

\* SIOClient::connect returned a client.  The run flag may be down by now: the
\* session is begun all the same, and ended at the test of the inner loop.
Connect ==
    /\ pc = "dial"
    /\ session < MaxSessions
    /\ pc' = "clear"
    /\ UNCHANGED <<uiVars, prodVars, connected, held, session, sent,
                   discipline, queue>>

\* It returned NULL: the thread sleeps and tries again.
ConnectFails ==
    /\ pc = "dial"
    /\ pc' = "connect"
    /\ UNCHANGED <<uiVars, prodVars, connected, held, session, sent,
                   discipline, queue>>

\* The handshake inside SIOClient::connect met a reply it cannot parse: the
\* exception leaves run(), outside its try block, and ends the thread.
ConnectThrows ==
    /\ pc = "dial"
    /\ pc' = "done"
    /\ UNCHANGED <<uiVars, prodVars, connected, held, session, sent,
                   discipline, queue>>

\* Mutant of ClearBefore: the session begins with what is queued.
BeginUncleared ==
    /\ pc = "clear"
    /\ session' = session + 1
    /\ pc' = "open"
    /\ UNCHANGED <<uiVars, prodVars, connected, held, sent, discipline, queue>>

\* ClearSendQueue before the session: what is left from the last one goes.
ClearBefore ==
    /\ pc = "clear"
    /\ ClearSendQueue
    /\ session' = session + 1
    /\ pc' = "open"
    /\ UNCHANGED <<uiVars, prodVars, connected, held, sent, discipline>>

OpenSession ==
    /\ pc = "open"
    /\ connected' = TRUE
    /\ pc' = "subscribe"
    /\ UNCHANGED <<uiVars, prodVars, held, session, sent, discipline, queue>>

\* Mutant of LoopHead: the inner loop does not look at the run flag.
LoopForEver == "pdf"

\* while (m_bRunFlag) of the inner loop.
LoopHead == IF runFlag THEN "pdf" ELSE "close"

\* emit("subscribe", "provider") succeeds, or throws into the catch block.
Subscribe ==
    /\ pc = "subscribe"
    /\ \/ pc' = LoopHead
       \/ pc' = "close"
    /\ UNCHANGED <<uiVars, prodVars, connected, held, session, sent,
                   discipline, queue>>

\* SendPdf found new published files: the web thread adds to its own queue.
SendPdf ==
    /\ pc = "pdf"
    /\ calls[Web] < MaxCalls
    /\ calls' = [calls EXCEPT ![Web] = @ + 1]
    /\ PushLocked([by |-> Web, n |-> calls[Web] + 1, seen |-> session])
    /\ pc' = "flush"
    /\ UNCHANGED <<uiVars, call, connected, held, session, sent, discipline>>

\* SendPdf found nothing new.
NoPdf ==
    /\ pc = "pdf"
    /\ pc' = "flush"
    /\ UNCHANGED <<uiVars, prodVars, connected, held, session, sent,
                   discipline, queue>>

\* SendPdf reads the newest published file up to eof(), which a stream that
\* could not be opened never reaches: the thread reads for ever.
PdfReadHangs ==
    /\ pc = "pdf"
    /\ pc' = "stuck"
    /\ UNCHANGED <<uiVars, prodVars, connected, held, session, sent,
                   discipline, queue>>

\* GetFromSendQueue returned a message.
Pop ==
    /\ pc = "flush"
    /\ ~NothingToSend
    /\ held' = Head(queue)
    /\ queue' = Tail(queue)
    /\ pc' = "emit"
    /\ UNCHANGED <<uiVars, prodVars, connected, session, sent, discipline>>

\* GetFromSendQueue returned false: FlushSendBuffer is over.
Flushed ==
    /\ pc = "flush"
    /\ NothingToSend
    /\ pc' = "beat"
    /\ UNCHANGED <<uiVars, prodVars, connected, held, session, sent,
                   discipline, queue>>

\* The popped message is emitted under the event of the discipline of now.
Emit ==
    /\ pc = "emit"
    /\ \E e \in EventOf(discipline) :
          sent' = Append(sent, [msg |-> held, session |-> session,
                                channel |-> e])
    /\ held' = NoMessage
    /\ pc' = "flush"
    /\ UNCHANGED <<uiVars, prodVars, connected, session, discipline, queue>>

\* No branch for this discipline: the popped message is dropped silently.
EmitNothing ==
    /\ pc = "emit"
    /\ EventOf(discipline) = {}
    /\ held' = NoMessage
    /\ pc' = "flush"
    /\ UNCHANGED <<uiVars, prodVars, connected, session, sent, discipline,
                   queue>>

\* Mutant of EmitFails: the message that failed is kept in hand.
EmitFailsHolding ==
    /\ pc = "emit"
    /\ EventOf(discipline) # {}
    /\ pc' = "close"
    /\ UNCHANGED <<uiVars, prodVars, connected, held, session, sent, discipline,
                   queue>>

\* Mutant of EmitFails: the message that failed is queued again.
EmitFailsRequeued ==
    /\ pc = "emit"
    /\ EventOf(discipline) # {}
    /\ queue' = Append(queue, held)
    /\ held' = NoMessage
    /\ pc' = "close"
    /\ UNCHANGED <<uiVars, prodVars, connected, session, sent, discipline>>

\* Mutant of EmitFails: the loop goes on with the next message.
EmitFailsGoesOn ==
    /\ pc = "emit"
    /\ EventOf(discipline) # {}
    /\ held' = NoMessage
    /\ pc' = "flush"
    /\ UNCHANGED <<uiVars, prodVars, connected, session, sent, discipline,
                   queue>>

\* emit threw: the popped message is lost and run() leaves the loop.
EmitFails ==
    /\ pc = "emit"
    /\ EventOf(discipline) # {}
    /\ held' = NoMessage
    /\ pc' = "close"
    /\ UNCHANGED <<uiVars, prodVars, connected, session, sent, discipline,
                   queue>>

\* The heartbeat (if due) and the sleep, then the loop test; send("heartbeat")
\* may throw into the catch block.
Heartbeat ==
    /\ pc = "beat"
    /\ \/ pc' = LoopHead
       \/ pc' = "close"
    /\ UNCHANGED <<uiVars, prodVars, connected, held, session, sent,
                   discipline, queue>>

\* m_sio->disconnect(), after the loop or in the catch block.
Disconnect ==
    /\ pc = "close"
    /\ pc' = "down"
    /\ UNCHANGED <<uiVars, prodVars, connected, held, session, sent,
                   discipline, queue>>

\* Mutant of CloseSession: m_bConnected stays set.
CloseStillConnected ==
    /\ pc = "down"
    /\ pc' = "reset"
    /\ UNCHANGED <<uiVars, prodVars, connected, held, session, sent, discipline,
                   queue>>

CloseSession ==
    /\ pc = "down"
    /\ connected' = FALSE
    /\ pc' = "reset"
    /\ UNCHANGED <<uiVars, prodVars, held, session, sent, discipline, queue>>

ClearAfter ==
    /\ pc = "reset"
    /\ ClearSendQueue
    /\ pc' = "connect"
    /\ UNCHANGED <<uiVars, prodVars, connected, held, session, sent,
                   discipline>>

\* while (m_bRunFlag) of the outer loop is over: run() returns.
RunReturns ==
    /\ pc = "connect"
    /\ ~runFlag
    /\ pc' = "done"
    /\ UNCHANGED <<uiVars, prodVars, connected, held, session, sent,
                   discipline, queue>>

\* The call of SIOClient::connect ends, one way or another.
ConnectReturns == Connect \/ ConnectFails \/ ConnectThrows

\* The steps the thread takes on its own: everything but the end of
\* SIOClient::connect and the read of a file that is not there.
WebStep ==
    \/ Dial \/ ClearBefore \/ OpenSession \/ Subscribe \/ SendPdf \/ NoPdf
    \/ Pop \/ Flushed \/ Emit \/ EmitNothing \/ EmitFails
    \/ Heartbeat \/ Disconnect \/ CloseSession \/ ClearAfter \/ RunReturns

-----------------------------------------------------------------------------
(* The UI thread: OnInitDialog, the START button, timer 2, ~EquestreLogic   *)

\* OnInitDialog: StartWebSocketThread (the thread is not running yet), timers.
StartThreads ==
    /\ app = "start"
    /\ pc = "none"
    /\ app' = "open"
    /\ runFlag' = TRUE
    /\ pc' = "connect"
    /\ autoStart' = TRUE
    /\ UNCHANGED <<sendFlag, prodVars, connected, held, session, sent,
                   discipline, queue>>

\* OnBnClickedStartBtn: START becomes STOP and back.
ToggleStart == sendFlag' = ~sendFlag

ClickStart ==
    /\ app = "open"
    /\ ToggleStart
    /\ UNCHANGED <<app, autoStart, runFlag, prodVars, webVars, discipline, queue>>

\* OnTimer(2): the same handler, then KillTimer(2).
FireAutoStart ==
    /\ app = "open"
    /\ autoStart
    /\ ToggleStart
    /\ autoStart' = FALSE
    /\ UNCHANGED <<app, runFlag, prodVars, webVars, discipline, queue>>

\* A load of the database, by the UI or the client thread, may set another
\* discipline at any moment: no lock protects it.
ChangeDiscipline ==
    /\ app \in {"open", "closing"}
    /\ \E d \in Disciplines \ {discipline} : discipline' = d
    /\ UNCHANGED <<uiVars, prodVars, webVars, queue>>

\* ~EquestreLogic: the client thread is told to stop first.  The UI thread
\* runs the destructor, so it is not inside AddToSendQueue.
StopClientSocketThread ==
    /\ app = "open"
    /\ \A p \in Producers \ {Client} : call[p] = NoMessage
    /\ app' = "closing"
    /\ UNCHANGED <<autoStart, runFlag, sendFlag, prodVars, webVars, discipline,
                   queue>>

\* The client thread is joined; then the web thread is told to stop.
StopWebSocketThread ==
    /\ app = "closing"
    /\ call[Client] = NoMessage
    /\ app' = "stopping"
    /\ runFlag' = FALSE
    /\ UNCHANGED <<autoStart, sendFlag, prodVars, webVars, discipline, queue>>

JoinWeb ==
    /\ app = "stopping"
    /\ pc = "done"
    /\ app' = "closed"
    /\ UNCHANGED <<autoStart, runFlag, sendFlag, prodVars, webVars, discipline,
                   queue>>

-----------------------------------------------------------------------------
Producing == \E p \in Producers : CheckConnected(p) \/ Push(p)

Controlling ==
    \/ StartThreads \/ ClickStart \/ FireAutoStart \/ ChangeDiscipline
    \/ StopClientSocketThread \/ StopWebSocketThread \/ JoinWeb

Next ==
    \/ Producing \/ Controlling
    \/ ConnectReturns \/ PdfReadHangs \/ WebStep

Spec == Init /\ [][Next]_vars

\* Threads that are not waiting for anyone go on, and SIOClient::connect returns:
\* the HTTP session of the handshake has a time-out, and openSocket gives up after
\* a second.  Nothing is assumed about how it returns, or about the user or the
\* discipline.
Fairness ==
    /\ WF_vars(WebStep)
    /\ WF_vars(ConnectReturns)
    /\ \A p \in Producers : WF_vars(Push(p))
    /\ WF_vars(StopWebSocketThread)
    /\ WF_vars(JoinWeb)

FairSpec == Spec /\ Fairness

-----------------------------------------------------------------------------
(* Properties                                                               *)

\* Every variable has its type, and the popped message exists exactly while
\* the web thread is about to emit it.
TypeOK ==
    /\ app \in {"start", "open", "closing", "stopping", "closed"}
    /\ autoStart \in BOOLEAN
    /\ runFlag \in BOOLEAN
    /\ sendFlag \in BOOLEAN
    /\ connected \in BOOLEAN
    /\ discipline \in Disciplines
    /\ queue \in Seq(Message)
    /\ pc \in PcValues
    /\ held \in Message \cup {NoMessage}
    /\ pc = "emit" <=> held # NoMessage
    /\ call \in [Producers -> Offer \cup {NoMessage}]
    /\ calls \in [Senders -> 0..MaxCalls]
    /\ session \in 0..MaxSessions
    /\ pc = "clear" => session < MaxSessions
    /\ sent \in Seq([msg : Message, session : 0..MaxSessions,
                     channel : EventNames])

\* What has been accepted and not yet emitted, dropped or cleared.
Pending == IF pc = "emit" THEN <<held>> \o queue ELSE queue

\* Two messages of one sender are in the order of its calls.
InCallOrder(m1, m2) == m1.by = m2.by => m1.n < m2.n

\* The browser side sees the messages of one thread in the order that thread
\* sent them and sees none twice, across disconnects, failed emits and
\* reconnects: FlushSendBuffer, AddToSendQueue and ClearSendQueue together.
SentInCallOrder ==
    \A i, j \in DOMAIN sent :
        i < j => InCallOrder(sent[i].msg, sent[j].msg)

\* Nothing that was queued before a session began goes out in it: a thread
\* that read m_bConnected just before the loss of the connection may push
\* after the last ClearSendQueue, and the one before the session removes it.
NoStaleBacklog ==
    \A i \in DOMAIN sent : sent[i].msg.pushed = sent[i].session

\* The unlocked read of m_bConnected lets a call that began in an earlier
\* session reach this one, but only one call of each thread.
OneLateCallPerThread ==
    \A i, j \in DOMAIN sent :
        /\ i < j
        /\ sent[i].session = sent[j].session
        /\ sent[i].msg.by = sent[j].msg.by
        => sent[j].msg.seen = sent[j].session

\* While there is no connection the queue cannot grow: after the closing
\* ClearSendQueue it holds at most the one late push of each producer.
BoundedWhileDown ==
    (pc \in {"connect", "dial", "clear", "open", "done"}) =>
        Len(queue) <= Cardinality(Producers)

\* ~EquestreLogic returns: both joins end, wherever the web thread was when
\* the run flag went down; only a file it cannot open keeps it for ever.
ShutdownCompletes == (app = "closing") ~> (app = "closed" \/ pc = "stuck")

\* Timer 2 is set in OnInitDialog with the comment "Auto Start": when it has
\* fired, the feed is started.
AutoStartStarts ==
    [][autoStart /\ ~autoStart' => sendFlag']_vars

\* --- Parts of the inductive invariant behind the theorems of WebFeed_proofs

\* m_bConnected tells the other threads exactly whether a session is up.
ConnectedInSession == connected <=> pc \in InSession

\* The calls of s that are over: pushed, or dropped by the send flag.
Finished(s) ==
    IF s \in Producers THEN (IF call[s] = NoMessage THEN calls[s] ELSE calls[s] - 1)
    ELSE calls[s]

\* A call in progress is the last one of its thread.
CallIsLast ==
    \A p \in Producers : call[p] # NoMessage =>
        call[p].by = p /\ call[p].n = calls[p] /\ calls[p] > 0

\* What has been pushed comes from a finished call.
PushedFinished ==
    /\ \A i \in DOMAIN queue : queue[i].n <= Finished(queue[i].by)
    /\ pc = "emit" => held.n <= Finished(held.by)
    /\ \A i \in DOMAIN sent : sent[i].msg.n <= Finished(sent[i].msg.by)

\* Emitted, held and queued messages follow one another in call order.
OrderedThroughout ==
    /\ SentInCallOrder
    /\ \A i, j \in DOMAIN queue : i < j => InCallOrder(queue[i], queue[j])
    /\ \A i \in DOMAIN sent, j \in DOMAIN queue : InCallOrder(sent[i].msg, queue[j])
    /\ pc = "emit" =>
          /\ \A i \in DOMAIN sent : InCallOrder(sent[i].msg, held)
          /\ \A j \in DOMAIN queue : InCallOrder(held, queue[j])

\* From the opening ClearSendQueue to the close, only what was pushed in this
\* session is queued.
FreshInSession ==
    pc \in InSession \cup {"open"} =>
        /\ \A i \in DOMAIN queue : queue[i].pushed = session
        /\ pc = "emit" => held.pushed = session

\* If one thread sent both, the second call saw this session.
InTime(m1, m2) == m1.by = m2.by => m2.seen = session

\* A message of s has reached this session: emitted, in hand or queued.
Reached(s) ==
    \/ \E i \in DOMAIN sent : sent[i].session = session /\ sent[i].msg.by = s
    \/ pc = "emit" /\ held.by = s
    \/ \E i \in DOMAIN queue : queue[i].by = s

\* In a session, a call that saw an earlier one is the first of its thread, and
\* so is a call still to be pushed.
LateIsFirst ==
    pc \in InSession \cup {"open"} =>
        /\ \A i, j \in DOMAIN queue : i < j => InTime(queue[i], queue[j])
        /\ \A i \in DOMAIN sent, j \in DOMAIN queue :
              sent[i].session = session => InTime(sent[i].msg, queue[j])
        /\ pc = "emit" =>
              /\ \A i \in DOMAIN sent :
                    sent[i].session = session => InTime(sent[i].msg, held)
              /\ \A j \in DOMAIN queue : InTime(held, queue[j])
        /\ \A p \in Producers :
              call[p] # NoMessage /\ Reached(p) => call[p].seen = session

SentBySession == \A i \in DOMAIN sent : sent[i].session <= session

\* Producers between the check and the push.
Pushing == {p \in Producers : call[p] # NoMessage}

\* While nobody can start a call, what is queued and what is still to be
\* pushed are at most one message per producer.
OnePushEach ==
    pc \in {"none", "connect", "dial", "clear", "open", "done"} =>
        Len(queue) + Cardinality(Pushing) <= Cardinality(Producers)

FeedInv ==
    /\ TypeOK
    /\ ConnectedInSession
    /\ CallIsLast
    /\ PushedFinished
    /\ OrderedThroughout
    /\ FreshInSession
    /\ NoStaleBacklog

\* The abstract channel this module implements.
Channel == INSTANCE FeedChannel
    WITH Messages <- Message, Channels <- EventNames,
         open <- connected, pending <- Pending, delivered <- sent

\* Queue, flags, mutex and threads together behave as the lossy ordered
\* channel of FeedChannel, whose sessions start empty.
ImplementsChannel == Channel!Spec
=============================================================================
