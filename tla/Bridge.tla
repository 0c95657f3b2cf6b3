------------------------------- MODULE Bridge -------------------------------
(***************************************************************************)
(* Both halves of the program together: the client thread announces a      *)
(* competition by a series of lists (Connected and OnLoadTI: event, start  *)
(* list, teams, horses, riders, ranking) while the web thread loses and    *)
(* finds its server.  Nobody tells the client thread that a new session    *)
(* began, and nothing is sent again for it.                                *)
(*                                                                         *)
(* A list is one call of AddToSendQueue; the steps of the call and of the  *)
(* web thread are those of WebFeed.                                        *)
(***************************************************************************)
EXTENDS WebFeed

CONSTANTS
    Lists,         \* number of lists in a series
    MaxSeries,     \* bound on series
    MaxOthers,     \* bound: calls of all other senders together
    OthersFrom     \* bound: calls of the client thread before the first of them

\* The competition is of a discipline that has an event of its own: for any
\* other value run() emits nothing, and no list arrives.
ASSUME BridgeAssumption ==
    /\ Lists \in Nat \ {0} /\ MaxSeries \in Nat /\ MaxOthers \in Nat
    /\ OthersFrom \in Nat
    /\ \A d \in Disciplines : EventOf(d) # {}

VARIABLES
    todo,          \* lists of the current series not yet handed over
    clientRuns,    \* the client thread has not been ended by an exception
    offers         \* ghost: what became of each list, in order

bridgeVars == <<todo, clientRuns, offers>>
allVars == <<vars, bridgeVars>>

\* A list that was not built, or that AddToSendQueue turned away, has no number
\* among the calls.
Fates == {"unbuilt", "skipped", "pending", "kept", "dropped"}
List == [fate : Fates, n : 0..MaxCalls]

BridgeInit == Init /\ todo = 0 /\ clientRuns = TRUE /\ offers = <<>>

-----------------------------------------------------------------------------
(* The client thread                                                        *)

\* The chronometer connected, or sent LOADTI: a series of lists begins.
BeginSeries ==
    /\ Runs(Client) /\ clientRuns
    /\ todo = 0 /\ call[Client] = NoMessage
    /\ Len(offers) < Lists * MaxSeries
    /\ todo' = Lists
    /\ UNCHANGED <<vars, clientRuns, offers>>

\* The next list: m_bConnected is set, the call goes on to the mutex.
OfferList ==
    /\ todo > 0
    /\ CheckConnected(Client)
    /\ todo' = todo - 1
    /\ offers' = Append(offers, [fate |-> "pending", n |-> calls[Client] + 1])
    /\ UNCHANGED clientRuns

\* The next list: there is no session, AddToSendQueue returns at once.
SkipList ==
    /\ todo > 0
    /\ Runs(Client) /\ call[Client] = NoMessage
    /\ ~connected
    /\ todo' = todo - 1
    /\ offers' = Append(offers, [fate |-> "skipped", n |-> 0])
    /\ UNCHANGED <<vars, clientRuns>>

\* The next list: m_bLoaded is not set, because a load of the UI thread is in
\* progress or the last one failed, and the Send* method returns at once.
LeaveOutList ==
    /\ todo > 0
    /\ Runs(Client) /\ call[Client] = NoMessage
    /\ todo' = todo - 1
    /\ offers' = Append(offers, [fate |-> "unbuilt", n |-> 0])
    /\ UNCHANGED <<vars, clientRuns>>

\* UpdateRanking opens its files outside any try block: the ranking list, the
\* last of the series, ends the client thread.
RankingThrows ==
    /\ todo = 1
    /\ Runs(Client) /\ call[Client] = NoMessage
    /\ todo' = 0
    /\ clientRuns' = FALSE
    /\ offers' = Append(offers, [fate |-> "unbuilt", n |-> 0])
    /\ UNCHANGED vars

\* The list is queued, or dropped because the feed is stopped.
PushList ==
    /\ Push(Client)
    /\ offers' = [offers EXCEPT ![Len(offers)].fate =
                      IF sendFlag THEN "kept" ELSE "dropped"]
    /\ UNCHANGED <<todo, clientRuns>>

NextList == OfferList \/ SkipList \/ LeaveOutList \/ RankingThrows

ClientThread == BeginSeries \/ NextList \/ PushList

\* The join of the client thread waits for the end of the series.
JoinClient == StopWebSocketThread /\ todo = 0 /\ UNCHANGED bridgeVars

-----------------------------------------------------------------------------
(* The other threads: the steps of WebFeed                                   *)

\* Bounds of the instance: the other senders together make few calls, and none
\* before the client thread has made some.
FewOthers ==
    \/ calls' = calls
    \/ /\ calls[Client] >= OthersFrom
       /\ Cardinality({c \in (Senders \ {Client}) \X (1..MaxCalls) : c[2] <= calls'[c[1]]})
             <= MaxOthers

WebThread ==
    /\ ConnectReturns \/ PdfReadHangs \/ WebStep
    /\ FewOthers
    /\ UNCHANGED bridgeVars

OtherProducers ==
    /\ \E p \in Producers \ {Client} : CheckConnected(p) \/ Push(p)
    /\ FewOthers
    /\ UNCHANGED bridgeVars

UIThread ==
    /\ \/ StartThreads \/ ClickStart \/ FireAutoStart \/ ChangeDiscipline
       \/ StopClientSocketThread \/ JoinWeb
    /\ UNCHANGED bridgeVars

BridgeNext == ClientThread \/ JoinClient \/ WebThread \/ OtherProducers \/ UIThread

BridgeSpec == BridgeInit /\ [][BridgeNext]_allVars

\* The fairness of WebFeed, and a client thread that finishes its series: its
\* sleeps end, and the mutex is held for a few instructions only.
BridgeFairness ==
    /\ WF_allVars(WebStep /\ FewOthers /\ UNCHANGED bridgeVars)
    /\ WF_allVars(ConnectReturns /\ FewOthers /\ UNCHANGED bridgeVars)
    /\ \A p \in Producers \ {Client} : WF_allVars(Push(p) /\ UNCHANGED bridgeVars)
    /\ WF_allVars(NextList \/ PushList)
    /\ WF_allVars(JoinClient)
    /\ WF_allVars(JoinWeb /\ UNCHANGED bridgeVars)

BridgeFairSpec == BridgeSpec /\ BridgeFairness

-----------------------------------------------------------------------------
(* Properties                                                               *)

\* The variables of both halves have their types, and a list waits for the
\* mutex exactly while the call of the client thread is in progress.
BridgeTypeOK ==
    /\ TypeOK
    /\ todo \in 0..Lists
    /\ clientRuns \in BOOLEAN
    /\ offers \in Seq(List)
    /\ \A i \in DOMAIN offers :
          offers[i].fate = "pending" <=> i = Len(offers) /\ call[Client] # NoMessage

\* Lists i and j are of one series.
SameSeries(i, j) == (i - 1) \div Lists = (j - 1) \div Lists

\* The list offered as the i-th went out in session s.
SentIn(i, s) ==
    \E k \in DOMAIN sent : /\ sent[k].session = s
                           /\ sent[k].msg.by = Client
                           /\ sent[k].msg.n = offers[i].n

\* It passed the check in an earlier session than the one it went out in.
Late(i, s) ==
    \E k \in DOMAIN sent : /\ sent[k].session = s
                           /\ sent[k].msg.by = Client
                           /\ sent[k].msg.n = offers[i].n
                           /\ sent[k].msg.seen < s

\* What a session shows of a series of lists has no hole: a list missing
\* between two that were sent was never built, or stopped by the user (STOP), or
\* the one before it was the one late call that the unlocked test of
\* m_bConnected lets into the new session.
NoHoleInSeries ==
    \A i, j, k \in DOMAIN offers : \A s \in 1..session :
        (/\ i < j /\ j < k /\ SameSeries(i, k)
         /\ SentIn(i, s) /\ SentIn(k, s) /\ ~SentIn(j, s))
        => offers[j].fate \in {"unbuilt", "dropped"} \/ Late(i, s)

\* Number of the series in progress, or of the next one.
CurrentSeries == Len(offers) \div Lists

\* Every list of series c that was built was sent in the session that is up.
SentWhole(c) ==
    \A i \in (c * Lists + 1)..((c + 1) * Lists) :
        i \in DOMAIN offers /\ (offers[i].fate = "unbuilt" \/ SentIn(i, session))

\* A series that begins while a session is up and the feed is started reaches
\* the web server in that session, every list of it that was built, unless the
\* session ends, the user stops the feed, or the web thread hangs on a file it
\* cannot open.
SeriesArrives ==
    \A c \in 0..(MaxSeries - 1) :
        (todo = Lists /\ CurrentSeries = c /\ connected /\ sendFlag)
            ~> (SentWhole(c) \/ ~connected \/ ~sendFlag \/ pc = "stuck")

\* --- Parts of the inductive invariant behind the theorems of Bridge_proofs

\* The messages of the client thread that are queued, in hand or emitted.
Emitted == {m \in {sent[i].msg : i \in DOMAIN sent} : m.by = Client}
Held == {m \in {held} : pc = "emit" /\ m.by = Client}
Queued == {m \in {queue[i] : i \in DOMAIN queue} : m.by = Client}
Known == Emitted \cup Held \cup Queued

\* And the one whose call is in progress.
Calling == {call[Client]} \ {NoMessage}

\* Calls are numbered as the lists are offered; the list of a call in progress
\* is the last one.
NumbersRise ==
    /\ \A i \in DOMAIN offers :
          /\ offers[i].n <= calls[Client]
          /\ offers[i].n = 0 <=> offers[i].fate \in {"unbuilt", "skipped"}
          /\ \A j \in DOMAIN offers :
                i < j /\ offers[i].n # 0 /\ offers[j].n # 0 => offers[i].n < offers[j].n
    /\ call[Client] # NoMessage =>
          offers # <<>> /\ offers[Len(offers)].n = call[Client].n

\* A call passes the check before its message is pushed, and no session is
\* ahead of the one counted.
SeenFirst ==
    /\ \A m \in Known : m.seen <= m.pushed /\ m.pushed <= session
    /\ \A m \in Calling : m.seen <= session

\* No call has seen a session that is still to be opened.
OpenUnseen == pc = "open" => \A m \in Known \cup Calling : m.seen < session

\* A list is skipped only when the session that the lists before it saw is over.
SkippedWhileDown ==
    \A i, j \in DOMAIN offers : \A m \in Known :
        (i < j /\ offers[j].fate = "skipped" /\ m.n = offers[i].n /\ m.seen = session)
        => ~connected /\ pc # "open"

\* So the lists after it see a later session.
SkippedParts ==
    \A i, j, k \in DOMAIN offers : \A l \in Known, m \in Known \cup Calling :
        (/\ i < j /\ j < k /\ offers[j].fate = "skipped"
         /\ l.n = offers[i].n /\ m.n = offers[k].n)
        => l.seen < m.seen

\* Between the opening ClearSendQueue and the teardown.
Up == {"open", "subscribe", "stuck"} \cup Looping

\* While the session lasts, a list that was kept after one that is there is
\* there as well.
KeptIsThere ==
    pc \in Up =>
    \A i, j \in DOMAIN offers : \A l \in Known :
        (i < j /\ offers[j].fate = "kept" /\ l.n = offers[i].n /\ l.pushed = session)
        => \E m \in Known : m.n = offers[j].n /\ m.pushed = session

\* So what was kept between two lists a session shows was shown by it.
KeptBetween ==
    \A i, j, k \in DOMAIN offers : \A l, m \in Emitted :
        (/\ i < j /\ j < k /\ offers[j].fate = "kept"
         /\ l.n = offers[i].n /\ m.n = offers[k].n /\ l.pushed = m.pushed)
        => \E x \in Emitted : x.n = offers[j].n /\ x.pushed = m.pushed

BridgeInv ==
    /\ BridgeTypeOK
    /\ NumbersRise
    /\ SeenFirst
    /\ OpenUnseen
    /\ SkippedWhileDown
    /\ SkippedParts
    /\ KeptIsThere
    /\ KeptBetween
=============================================================================
