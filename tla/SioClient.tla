----------------------------- MODULE SioClient -----------------------------
(***************************************************************************)
(* The socket.io client library as the web thread uses it: SIOClient       *)
(* connect and disconnect, the registry of clients and sockets, and the    *)
(* SIOClientImpl objects with the two threads each of them starts, the     *)
(* monitor (receive loop) and the heartbeat timer.                         *)
(*                                                                         *)
(* There is one URI, read from eqconfig.ini at the start, so the client    *)
(* map has one key and the socket map one key for each way it is built.    *)
(* Undefined behaviour (a NULL or a deleted object is used) is the state   *)
(* pc = "crash"; what an uninitialised member holds is arbitrary.          *)
(***************************************************************************)
EXTENDS Naturals, FiniteSets

CONSTANT MaxImpls      \* bound on SIOClientImpl objects made

ASSUME SioAssumption == MaxImpls \in Nat

VARIABLES
    hasPath,     \* the URI has a path, that is, a socket.io endpoint
    pc,          \* where the web thread is in connect or disconnect
    impl,        \* the SIOClientImpl objects, by number
    made,        \* objects made so far
    cur,         \* the object the web thread works on, 0 for none
    socketMap,   \* registry: object under host:port, 0 for none
    clientMap,   \* registry: object of the client under host:port/path, 0
    crash        \* ghost: what was used and where the web thread was

vars == <<hasPath, pc, impl, made, cur, socketMap, clientMap, crash>>

Ids == 1..MaxImpls

\* connected is _connected, ws tells whether _ws points to a WebSocket.
Impl == [state : {"none", "live", "deleted"}, ws : BOOLEAN, connected : BOOLEAN,
         timer : BOOLEAN, monitor : BOOLEAN, refs : 0..1]

NoImpl == [state |-> "none", ws |-> FALSE, connected |-> FALSE,
           timer |-> FALSE, monitor |-> FALSE, refs |-> 0]

NoCrash == [what |-> "nothing", at |-> "nowhere"]

Connecting == {"handshake", "openSocket", "addSocket", "endpoint", "newClient",
               "addClient"}
\* From the start of the monitor thread to the entry in the client map.
Unregistered == {"addSocket", "endpoint", "newClient", "addClient"}
Disconnecting == {"release", "join", "disconnectAll", "delete", "removeClient"}

Init ==
    /\ hasPath \in BOOLEAN
    /\ pc = "idle"
    /\ impl = [i \in Ids |-> NoImpl]
    /\ made = 0
    /\ cur = 0
    /\ socketMap = 0
    /\ clientMap = 0
    /\ crash = NoCrash

Goes(from, to) == pc = from /\ pc' = to

\* The program is over: an object that is not there was used.
Crashes(what) ==
    /\ pc' = "crash"
    /\ crash' = [what |-> what, at |-> pc]
    /\ UNCHANGED <<hasPath, impl, made, cur, socketMap, clientMap>>

-----------------------------------------------------------------------------
(* SIOClient::connect                                                       *)

\* The client map has no entry (the destructor removed the last); the socket
\* map has one: its object is used again.
ReuseSocket ==
    /\ Goes("idle", "endpoint")
    /\ clientMap = 0 /\ socketMap # 0
    /\ cur' = socketMap
    /\ UNCHANGED <<hasPath, impl, made, socketMap, clientMap, crash>>

\* A new SIOClientImpl: _connected is not initialised by the constructor.
NewImpl ==
    /\ Goes("idle", "handshake")
    /\ clientMap = 0 /\ socketMap = 0
    /\ made < MaxImpls
    /\ made' = made + 1
    /\ cur' = made + 1
    /\ \E garbage \in BOOLEAN :
          impl' = [impl EXCEPT ![made + 1] =
                       [NoImpl EXCEPT !.state = "live", !.connected = garbage]]
    /\ UNCHANGED <<hasPath, socketMap, clientMap, crash>>

HandshakeOk ==
    /\ Goes("handshake", "openSocket")
    /\ UNCHANGED <<hasPath, impl, made, cur, socketMap, clientMap, crash>>

\* Mutant of HandshakeFails: connect goes on with the NULL it was returned.
HandshakeUnchecked ==
    /\ Goes("handshake", "addSocket")
    /\ cur' = 0
    /\ UNCHANGED <<hasPath, impl, made, socketMap, clientMap, crash>>

\* init() returned false: connect returns NULL and the object is left behind.
HandshakeFails ==
    /\ Goes("handshake", "idle")
    /\ cur' = 0
    /\ UNCHANGED <<hasPath, impl, made, socketMap, clientMap, crash>>

\* A reply that cannot be parsed, or an exception openSocket does not catch:
\* it ends the web thread.
ConnectThrows ==
    /\ \/ Goes("handshake", "dead")
       \/ Goes("openSocket", "dead")
    /\ UNCHANGED <<hasPath, impl, made, cur, socketMap, clientMap, crash>>

\* openSocket made the WebSocket: timer and monitor thread start.
OpenSocket ==
    /\ Goes("openSocket", "addSocket")
    /\ impl' = [impl EXCEPT ![cur].ws = TRUE, ![cur].connected = TRUE,
                            ![cur].timer = TRUE, ![cur].monitor = TRUE]
    /\ UNCHANGED <<hasPath, made, cur, socketMap, clientMap, crash>>

\* What openSocket returns when no WebSocket could be made.
ReturnedOnFailure(i) == impl[i].connected

\* openSocket tried for a second in vain ("Impossible to create websocket").
OpenSocketFails ==
    /\ pc = "openSocket"
    /\ IF ReturnedOnFailure(cur)
       THEN pc' = "addSocket" /\ UNCHANGED cur
       ELSE pc' = "idle" /\ cur' = 0
    /\ UNCHANGED <<hasPath, impl, made, socketMap, clientMap, crash>>

AddSocket ==
    /\ Goes("addSocket", "endpoint")
    /\ socketMap' = cur
    /\ UNCHANGED <<hasPath, impl, made, cur, clientMap, crash>>

Deleted == impl[cur].state = "deleted"

\* connectToEndpoint, if the URI has a path: sends on the WebSocket.
Endpoint ==
    /\ pc = "endpoint"
    /\ IF Deleted THEN Crashes("deleted socket")
       ELSE IF hasPath /\ impl[cur].connected /\ ~impl[cur].ws
       THEN Crashes("no websocket")
       ELSE /\ pc' = "newClient"
            /\ UNCHANGED <<hasPath, impl, made, cur, socketMap, clientMap, crash>>

NewClient ==
    /\ Goes("newClient", "addClient")
    /\ impl' = [impl EXCEPT ![cur].refs = 1]
    /\ UNCHANGED <<hasPath, made, cur, socketMap, clientMap, crash>>

AddClient ==
    /\ Goes("addClient", "up")
    /\ clientMap' = cur
    /\ UNCHANGED <<hasPath, impl, made, cur, socketMap, crash>>

-----------------------------------------------------------------------------
(* Use of the client, SIOClient::disconnect, the destructors                *)

\* emit or send: the frame goes out if _connected says so.
Emit ==
    /\ pc = "up"
    /\ impl[cur].connected /\ ~impl[cur].ws
    /\ Crashes("no websocket")

\* disconnect(_endpoint): the frame is sent; only without an endpoint is the
\* timer stopped and _connected cleared.
Disconnect ==
    /\ pc = "up"
    /\ IF ~impl[cur].ws THEN Crashes("no websocket")
       ELSE /\ pc' = "release"
            /\ impl' = IF hasPath THEN impl
                       ELSE [impl EXCEPT ![cur].timer = FALSE,
                                         ![cur].connected = FALSE]
            /\ UNCHANGED <<hasPath, made, cur, socketMap, clientMap, crash>>

\* Mutant of Release: the client leaves the registry first.
ReleaseAfterRemove ==
    /\ Goes("release", "join")
    /\ impl' = [impl EXCEPT ![cur].refs = 0]
    /\ clientMap' = 0
    /\ UNCHANGED <<hasPath, made, cur, socketMap, crash>>

\* ~SIOClient: the last reference goes, and with it the object.
Release ==
    /\ Goes("release", "join")
    /\ impl' = [impl EXCEPT ![cur].refs = 0]
    /\ UNCHANGED <<hasPath, made, cur, socketMap, clientMap, crash>>

\* Mutant of JoinMonitor: the monitor thread is not waited for.
NoJoin ==
    /\ Goes("join", "disconnectAll")
    /\ UNCHANGED <<hasPath, impl, made, cur, socketMap, clientMap, crash>>

\* ~SIOClientImpl: the monitor thread is joined first.
JoinMonitor ==
    /\ Goes("join", "disconnectAll")
    /\ ~impl[cur].monitor
    /\ UNCHANGED <<hasPath, impl, made, cur, socketMap, clientMap, crash>>

\* Mutant of DisconnectAll: the destructor disconnects the endpoint only.
DisconnectEndpoint ==
    /\ Goes("disconnectAll", "delete")
    /\ impl' = IF hasPath THEN impl
               ELSE [impl EXCEPT ![cur].timer = FALSE, ![cur].connected = FALSE]
    /\ UNCHANGED <<hasPath, made, cur, socketMap, clientMap, crash>>

\* disconnect("") in the destructor: the timer is stopped in every case.
DisconnectAll ==
    /\ Goes("disconnectAll", "delete")
    /\ impl' = [impl EXCEPT ![cur].timer = FALSE, ![cur].connected = FALSE]
    /\ UNCHANGED <<hasPath, made, cur, socketMap, clientMap, crash>>

\* Mutant of RemoveSocket: the destructor leaves the entry alone.
KeepSocket == UNCHANGED socketMap

\* removeSocket takes host:port/path, addSocket was given host:port.
RemoveSocket == socketMap' = IF hasPath THEN socketMap ELSE 0

Delete ==
    /\ Goes("delete", "removeClient")
    /\ impl' = [impl EXCEPT ![cur].ws = FALSE, ![cur].state = "deleted"]
    /\ RemoveSocket
    /\ UNCHANGED <<hasPath, made, cur, clientMap, crash>>

RemoveClient ==
    /\ Goes("removeClient", "idle")
    /\ clientMap' = 0
    /\ cur' = 0
    /\ UNCHANGED <<hasPath, impl, made, socketMap, crash>>

-----------------------------------------------------------------------------
(* The monitor thread of object i: receive() while _connected               *)

MonitorRuns(i) == impl[i].monitor /\ pc # "crash"

\* A frame that is no event: the loop test follows.
ReceiveFrame(i) ==
    /\ MonitorRuns(i)
    /\ ~impl[i].connected
    /\ impl' = [impl EXCEPT ![i].monitor = FALSE]
    /\ UNCHANGED <<hasPath, pc, made, cur, socketMap, clientMap, crash>>

\* "Socket Connected" sets _connected, whatever the web thread did to it.
ReceiveConnected(i) ==
    /\ MonitorRuns(i)
    /\ ~impl[i].connected
    /\ impl' = [impl EXCEPT ![i].connected = TRUE]
    /\ UNCHANGED <<hasPath, pc, made, cur, socketMap, clientMap, crash>>

\* A plain event, without a namespace and without an ack id, is posted to the
\* client the registry has under host:port/path: there may be none.
ReceiveEvent(i) ==
    /\ MonitorRuns(i)
    /\ clientMap = 0
    /\ Crashes("no client")

\* An event with a namespace, an ack id or both, the server's choice: all that
\* precedes its "[" is appended to the key the registry is asked for, and no
\* client is ever under that name, whatever the web thread is doing.
ReceivePrefixed(i) ==
    /\ MonitorRuns(i)
    /\ Crashes("prefixed event")

\* Mutant of ReceiveThrows: the loop catches the exception and tests _connected.
ReceiveCatches(i) ==
    /\ MonitorRuns(i)
    /\ impl' = [impl EXCEPT ![i].monitor = impl[i].connected]
    /\ UNCHANGED <<hasPath, pc, made, cur, socketMap, clientMap, crash>>

\* receiveFrame throws: closed, failed, or silent for longer than the time-out
\* of the session.  The exception ends the thread; _connected is not told.
ReceiveThrows(i) ==
    /\ MonitorRuns(i)
    /\ impl' = [impl EXCEPT ![i].monitor = FALSE]
    /\ UNCHANGED <<hasPath, pc, made, cur, socketMap, clientMap, crash>>

Monitor == \E i \in Ids :
    \/ ReceiveFrame(i) \/ ReceiveConnected(i)
    \/ ReceiveEvent(i) \/ ReceivePrefixed(i) \/ ReceiveThrows(i)

Connect ==
    \/ ReuseSocket \/ NewImpl \/ HandshakeOk \/ HandshakeFails \/ ConnectThrows
    \/ OpenSocket \/ OpenSocketFails \/ AddSocket \/ Endpoint \/ NewClient \/ AddClient

Leave ==
    \/ Emit \/ Disconnect \/ Release \/ JoinMonitor \/ DisconnectAll \/ Delete
    \/ RemoveClient

Next == Connect \/ Leave \/ Monitor

Spec == Init /\ [][Next]_vars

\* The web thread goes on inside connect and disconnect, and a server that is
\* told goodbye falls silent or closes: receiveFrame then throws.
Fairness ==
    /\ WF_vars(Release \/ JoinMonitor \/ DisconnectAll \/ Delete \/ RemoveClient)
    /\ \A i \in Ids : WF_vars(ReceiveThrows(i))

FairSpec == Spec /\ Fairness

-----------------------------------------------------------------------------
(* Properties                                                               *)

\* Every variable has its type; objects are numbered as they are made; the web
\* thread works on a made object from the handshake to the end of disconnect.
TypeOK ==
    /\ hasPath \in BOOLEAN
    /\ pc \in {"idle", "up", "dead", "crash"} \cup Connecting \cup Disconnecting
    /\ impl \in [Ids -> Impl]
    /\ made \in 0..MaxImpls
    /\ cur \in 0..made /\ socketMap \in 0..made /\ clientMap \in 0..made
    /\ pc \in {"up"} \cup Connecting \cup Disconnecting => cur # 0
    /\ \A i \in Ids : i <= made <=> impl[i].state # "none"

\* No thread of an object outlives it: when it is deleted its monitor thread
\* has ended and its heartbeat timer is stopped, also if the server answered
\* "connected" late or the URI has a path.
NoThreadOutlivesImpl ==
    \A i \in Ids : impl[i].state = "deleted" => ~impl[i].monitor /\ ~impl[i].timer

\* Reconnecting never leaves two sockets receiving at once.
OneReceiverAtATime == Cardinality({i \in Ids : impl[i].monitor}) <= 1

\* A plain event uses a NULL client in one window only, inside connect between
\* the start of the monitor thread and the entry in the registry: a connect that
\* fails or throws leaves no thread behind, and ~SIOClient takes the entry out
\* only after ~SIOClientImpl has joined the thread.  It says nothing of events with
\* a namespace or an ack id, which never find a client.
EventsFindTheirClient == crash.what = "no client" => crash.at \in Unregistered

\* disconnect returns: the join in the destructor does not wait for ever.
DisconnectReturns == (pc = "release") ~> (pc \in {"idle", "crash"})

\* connect returns NULL when the connection failed ("connect failed"), so a
\* client it returns has a WebSocket.
ConnectedHasWebSocket == pc = "up" => impl[cur].ws

\* "check if connection to socket already exists": what the registry has under
\* host:port is an existing connection.
RegisteredSocketExists == socketMap # 0 => impl[socketMap].state = "live"

\* Without a path the two keys are the same, and the registry is exact: under
\* host:port it has the object in hand, alive, or nothing, through every failed
\* connect, disconnect and reconnect, and so connect never uses a deleted one.
RegistryExactWithoutPath ==
    ~hasPath => /\ socketMap \in {0, cur} /\ RegisteredSocketExists
                /\ crash.what # "deleted socket"

\* --- Parts of the inductive invariant behind the theorems of SioClient_proofs

\* Only the object the web thread works on receives.
OnlyCurReceives == \A i \in Ids : impl[i].monitor => i = cur

\* What holds of that object where the web thread is.
StageInv ==
    /\ pc = "idle" => cur = 0
    /\ pc \in {"handshake", "openSocket"} =>
          impl[cur].state = "live" /\ ~impl[cur].monitor /\ ~impl[cur].timer
    /\ pc \in {"disconnectAll", "delete", "dead"} => ~impl[cur].monitor
    /\ pc = "delete" => ~impl[cur].timer
    /\ pc = "removeClient" => impl[cur].state = "deleted"
    /\ pc \in {"up"} \cup Disconnecting => clientMap # 0

\* Where the socket map has its entry: between addSocket and the destructor.
RegistryStage ==
    /\ pc = "addSocket" => impl[cur].state = "live"
    /\ ~hasPath /\ pc \in {"idle", "handshake", "openSocket", "addSocket",
                           "removeClient", "dead"} => socketMap = 0
    /\ ~hasPath /\ pc = "endpoint" => socketMap = cur
    /\ RegistryExactWithoutPath

SioInv ==
    /\ TypeOK
    /\ NoThreadOutlivesImpl /\ OnlyCurReceives /\ StageInv
    /\ EventsFindTheirClient
=============================================================================
