--------------------------- MODULE SioClient_proofs ---------------------------
(***************************************************************************)
(* Theorems about SioClient for any number of connection objects: their    *)
(* threads never outlive them, one of them receives at a time, plain       *)
(* events find their client once it is registered, and the registry is     *)
(* exact when the URI has no path.                                         *)
(***************************************************************************)
EXTENDS SioClient, FiniteSetTheorems, TLAPS

USE SioAssumption

\* An update of the object in hand changes nothing else.
LEMMA ImplUpdate ==
    ASSUME NEW f \in [Ids -> Impl], NEW c \in Ids, NEW r \in Impl
    PROVE  /\ [f EXCEPT ![c] = r] \in [Ids -> Impl]
           /\ [f EXCEPT ![c] = r][c] = r
           /\ \A i \in Ids \ {c} : [f EXCEPT ![c] = r][i] = f[i]
  OBVIOUS

\* A step of the web thread that changes no object.
LEMMA SameObjects ==
    ASSUME SioInv, UNCHANGED <<hasPath, impl, made, crash>>,
           pc' \in {"idle", "up", "dead", "crash"} \cup Connecting \cup Disconnecting,
           cur' \in 0..made, socketMap' \in 0..made, clientMap' \in 0..made,
           pc' \in {"up"} \cup Connecting \cup Disconnecting => cur' # 0,
           cur' = cur \/ (\A i \in Ids : ~impl[i].monitor),
           StageInv'
    PROVE  SioInv'
<1>1. TypeOK'
  BY DEF SioInv, TypeOK
<1>2. NoThreadOutlivesImpl' /\ OnlyCurReceives' /\ EventsFindTheirClient'
  BY DEF SioInv, NoThreadOutlivesImpl, OnlyCurReceives, EventsFindTheirClient
<1>. QED
  BY <1>1, <1>2 DEF SioInv

\* A step that gives object c the record r, made only if it was made before and
\* running nothing more than it did.
LEMMA OneObject ==
    ASSUME SioInv, NEW c \in 1..made, NEW r \in Impl,
           impl' = [impl EXCEPT ![c] = r],
           UNCHANGED <<hasPath, made, cur, crash>>,
           pc' \in {"idle", "up", "dead", "crash"} \cup Connecting \cup Disconnecting,
           socketMap' \in 0..made, clientMap' \in 0..made,
           pc' \in {"up"} \cup Connecting \cup Disconnecting => cur # 0,
           r.state # "none",
           r.monitor => c = cur,
           r.state = "deleted" => ~r.monitor /\ ~r.timer,
           StageInv'
    PROVE  SioInv'
<1>1. c \in Ids /\ impl \in [Ids -> Impl] /\ made \in 0..MaxImpls
  BY DEF SioInv, TypeOK, Ids
<1>2. /\ impl' \in [Ids -> Impl]
      /\ impl'[c] = r
      /\ \A i \in Ids \ {c} : impl'[i] = impl[i]
  BY <1>1, ImplUpdate
<1>3. TypeOK'
  <2>1. \A i \in Ids : i <= made <=> impl'[i].state # "none"
    BY <1>1, <1>2 DEF SioInv, TypeOK, Ids
  <2>. QED
    BY <1>2, <2>1 DEF SioInv, TypeOK
<1>4. NoThreadOutlivesImpl' /\ OnlyCurReceives'
  BY <1>1, <1>2 DEF SioInv, NoThreadOutlivesImpl, OnlyCurReceives
<1>5. EventsFindTheirClient'
  BY DEF SioInv, EventsFindTheirClient
<1>. QED
  BY <1>3, <1>4, <1>5 DEF SioInv

\* A crash ends everything as it stands.
LEMMA CrashKeeps ==
    ASSUME SioInv, NEW what, Crashes(what),
           what = "no client" => pc \in Unregistered
    PROVE  SioInv'
<1>1. /\ pc' = "crash" /\ crash' = [what |-> what, at |-> pc]
      /\ UNCHANGED <<hasPath, impl, made, cur, socketMap, clientMap>>
  BY DEF Crashes
<1>2. TypeOK' /\ NoThreadOutlivesImpl' /\ OnlyCurReceives'
  BY <1>1 DEF SioInv, TypeOK, NoThreadOutlivesImpl, OnlyCurReceives, Connecting, Disconnecting
<1>3. StageInv' /\ EventsFindTheirClient'
  BY <1>1 DEF StageInv, EventsFindTheirClient, Disconnecting
<1>. QED
  BY <1>2, <1>3 DEF SioInv

\* Every step of SIOClient::connect keeps the invariant.
LEMMA ConnectKeeps == SioInv /\ Connect => SioInv'
<1>. SUFFICES ASSUME SioInv, Connect PROVE SioInv'
  OBVIOUS
<1>0. /\ impl \in [Ids -> Impl] /\ made \in 0..MaxImpls
      /\ cur \in 0..made /\ socketMap \in 0..made /\ clientMap \in 0..made
      /\ pc \in {"up"} \cup Connecting \cup Disconnecting => cur # 0
      /\ \A i \in Ids : i <= made <=> impl[i].state # "none"
  BY DEF SioInv, TypeOK
<1>a. pc \in {"handshake", "openSocket"} =>
        /\ impl[cur].state = "live" /\ ~impl[cur].monitor /\ ~impl[cur].timer
        /\ \A i \in Ids : ~impl[i].monitor
  BY DEF SioInv, StageInv, OnlyCurReceives
<1>b. pc = "idle" => cur = 0 /\ \A i \in Ids : ~impl[i].monitor
  BY DEF SioInv, StageInv, OnlyCurReceives, Ids
<1>. USE DEF Goes, Connecting, Disconnecting
<1>1. CASE ReuseSocket
  <2>1. StageInv'
    BY <1>1 DEF ReuseSocket, StageInv
  <2>. QED
    BY <1>1, <1>0, <1>b, <2>1, SameObjects DEF ReuseSocket
<1>2. CASE NewImpl
  <2>1. /\ pc = "idle" /\ pc' = "handshake" /\ clientMap = 0
        /\ made < MaxImpls /\ made' = made + 1 /\ cur' = made + 1
        /\ UNCHANGED <<hasPath, socketMap, clientMap, crash>>
    BY <1>2 DEF NewImpl
  <2>2. PICK garbage \in BOOLEAN :
           impl' = [impl EXCEPT ![made + 1] =
                        [NoImpl EXCEPT !.state = "live", !.connected = garbage]]
    BY <1>2 DEF NewImpl
  <2>. DEFINE r == [NoImpl EXCEPT !.state = "live", !.connected = garbage]
  <2>3. r \in Impl /\ r.state = "live" /\ ~r.monitor /\ ~r.timer
    <3>1. NoImpl \in Impl /\ ~NoImpl.monitor /\ ~NoImpl.timer
      BY DEF NoImpl, Impl
    <3>. QED
      BY <3>1 DEF Impl
  <2>4. made + 1 \in Ids
    BY <1>0, <2>1 DEF Ids
  <2>. HIDE DEF r
  <2>5. impl' = [impl EXCEPT ![made + 1] = r]
    BY <2>2 DEF r
  <2>6. /\ impl' \in [Ids -> Impl]
        /\ impl'[made + 1] = r
        /\ \A i \in Ids \ {made + 1} : impl'[i] = impl[i]
    BY <1>0, <2>3, <2>4, <2>5, ImplUpdate
  <2>7. TypeOK'
    <3>1. /\ made' \in 0..MaxImpls /\ cur' \in 0..made' /\ cur' # 0
          /\ socketMap' \in 0..made' /\ clientMap' \in 0..made'
      BY <1>0, <2>1 DEF Ids
    <3>2. \A i \in Ids : i <= made' <=> impl'[i].state # "none"
      <4>. SUFFICES ASSUME NEW i \in Ids PROVE i <= made' <=> impl'[i].state # "none"
        OBVIOUS
      <4>1. CASE i = made + 1
        BY <4>1, <1>0, <2>1, <2>3, <2>6
      <4>2. CASE i # made + 1
        <5>1. i <= made + 1 <=> i <= made
          BY <4>2, <1>0 DEF Ids
        <5>. QED
          BY <4>2, <5>1, <1>0, <2>1, <2>6
      <4>. QED
        BY <4>1, <4>2
    <3>. QED
      BY <2>1, <2>6, <3>1, <3>2 DEF SioInv, TypeOK
  <2>8. NoThreadOutlivesImpl' /\ OnlyCurReceives' /\ StageInv'
    BY <1>b, <2>1, <2>3, <2>6 DEF SioInv, NoThreadOutlivesImpl, OnlyCurReceives, StageInv
  <2>9. EventsFindTheirClient'
    BY <2>1 DEF SioInv, EventsFindTheirClient
  <2>. QED
    BY <2>7, <2>8, <2>9 DEF SioInv
<1>3. CASE HandshakeOk
  <2>1. StageInv'
    BY <1>3, <1>a DEF HandshakeOk, StageInv
  <2>. QED
    BY <1>3, <1>0, <2>1, SameObjects DEF HandshakeOk
<1>4. CASE HandshakeFails
  <2>1. StageInv'
    BY <1>4 DEF HandshakeFails, StageInv
  <2>. QED
    BY <1>4, <1>0, <1>a, <2>1, SameObjects DEF HandshakeFails
<1>5. CASE ConnectThrows
  <2>1. StageInv'
    BY <1>5, <1>a DEF ConnectThrows, StageInv
  <2>. QED
    BY <1>5, <1>0, <2>1, SameObjects DEF ConnectThrows
<1>6. CASE OpenSocket
  <2>. DEFINE r == [impl[cur] EXCEPT !.ws = TRUE, !.connected = TRUE,
                                     !.timer = TRUE, !.monitor = TRUE]
  <2>1. cur \in 1..made /\ impl[cur] \in Impl /\ cur \in Ids
    BY <1>6, <1>0 DEF OpenSocket, Ids
  <2>2. impl' = [impl EXCEPT ![cur] = r]
    BY <1>6, <1>0, <2>1 DEF OpenSocket
  <2>3. r \in Impl /\ r.state = impl[cur].state
    BY <2>1 DEF Impl
  <2>4. r.state = "live"
    BY <1>6, <1>a, <2>3 DEF OpenSocket
  <2>5. StageInv'
    BY <1>6 DEF OpenSocket, StageInv
  <2>. HIDE DEF r
  <2>. QED
    BY <1>6, <1>0, <2>1, <2>2, <2>3, <2>4, <2>5, OneObject DEF OpenSocket
<1>7. CASE OpenSocketFails
  <2>1. /\ pc = "openSocket" /\ UNCHANGED <<hasPath, impl, made, socketMap, clientMap, crash>>
        /\ (pc' = "addSocket" /\ cur' = cur) \/ (pc' = "idle" /\ cur' = 0)
    BY <1>7 DEF OpenSocketFails
  <2>2. StageInv'
    BY <2>1 DEF StageInv
  <2>. QED
    BY <1>0, <1>a, <2>1, <2>2, SameObjects
<1>8. CASE AddSocket
  <2>1. StageInv'
    BY <1>8 DEF AddSocket, StageInv
  <2>. QED
    BY <1>8, <1>0, <2>1, SameObjects DEF AddSocket
<1>9. CASE Endpoint
  <2>1. CASE Crashes("deleted socket") \/ Crashes("no websocket")
    BY <2>1, CrashKeeps
  <2>2. CASE pc' = "newClient" /\ UNCHANGED <<hasPath, impl, made, cur, socketMap, clientMap, crash>>
    <3>1. StageInv'
      BY <2>2 DEF StageInv
    <3>. QED
      BY <1>9, <1>0, <2>2, <3>1, SameObjects DEF Endpoint
  <2>. QED
    BY <1>9, <2>1, <2>2 DEF Endpoint
<1>10. CASE NewClient
  <2>. DEFINE r == [impl[cur] EXCEPT !.refs = 1]
  <2>1. cur \in 1..made /\ impl[cur] \in Impl /\ cur \in Ids
    BY <1>10, <1>0 DEF NewClient, Ids
  <2>2. impl' = [impl EXCEPT ![cur] = r]
    BY <1>10, <1>0, <2>1 DEF NewClient
  <2>3. /\ r \in Impl /\ r.state = impl[cur].state
        /\ r.monitor = impl[cur].monitor /\ r.timer = impl[cur].timer
    BY <2>1 DEF Impl
  <2>4. r.state # "none" /\ (r.state = "deleted" => ~r.monitor /\ ~r.timer)
    BY <1>0, <2>1, <2>3 DEF SioInv, NoThreadOutlivesImpl
  <2>5. StageInv'
    BY <1>10 DEF NewClient, StageInv
  <2>. HIDE DEF r
  <2>. QED
    BY <1>10, <1>0, <2>1, <2>2, <2>3, <2>4, <2>5, OneObject DEF NewClient
<1>11. CASE AddClient
  <2>1. StageInv'
    BY <1>11, <1>0 DEF AddClient, StageInv
  <2>. QED
    BY <1>11, <1>0, <2>1, SameObjects DEF AddClient
<1>. QED
  BY <1>1, <1>2, <1>3, <1>4, <1>5, <1>6, <1>7, <1>8, <1>9, <1>10, <1>11 DEF Connect

\* Every step of disconnect and of the destructors keeps the invariant.
LEMMA LeaveKeeps == SioInv /\ Leave => SioInv'
<1>. SUFFICES ASSUME SioInv, Leave PROVE SioInv'
  OBVIOUS
<1>0. /\ impl \in [Ids -> Impl] /\ made \in 0..MaxImpls
      /\ cur \in 0..made /\ socketMap \in 0..made /\ clientMap \in 0..made
      /\ pc \in {"up"} \cup Connecting \cup Disconnecting => cur # 0
      /\ \A i \in Ids : i <= made <=> impl[i].state # "none"
  BY DEF SioInv, TypeOK
<1>1. pc \in {"up"} \cup Disconnecting =>
        /\ cur \in 1..made /\ cur \in Ids /\ impl[cur] \in Impl
        /\ impl[cur].state # "none" /\ clientMap # 0
  BY <1>0 DEF SioInv, StageInv, Ids
<1>2. pc \in {"up"} \cup Disconnecting =>
        (impl[cur].state = "deleted" => ~impl[cur].monitor /\ ~impl[cur].timer)
  BY <1>1 DEF SioInv, NoThreadOutlivesImpl
<1>. USE DEF Goes, Connecting, Disconnecting
<1>3. CASE Emit
  BY <1>3, CrashKeeps DEF Emit
<1>4. CASE Disconnect
  <2>1. CASE Crashes("no websocket")
    BY <2>1, CrashKeeps
  <2>2. CASE pc' = "release"
    <3>1. /\ pc = "up" /\ UNCHANGED <<hasPath, made, cur, socketMap, clientMap, crash>>
          /\ \/ impl' = impl
             \/ impl' = [impl EXCEPT ![cur].timer = FALSE, ![cur].connected = FALSE]
      BY <1>4, <2>2 DEF Disconnect, Crashes
    <3>2. StageInv'
      BY <1>1, <2>2, <3>1 DEF StageInv
    <3>3. CASE impl' = impl
      BY <1>0, <2>2, <3>1, <3>2, <3>3, SameObjects
    <3>4. CASE impl' = [impl EXCEPT ![cur].timer = FALSE, ![cur].connected = FALSE]
      <4>. DEFINE r == [impl[cur] EXCEPT !.timer = FALSE, !.connected = FALSE]
      <4>1. impl' = [impl EXCEPT ![cur] = r]
        BY <1>0, <1>1, <3>1, <3>4
      <4>2. r \in Impl /\ r.state = impl[cur].state /\ r.monitor = impl[cur].monitor /\ ~r.timer
        BY <1>1, <3>1 DEF Impl
      <4>. HIDE DEF r
      <4>. QED
        BY <1>0, <1>1, <1>2, <2>2, <3>1, <3>2, <4>1, <4>2, OneObject
    <3>. QED
      BY <3>1, <3>3, <3>4
  <2>. QED
    BY <1>4, <2>1, <2>2 DEF Disconnect
<1>5. CASE Release
  <2>. DEFINE r == [impl[cur] EXCEPT !.refs = 0]
  <2>1. impl' = [impl EXCEPT ![cur] = r]
    BY <1>5, <1>0, <1>1 DEF Release
  <2>2. /\ r \in Impl /\ r.state = impl[cur].state
        /\ r.monitor = impl[cur].monitor /\ r.timer = impl[cur].timer
    BY <1>5, <1>1 DEF Release, Impl
  <2>3. StageInv'
    BY <1>5, <1>1 DEF Release, StageInv
  <2>. HIDE DEF r
  <2>. QED
    BY <1>5, <1>0, <1>1, <1>2, <2>1, <2>2, <2>3, OneObject DEF Release
<1>6. CASE JoinMonitor
  <2>1. StageInv'
    BY <1>6, <1>1 DEF JoinMonitor, StageInv
  <2>. QED
    BY <1>6, <1>0, <2>1, SameObjects DEF JoinMonitor
<1>7. CASE DisconnectAll
  <2>. DEFINE r == [impl[cur] EXCEPT !.timer = FALSE, !.connected = FALSE]
  <2>1. impl' = [impl EXCEPT ![cur] = r]
    BY <1>7, <1>0, <1>1 DEF DisconnectAll
  <2>2. /\ r \in Impl /\ r.state = impl[cur].state
        /\ r.monitor = impl[cur].monitor /\ ~r.timer
    BY <1>7, <1>1 DEF DisconnectAll, Impl
  <2>3. ~impl[cur].monitor
    BY <1>7 DEF SioInv, StageInv, DisconnectAll
  <2>. HIDE DEF r
  <2>4. impl'[cur] = r
    BY <1>7, <1>0, <1>1, <2>1, <2>2, ImplUpdate DEF DisconnectAll
  <2>5. StageInv'
    BY <1>7, <1>1, <2>2, <2>3, <2>4 DEF DisconnectAll, StageInv
  <2>. QED
    BY <1>7, <1>0, <1>1, <1>2, <2>1, <2>2, <2>5, OneObject DEF DisconnectAll
<1>8. CASE Delete
  <2>. DEFINE r == [impl[cur] EXCEPT !.ws = FALSE, !.state = "deleted"]
  <2>1. impl' = [impl EXCEPT ![cur] = r]
    BY <1>8, <1>0, <1>1 DEF Delete
  <2>2. /\ r \in Impl /\ r.state = "deleted"
        /\ r.monitor = impl[cur].monitor /\ r.timer = impl[cur].timer
    BY <1>8, <1>1 DEF Delete, Impl
  <2>3. ~impl[cur].monitor /\ ~impl[cur].timer
    BY <1>8 DEF SioInv, StageInv, Delete
  <2>. HIDE DEF r
  <2>4. impl'[cur] = r
    BY <1>8, <1>0, <1>1, <2>1, <2>2, ImplUpdate DEF Delete
  <2>5. StageInv'
    BY <1>8, <1>1, <2>2, <2>4 DEF Delete, StageInv
  <2>6. socketMap' \in 0..made
    BY <1>8, <1>0 DEF Delete, RemoveSocket
  <2>. QED
    BY <1>8, <1>0, <1>1, <2>1, <2>2, <2>3, <2>5, <2>6, OneObject DEF Delete
<1>9. CASE RemoveClient
  <2>1. \A i \in Ids : ~impl[i].monitor
    BY <1>9, <1>1 DEF RemoveClient, SioInv, StageInv, OnlyCurReceives, NoThreadOutlivesImpl
  <2>2. StageInv'
    BY <1>9 DEF RemoveClient, StageInv
  <2>. QED
    BY <1>9, <1>0, <2>1, <2>2, SameObjects DEF RemoveClient
<1>. QED
  BY <1>3, <1>4, <1>5, <1>6, <1>7, <1>8, <1>9 DEF Leave

\* Every step of a monitor thread keeps the invariant.
LEMMA MonitorKeeps == SioInv /\ Monitor => SioInv'
<1>. SUFFICES ASSUME SioInv, NEW i \in Ids,
                     \/ ReceiveFrame(i) \/ ReceiveConnected(i)
                     \/ ReceiveEvent(i) \/ ReceivePrefixed(i) \/ ReceiveThrows(i)
              PROVE  SioInv'
  BY DEF Monitor
<1>0. /\ impl \in [Ids -> Impl] /\ made \in 0..MaxImpls /\ impl[i].monitor
      /\ pc \in {"idle", "up", "dead", "crash"} \cup Connecting \cup Disconnecting
      /\ cur \in 0..made /\ socketMap \in 0..made /\ clientMap \in 0..made
      /\ pc \in {"up"} \cup Connecting \cup Disconnecting => cur # 0
      /\ \A j \in Ids : j <= made <=> impl[j].state # "none"
      /\ pc # "crash"
  BY DEF SioInv, TypeOK, ReceiveFrame, ReceiveConnected, ReceiveEvent, ReceivePrefixed,
     ReceiveThrows, MonitorRuns
<1>1. i = cur /\ impl[i].state # "deleted" /\ impl[i] \in Impl
  BY <1>0 DEF SioInv, OnlyCurReceives, NoThreadOutlivesImpl
<1>2. impl[i].state # "none" /\ i \in 1..made
  BY <1>0, <1>1 DEF Ids
<1>3. ASSUME NEW r \in Impl, impl' = [impl EXCEPT ![i] = r],
             r.state = impl[i].state, r.timer = impl[i].timer,
             UNCHANGED <<hasPath, pc, made, cur, socketMap, clientMap, crash>>
      PROVE  SioInv'
  <2>1. impl'[i] = r
    BY <1>0, <1>3, ImplUpdate
  <2>2. pc \notin {"idle", "dead", "disconnectAll", "delete", "removeClient", "handshake",
                   "openSocket"}
    BY <1>0, <1>1 DEF SioInv, StageInv, Ids
  <2>3. StageInv'
    BY <1>3, <2>2 DEF SioInv, StageInv
  <2>. QED
    BY <1>0, <1>1, <1>2, <1>3, <2>3, OneObject
<1>4. CASE ReceiveFrame(i) \/ ReceiveThrows(i)
  <2>. DEFINE r == [impl[i] EXCEPT !.monitor = FALSE]
  <2>1. r \in Impl /\ r.state = impl[i].state /\ r.timer = impl[i].timer
    BY <1>1 DEF Impl
  <2>2. impl' = [impl EXCEPT ![i] = r]
    BY <1>0, <1>4 DEF ReceiveFrame, ReceiveThrows
  <2>. HIDE DEF r
  <2>. QED
    BY <1>3, <1>4, <2>1, <2>2 DEF ReceiveFrame, ReceiveThrows
<1>5. CASE ReceiveConnected(i)
  <2>. DEFINE r == [impl[i] EXCEPT !.connected = TRUE]
  <2>1. r \in Impl /\ r.state = impl[i].state /\ r.timer = impl[i].timer
    BY <1>1 DEF Impl
  <2>2. impl' = [impl EXCEPT ![i] = r]
    BY <1>0, <1>5 DEF ReceiveConnected
  <2>. HIDE DEF r
  <2>. QED
    BY <1>3, <1>5, <2>1, <2>2 DEF ReceiveConnected
<1>6. CASE ReceiveEvent(i)
  <2>1. pc \in Unregistered
    <3>1. clientMap = 0
      BY <1>6 DEF ReceiveEvent
    <3>2. pc \notin {"up"} \cup Disconnecting
      BY <3>1 DEF SioInv, StageInv
    <3>3. pc \notin {"idle", "dead", "handshake", "openSocket"}
      BY <1>0, <1>1, <1>2 DEF SioInv, StageInv
    <3>. QED
      BY <1>0, <3>2, <3>3 DEF Connecting, Unregistered
  <2>. QED
    BY <1>6, <2>1, CrashKeeps DEF ReceiveEvent
<1>7. CASE ReceivePrefixed(i)
  BY <1>7, CrashKeeps DEF ReceivePrefixed
<1>. QED
  BY <1>4, <1>5, <1>6, <1>7

\* The inductive invariant of the client library holds in every reachable state.
THEOREM SioInvariant == Spec => []SioInv
<1>1. Init => SioInv
  <2>. SUFFICES ASSUME Init PROVE SioInv
    OBVIOUS
  <2>1. /\ hasPath \in BOOLEAN /\ pc = "idle" /\ impl = [i \in Ids |-> NoImpl] /\ made = 0
        /\ cur = 0 /\ socketMap = 0 /\ clientMap = 0 /\ crash = NoCrash
    BY DEF Init
  <2>2. /\ NoImpl \in Impl /\ NoImpl.state = "none"
        /\ ~NoImpl.monitor /\ NoImpl.state # "deleted"
    BY DEF NoImpl, Impl
  <2>3. \A i \in Ids : impl[i] = NoImpl /\ ~(i <= made)
    BY <2>1 DEF Ids
  <2>4. impl \in [Ids -> Impl]
    BY <2>1, <2>2
  <2>5. TypeOK
    BY <2>1, <2>2, <2>3, <2>4 DEF TypeOK, Connecting, Disconnecting
  <2>6. /\ NoThreadOutlivesImpl /\ OnlyCurReceives
    BY <2>2, <2>3 DEF NoThreadOutlivesImpl, OnlyCurReceives
  <2>7. StageInv /\ EventsFindTheirClient
    BY <2>1 DEF StageInv, EventsFindTheirClient, Disconnecting, NoCrash
  <2>. QED
    BY <2>5, <2>6, <2>7 DEF SioInv
<1>2. SioInv /\ UNCHANGED vars => SioInv'
  BY DEF SioInv, TypeOK, NoThreadOutlivesImpl, OnlyCurReceives, StageInv,
     EventsFindTheirClient, vars
<1>3. SioInv /\ [Next]_vars => SioInv'
  BY <1>2, ConnectKeeps, LeaveKeeps, MonitorKeeps DEF Next
<1>. QED
  BY <1>1, <1>3, PTL DEF Spec

\* Every variable of the client library keeps its type, and the web thread never
\* works with no object inside connect and disconnect.
THEOREM SioTypeCorrect == Spec => []TypeOK
<1>1. SioInv => TypeOK
  BY DEF SioInv
<1>. QED
  BY <1>1, SioInvariant, PTL

\* However many connections there have been, a deleted object has no thread.
THEOREM ThreadsEndFirst == Spec => []NoThreadOutlivesImpl
<1>1. SioInv => NoThreadOutlivesImpl
  BY DEF SioInv
<1>. QED
  BY <1>1, SioInvariant, PTL

\* However many objects were left behind, at most one of them receives.
THEOREM OneReceiver == Spec => []OneReceiverAtATime
<1>1. SioInv => OneReceiverAtATime
  <2>. SUFFICES ASSUME SioInv PROVE OneReceiverAtATime
    OBVIOUS
  <2>. DEFINE R == {i \in Ids : impl[i].monitor}
  <2>1. R \in SUBSET {cur}
    BY DEF SioInv, OnlyCurReceives
  <2>2. IsFiniteSet({cur}) /\ Cardinality({cur}) = 1
    BY FS_Singleton
  <2>3. Cardinality(R) <= Cardinality({cur})
    BY <2>1, <2>2, FS_Subset
  <2>. QED
    BY <2>2, <2>3 DEF OneReceiverAtATime
<1>. QED
  BY <1>1, SioInvariant, PTL

\* A plain event uses a NULL client only between the start of the monitor thread
\* and the entry of its client in the registry, both inside connect.
THEOREM EventsAreDelivered == Spec => []EventsFindTheirClient
<1>1. SioInv => EventsFindTheirClient
  BY DEF SioInv
<1>. QED
  BY <1>1, SioInvariant, PTL

-----------------------------------------------------------------------------
(* The registry when the URI has no path                                    *)

\* What the web thread has in hand and the registry may hold are objects.
LEMMA InHand ==
    ASSUME SioInv
    PROVE  /\ impl \in [Ids -> Impl] /\ cur \in 0..made /\ socketMap \in 0..made
           /\ made \in 0..MaxImpls
           /\ cur # 0 => cur \in Ids /\ impl[cur] \in Impl
           /\ pc \in {"up"} \cup Connecting \cup Disconnecting => cur # 0
  BY DEF SioInv, TypeOK, Ids

\* A step that moves no object, and no crash on a deleted one: the registry
\* follows as long as it does for the new stage.
LEMMA RegistryKept ==
    ASSUME RegistryStage, UNCHANGED <<hasPath, impl, crash>>,
           ~hasPath => socketMap' \in {0, cur'},
           ~hasPath /\ socketMap' # 0 => impl[socketMap'].state = "live",
           pc' = "addSocket" => impl[cur'].state = "live",
           ~hasPath /\ pc' \in {"idle", "handshake", "openSocket", "addSocket",
                               "removeClient", "dead"} => socketMap' = 0,
           ~hasPath /\ pc' = "endpoint" => socketMap' = cur'
    PROVE  RegistryStage'
  BY DEF RegistryStage, RegistryExactWithoutPath, RegisteredSocketExists

\* A step that gives the object in hand the record r, alive if it was, and
\* leaves the registry alone.
LEMMA RegistryUpdated ==
    ASSUME SioInv, RegistryStage, cur # 0, NEW r \in Impl,
           impl' = [impl EXCEPT ![cur] = r],
           UNCHANGED <<hasPath, cur, socketMap, crash>>,
           r.state = impl[cur].state,
           pc' = "addSocket" => impl[cur].state = "live",
           ~hasPath /\ pc' \in {"idle", "handshake", "openSocket", "addSocket",
                               "removeClient", "dead"} => socketMap = 0,
           ~hasPath /\ pc' = "endpoint" => socketMap = cur
    PROVE  RegistryStage'
<1>1. impl'[cur] = r
  BY InHand, ImplUpdate
<1>2. RegistryExactWithoutPath'
  BY <1>1 DEF RegistryStage, RegistryExactWithoutPath, RegisteredSocketExists
<1>. QED
  BY <1>1, <1>2 DEF RegistryStage

\* A crash on anything but a deleted object tells nothing new of the registry.
LEMMA RegistryCrash ==
    ASSUME RegistryStage, NEW what, Crashes(what), hasPath \/ what # "deleted socket"
    PROVE  RegistryStage'
<1>1. /\ pc' = "crash" /\ crash'.what = what
      /\ UNCHANGED <<hasPath, impl, made, cur, socketMap, clientMap>>
  BY DEF Crashes
<1>. QED
  BY <1>1 DEF RegistryStage, RegistryExactWithoutPath, RegisteredSocketExists

\* Connecting: a new object is registered when its socket is open, or given up
\* with nothing registered.
LEMMA ConnectRegisters == SioInv /\ RegistryStage /\ Connect => RegistryStage'
<1>. SUFFICES ASSUME SioInv, RegistryStage, Connect PROVE RegistryStage'
  OBVIOUS
<1>0. /\ impl \in [Ids -> Impl] /\ made \in 0..MaxImpls
      /\ cur # 0 => cur \in Ids /\ impl[cur] \in Impl
      /\ pc \in Connecting => cur # 0
      /\ pc \in {"handshake", "openSocket"} => impl[cur].state = "live"
  BY InHand DEF SioInv, StageInv
<1>r. /\ pc = "addSocket" => impl[cur].state = "live"
      /\ ~hasPath /\ pc \in {"idle", "handshake", "openSocket", "addSocket",
                             "removeClient", "dead"} => socketMap = 0
      /\ ~hasPath /\ pc = "endpoint" => socketMap = cur
      /\ ~hasPath => socketMap \in {0, cur}
      /\ ~hasPath /\ socketMap # 0 => impl[socketMap].state = "live"
  BY DEF RegistryStage, RegistryExactWithoutPath, RegisteredSocketExists
<1>. USE DEF Goes, Connecting
<1>1. CASE ReuseSocket
  BY <1>1, <1>r, RegistryKept DEF ReuseSocket
<1>2. CASE NewImpl
  <2>1. /\ pc' = "handshake" /\ socketMap' = 0
        /\ UNCHANGED <<hasPath, crash>>
    BY <1>2 DEF NewImpl
  <2>. QED
    BY <2>1 DEF RegistryStage, RegistryExactWithoutPath, RegisteredSocketExists
<1>3. CASE HandshakeOk \/ HandshakeFails \/ ConnectThrows
  BY <1>3, <1>r, RegistryKept DEF HandshakeOk, HandshakeFails, ConnectThrows
<1>4. CASE OpenSocket
  <2>. DEFINE r == [impl[cur] EXCEPT !.ws = TRUE, !.connected = TRUE,
                                     !.timer = TRUE, !.monitor = TRUE]
  <2>1. cur # 0 /\ cur \in Ids /\ impl[cur] \in Impl /\ impl[cur].state = "live"
    BY <1>4, <1>0 DEF OpenSocket
  <2>2. impl' = [impl EXCEPT ![cur] = r]
    BY <1>4, <1>0, <2>1 DEF OpenSocket
  <2>3. r \in Impl /\ r.state = impl[cur].state
    BY <2>1 DEF Impl
  <2>. HIDE DEF r
  <2>. QED
    BY <1>4, <1>r, <2>1, <2>2, <2>3, RegistryUpdated DEF OpenSocket
<1>5. CASE OpenSocketFails
  BY <1>5, <1>0, <1>r, RegistryKept DEF OpenSocketFails
<1>6. CASE AddSocket
  BY <1>6, <1>0, <1>r, RegistryKept DEF AddSocket
<1>7. CASE Endpoint
  <2>1. CASE Crashes("deleted socket") /\ Deleted
    <3>1. hasPath
      BY <1>7, <2>1, <1>0, <1>r DEF Endpoint, Deleted
    <3>. QED
      BY <2>1, <3>1, RegistryCrash
  <2>2. CASE Crashes("no websocket")
    BY <2>2, RegistryCrash
  <2>3. CASE pc' = "newClient" /\ UNCHANGED <<hasPath, impl, made, cur, socketMap, clientMap, crash>>
    BY <2>3, <1>r, RegistryKept
  <2>. QED
    BY <1>7, <2>1, <2>2, <2>3 DEF Endpoint
<1>8. CASE NewClient
  <2>. DEFINE r == [impl[cur] EXCEPT !.refs = 1]
  <2>1. cur # 0 /\ cur \in Ids /\ impl[cur] \in Impl
    BY <1>8, <1>0 DEF NewClient
  <2>2. impl' = [impl EXCEPT ![cur] = r]
    BY <1>8, <1>0, <2>1 DEF NewClient
  <2>3. r \in Impl /\ r.state = impl[cur].state
    BY <2>1 DEF Impl
  <2>. HIDE DEF r
  <2>. QED
    BY <1>8, <1>r, <2>1, <2>2, <2>3, RegistryUpdated DEF NewClient
<1>9. CASE AddClient
  BY <1>9, <1>r, RegistryKept DEF AddClient
<1>. QED
  BY <1>1, <1>2, <1>3, <1>4, <1>5, <1>6, <1>7, <1>8, <1>9 DEF Connect

\* Disconnecting: the destructor takes the entry out in the step that deletes
\* the object.
LEMMA LeaveUnregisters == SioInv /\ RegistryStage /\ Leave => RegistryStage'
<1>. SUFFICES ASSUME SioInv, RegistryStage, Leave PROVE RegistryStage'
  OBVIOUS
<1>0. /\ impl \in [Ids -> Impl]
      /\ pc \in {"up"} \cup Disconnecting =>
            cur # 0 /\ cur \in Ids /\ impl[cur] \in Impl
  BY InHand
<1>r. /\ ~hasPath /\ pc = "removeClient" => socketMap = 0
      /\ ~hasPath => socketMap \in {0, cur}
      /\ ~hasPath /\ socketMap # 0 => impl[socketMap].state = "live"
  BY DEF RegistryStage, RegistryExactWithoutPath, RegisteredSocketExists
<1>. USE DEF Goes, Disconnecting
<1>1. CASE Emit
  BY <1>1, RegistryCrash DEF Emit
<1>2. CASE Disconnect
  <2>1. CASE Crashes("no websocket")
    BY <2>1, RegistryCrash
  <2>2. CASE pc' = "release" /\ impl' = impl
    BY <1>2, <2>2, <1>r, RegistryKept DEF Disconnect, Crashes
  <2>3. CASE pc' = "release" /\ impl' = [impl EXCEPT ![cur].timer = FALSE,
                                                     ![cur].connected = FALSE]
    <3>. DEFINE r == [impl[cur] EXCEPT !.timer = FALSE, !.connected = FALSE]
    <3>1. pc = "up" /\ UNCHANGED <<hasPath, cur, socketMap, crash>>
      BY <1>2, <2>3 DEF Disconnect, Crashes
    <3>2. impl' = [impl EXCEPT ![cur] = r] /\ r \in Impl /\ r.state = impl[cur].state
      BY <1>0, <2>3, <3>1 DEF Impl
    <3>. HIDE DEF r
    <3>. QED
      BY <1>0, <2>3, <3>1, <3>2, RegistryUpdated
  <2>. QED
    BY <1>2, <2>1, <2>2, <2>3 DEF Disconnect
<1>3. CASE Release
  <2>. DEFINE r == [impl[cur] EXCEPT !.refs = 0]
  <2>1. impl' = [impl EXCEPT ![cur] = r] /\ r \in Impl /\ r.state = impl[cur].state
    BY <1>3, <1>0 DEF Release, Impl
  <2>. HIDE DEF r
  <2>. QED
    BY <1>3, <1>0, <2>1, RegistryUpdated DEF Release
<1>4. CASE JoinMonitor
  BY <1>4, <1>r, RegistryKept DEF JoinMonitor
<1>5. CASE DisconnectAll
  <2>. DEFINE r == [impl[cur] EXCEPT !.timer = FALSE, !.connected = FALSE]
  <2>1. impl' = [impl EXCEPT ![cur] = r] /\ r \in Impl /\ r.state = impl[cur].state
    BY <1>5, <1>0 DEF DisconnectAll, Impl
  <2>. HIDE DEF r
  <2>. QED
    BY <1>5, <1>0, <2>1, RegistryUpdated DEF DisconnectAll
<1>6. CASE Delete
  <2>1. /\ pc' = "removeClient" /\ UNCHANGED <<hasPath, crash>>
        /\ ~hasPath => socketMap' = 0
    BY <1>6 DEF Delete, RemoveSocket
  <2>. QED
    BY <2>1 DEF RegistryStage, RegistryExactWithoutPath, RegisteredSocketExists
<1>7. CASE RemoveClient
  BY <1>7, <1>r, RegistryKept DEF RemoveClient
<1>. QED
  BY <1>1, <1>2, <1>3, <1>4, <1>5, <1>6, <1>7 DEF Leave

\* Receiving changes the object in hand only, and deletes nothing.
LEMMA MonitorRegisters == SioInv /\ RegistryStage /\ Monitor => RegistryStage'
<1>. SUFFICES ASSUME SioInv, RegistryStage, NEW i \in Ids,
                     \/ ReceiveFrame(i) \/ ReceiveConnected(i)
                     \/ ReceiveEvent(i) \/ ReceivePrefixed(i) \/ ReceiveThrows(i)
              PROVE  RegistryStage'
  BY DEF Monitor
<1>1. CASE ReceiveEvent(i) \/ ReceivePrefixed(i)
  BY <1>1, RegistryCrash DEF ReceiveEvent, ReceivePrefixed
<1>2. impl[i].monitor => i = cur /\ cur # 0 /\ impl[cur] \in Impl /\ impl \in [Ids -> Impl]
  BY InHand DEF SioInv, OnlyCurReceives, Ids
<1>3. CASE ReceiveFrame(i) \/ ReceiveThrows(i)
  <2>. DEFINE r == [impl[cur] EXCEPT !.monitor = FALSE]
  <2>1. impl' = [impl EXCEPT ![cur] = r] /\ r \in Impl /\ r.state = impl[cur].state
    BY <1>2, <1>3 DEF ReceiveFrame, ReceiveThrows, MonitorRuns, Impl
  <2>2. UNCHANGED <<hasPath, pc, cur, socketMap, crash>> /\ cur # 0
    BY <1>2, <1>3 DEF ReceiveFrame, ReceiveThrows, MonitorRuns
  <2>. HIDE DEF r
  <2>. QED
    BY <2>1, <2>2, RegistryUpdated DEF RegistryStage
<1>4. CASE ReceiveConnected(i)
  <2>. DEFINE r == [impl[cur] EXCEPT !.connected = TRUE]
  <2>1. impl' = [impl EXCEPT ![cur] = r] /\ r \in Impl /\ r.state = impl[cur].state
    BY <1>2, <1>4 DEF ReceiveConnected, MonitorRuns, Impl
  <2>2. UNCHANGED <<hasPath, pc, cur, socketMap, crash>> /\ cur # 0
    BY <1>2, <1>4 DEF ReceiveConnected, MonitorRuns
  <2>. HIDE DEF r
  <2>. QED
    BY <2>1, <2>2, RegistryUpdated DEF RegistryStage
<1>. QED
  BY <1>1, <1>3, <1>4

\* With no path in the URI the registry is exact for any number of connects: it
\* holds the object in hand, alive, or nothing, so that "check if connection to
\* socket already exists" never finds an object that was deleted.
THEOREM RegistryIsExact == Spec => []RegistryExactWithoutPath
<1>1. Init => RegistryStage
  BY DEF Init, RegistryStage, RegistryExactWithoutPath, RegisteredSocketExists, NoCrash
<1>2. SioInv /\ RegistryStage /\ [Next]_vars => RegistryStage'
  <2>1. RegistryStage /\ UNCHANGED vars => RegistryStage'
    <3>. SUFFICES ASSUME RegistryStage, UNCHANGED vars PROVE RegistryStage'
      OBVIOUS
    <3>1. UNCHANGED <<hasPath, pc, impl, cur, socketMap, crash>>
      BY DEF vars
    <3>. QED
      BY <3>1 DEF RegistryStage, RegistryExactWithoutPath, RegisteredSocketExists
  <2>. QED
    BY <2>1, ConnectRegisters, LeaveUnregisters, MonitorRegisters DEF Next
<1>3. RegistryStage => RegistryExactWithoutPath
  BY DEF RegistryStage
<1>. QED
  BY <1>1, <1>2, <1>3, SioInvariant, PTL DEF Spec
=============================================================================
