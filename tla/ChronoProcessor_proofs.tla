----------------------- MODULE ChronoProcessor_proofs -----------------------
(***************************************************************************)
(* Theorems about ChronoProcessor for any competitors, clocks and word     *)
(* size: its type invariant, the running time shown to the public, and the *)
(* announcements that depend on earlier packets.                           *)
(***************************************************************************)
EXTENDS ChronoProcessor, TLAPS

\* A remainder is the only one of its kind.
LEMMA RemainderIsUnique ==
    ASSUME NEW w \in Nat \ {0}, NEW x \in Int, NEW k \in Int, NEW r \in 0..(w - 1),
           x = w * k + r
    PROVE  x % w = r
<1>. DEFINE j == x \div w
            s == x % w
<1>1. j \in Int /\ s \in 0..(w - 1) /\ x = w * j + s
  OBVIOUS
<1>. HIDE DEF j, s
<1>2. w * (k - j) = s - r
  BY <1>1
<1>3. k - j < 1
  <2>1. SUFFICES ASSUME k - j >= 1 PROVE FALSE
    BY <1>1
  <2>2. w * (k - j) >= w
    BY <1>1, <2>1
  <2>. QED
    BY <1>1, <1>2, <2>2
<1>4. k - j > -1
  <2>1. SUFFICES ASSUME k - j <= -1 PROVE FALSE
    BY <1>1
  <2>2. w * (k - j) <= -w
    BY <1>1, <2>1
  <2>. QED
    BY <1>1, <1>2, <2>2
<1>5. k = j
  BY <1>1, <1>3, <1>4
<1>6. s = r
  BY <1>1, <1>5
<1>. QED
  BY <1>6 DEF s

\* Two tick counts give the time between them if it is less than a wrap.
LEMMA TickDifference ==
    ASSUME NEW w \in Nat \ {0}, NEW a \in Nat, NEW d \in Nat, d < w
    PROVE  (((a + d) % w) - (a % w)) % w = d
<1>. DEFINE r == a % w
            q == a \div w
<1>1. r \in 0..(w - 1) /\ q \in Int /\ a = w * q + r
  OBVIOUS
<1>. HIDE DEF r, q
<1>2. CASE r + d < w
  <2>1. (a + d) % w = r + d
    BY <1>1, <1>2, RemainderIsUnique
  <2>2. d = w * 0 + d
    OBVIOUS
  <2>3. d % w = d
    BY <2>2, RemainderIsUnique
  <2>4. ((a + d) % w) - (a % w) = d
    BY <1>1, <2>1 DEF r
  <2>. QED
    BY <2>3, <2>4
<1>3. CASE r + d >= w
  <2>1. a + d = w * (q + 1) + (r + d - w)
    BY <1>1
  <2>2. (a + d) % w = r + d - w
    <3>1. a + d \in Int /\ q + 1 \in Int /\ r + d - w \in 0..(w - 1)
      BY <1>1, <1>3
    <3>. QED
      BY <2>1, <3>1, RemainderIsUnique
  <2>3. d - w = w * (-1) + d
    OBVIOUS
  <2>4. (d - w) % w = d
    BY <2>3, RemainderIsUnique
  <2>5. ((a + d) % w) - (a % w) = d - w
    BY <1>1, <2>2 DEF r
  <2>. QED
    BY <2>4, <2>5
<1>. QED
  BY <1>1, <1>2, <1>3

-----------------------------------------------------------------------------
(* Types                                                                    *)

\* The packet a handler takes, and what stays on the wire.
LEMMA WireTaken ==
    ASSUME TypeOK, wire # <<>>
    PROVE  /\ Head(wire) \in Packet
           /\ Tail(wire) \in Seq(Packet) /\ Len(Tail(wire)) <= MaxWire
           /\ Head(wire) = wire[1] /\ 1 \in 1..Len(wire)
           /\ \A i \in 1..Len(Tail(wire)) :
                 Tail(wire)[i] = wire[i + 1] /\ i + 1 \in 1..Len(wire)
           /\ up
<1>1. wire \in Seq(Packet) /\ Len(wire) <= MaxWire /\ Len(wire) \in Nat
  BY DEF TypeOK
<1>2. Len(wire) # 0
  BY <1>1
<1>3. up
  BY DEF TypeOK
<1>. QED
  BY <1>1, <1>2, <1>3, ChronoAssumption

\* The fields the handlers of jumping read.
LEMMA PacketFields ==
    ASSUME NEW p \in Packet
    PROVE  /\ p.cmd = "SYNC" => p.time \in Nat /\ p.sent \in Nat
           /\ p.cmd = "RUN" => /\ p.num \in Numbers /\ p.start \in Nat
                              /\ p.final \in BOOLEAN
  BY DEF Packet, PlainPackets, NumberPackets

LEMMA TickCountType == TypeOK => GetTickCount \in 0..(Wrap - 1)
  BY ChronoAssumption DEF TypeOK, GetTickCount

-----------------------------------------------------------------------------
(* The inductive invariant                                                  *)

\* "ready" is owed exactly while m_bJustLoaded is set, and m_bRunning is only
\* set by a RUN that started.
FlagsInv ==
    /\ announced = ~m_bJustLoaded
    /\ m_bRunning => lastRun = "started"

\* A SYNC on the wire was sent on this connection.
WireInv ==
    \A i \in 1..Len(wire) : wire[i].cmd = "SYNC" =>
        wire[i].sent \in 0..now /\ wire[i].time = wire[i].sent + offset


\* Clock and tick count kept by it are those of that moment.
SyncInv ==
    sync.done =>
        /\ HandledAt \in 0..now
        /\ m_nSyncUpdatedTick = (boot + HandledAt) % Wrap

ChronoInv == TypeOK /\ FlagsInv /\ WireInv /\ SyncInv

LEMMA ChronoInit == Init => ChronoInv
<1>. SUFFICES ASSUME Init PROVE ChronoInv
  OBVIOUS
<1>. USE ChronoAssumption DEF Init
<1>0. /\ wire \in Seq(Packet) /\ Len(wire) = 0 /\ wire = <<>>
      /\ todo \in Seq(Lists) /\ todo = <<>>
  OBVIOUS
<1>1. TypeOK
  <2>1. sync \in [done : BOOLEAN, delay : Nat]
    BY DEF NoSync
  <2>2. 0 \in 0..MaxTime /\ 0 \in 0..(Wrap - 1) /\ 0 <= MaxWire
    OBVIOUS
  <2>. QED
    BY <1>0, <2>1, <2>2 DEF TypeOK
<1>2. FlagsInv /\ WireInv /\ SyncInv
  <2>1. WireInv
    BY <1>0 DEF WireInv
  <2>2. FlagsInv /\ SyncInv
    BY DEF FlagsInv, SyncInv, NoSync
  <2>. QED
    BY <2>1, <2>2
<1>. QED
  BY <1>1, <1>2 DEF ChronoInv

\* Time goes on.
LEMMA TickKeeps == ChronoInv /\ Tick => ChronoInv'
<1>. SUFFICES ASSUME ChronoInv, Tick PROVE ChronoInv'
  OBVIOUS
<1>. USE ChronoAssumption DEF ChronoInv, Tick, runVars, syncVars, ghostVars
<1>1. TypeOK'
  BY DEF TypeOK
<1>2. FlagsInv'
  BY DEF FlagsInv
<1>3. WireInv'
  BY DEF WireInv, TypeOK
<1>4. SyncInv'
  BY DEF SyncInv, HandledAt, TypeOK
<1>. QED
  BY <1>1, <1>2, <1>3, <1>4

\* The chronometer sends a packet that is no SYNC, or a SYNC of now.
LEMMA SendKeeps ==
    ASSUME ChronoInv, NEW p \in Packet, Send(p),
           p.cmd = "SYNC" => p.sent = now /\ p.time = now + offset
    PROVE  ChronoInv'
<1>. USE ChronoAssumption DEF ChronoInv, Send, clockVars, runVars, syncVars, ghostVars
<1>1. wire' \in Seq(Packet) /\ Len(wire') = Len(wire) + 1
      /\ \A i \in 1..Len(wire') : wire'[i] = IF i = Len(wire) + 1 THEN p ELSE wire[i]
  BY DEF TypeOK
<1>2. TypeOK'
  BY <1>1 DEF TypeOK
<1>3. FlagsInv'
  BY DEF FlagsInv
<1>4. WireInv'
  <2>. SUFFICES ASSUME NEW i \in 1..Len(wire'), wire'[i].cmd = "SYNC"
                PROVE  wire'[i].sent \in 0..now /\ wire'[i].time = wire'[i].sent + offset
    BY DEF WireInv
  <2>1. Len(wire) \in Nat /\ now \in Nat
    BY DEF TypeOK
  <2>2. CASE i = Len(wire) + 1
    BY <1>1, <2>1, <2>2
  <2>3. CASE i # Len(wire) + 1
    <3>1. i \in 1..Len(wire) /\ wire'[i] = wire[i]
      BY <1>1, <2>1, <2>3
    <3>. QED
      BY <3>1 DEF WireInv
  <2>. QED
    BY <2>2, <2>3
<1>5. SyncInv'
  BY DEF SyncInv, HandledAt
<1>. QED
  BY <1>2, <1>3, <1>4, <1>5

LEMMA DeviceKeeps == ChronoInv /\ DeviceSends => ChronoInv'
<1>. SUFFICES ASSUME ChronoInv, DeviceSends PROVE ChronoInv'
  OBVIOUS
<1>0. now \in Nat /\ offset \in Nat
  BY ChronoAssumption DEF ChronoInv, TypeOK
<1>1. CASE Send(SyncPacket(DeviceClock))
  <2>1. /\ SyncPacket(DeviceClock) \in Packet
        /\ SyncPacket(DeviceClock).sent = now
        /\ SyncPacket(DeviceClock).time = now + offset
    BY <1>0 DEF SyncPacket, DeviceClock, Packet
  <2>. QED
    BY <1>1, <2>1, SendKeeps
<1>2. ASSUME NEW n \in Numbers, NEW s \in {0, offset, DeviceClock}, NEW f \in BOOLEAN,
             Send(RunPacket(n, s, f))
      PROVE  ChronoInv'
  <2>1. RunPacket(n, s, f) \in Packet /\ RunPacket(n, s, f).cmd = "RUN"
    BY <1>0 DEF RunPacket, DeviceClock, Packet
  <2>. QED
    BY <1>2, <2>1, SendKeeps
<1>3. ASSUME NEW c \in PlainPackets, Send([cmd |-> c])
      PROVE  ChronoInv'
  <2>1. [cmd |-> c] \in Packet /\ c # "SYNC"
    BY DEF Packet, PlainPackets
  <2>. QED
    BY <1>3, <2>1, SendKeeps
<1>4. ASSUME NEW c \in NumberPackets, NEW n \in Numbers, Send([cmd |-> c, num |-> n])
      PROVE  ChronoInv'
  <2>1. [cmd |-> c, num |-> n] \in Packet /\ c # "SYNC"
    BY DEF Packet, NumberPackets
  <2>. QED
    BY <1>4, <2>1, SendKeeps
<1>5. ASSUME NEW k \in {"0", "1", "2"}, Send([cmd |-> "S", section |-> k])
      PROVE  ChronoInv'
  <2>1. [cmd |-> "S", section |-> k] \in Packet
    BY DEF Packet
  <2>. QED
    BY <1>5, <2>1, SendKeeps
<1>. QED
  BY <1>1, <1>2, <1>3, <1>4, <1>5 DEF DeviceSends

\* A connection begins or ends: no packet is on the wire then.
LEMMA LinkKeeps == ChronoInv /\ (Connected \/ Disconnected) => ChronoInv'
<1>. SUFFICES ASSUME ChronoInv, Connected \/ Disconnected PROVE ChronoInv'
  OBVIOUS
<1>. USE ChronoAssumption DEF ChronoInv, clockVars, runVars, syncVars, ghostVars
<1>1. CASE Connected
  <2>1. wire = <<>> /\ Len(wire) = 0
    BY <1>1 DEF Connected, TypeOK
  <2>2. todo' \in Seq(Lists)
    BY <1>1 DEF Connected, Lists
  <2>3. TypeOK'
    BY <1>1, <2>1, <2>2 DEF Connected, TypeOK, NoSync
  <2>4. FlagsInv' /\ WireInv' /\ SyncInv'
    BY <1>1, <2>1 DEF Connected, FlagsInv, WireInv, SyncInv, NoSync
  <2>. QED
    BY <2>3, <2>4
<1>2. CASE Disconnected
  <2>0. wire' \in Seq(Packet) /\ Len(wire') = 0
    BY <1>2 DEF Disconnected
  <2>1. TypeOK'
    <3>1. todo' = <<>> /\ wire' = <<>> /\ up' = FALSE /\ 0 <= MaxWire
      BY <1>2 DEF Disconnected
    <3>. QED
      BY <1>2, <2>0, <3>1 DEF Disconnected, TypeOK
  <2>2. FlagsInv' /\ WireInv' /\ SyncInv'
    BY <1>2 DEF Disconnected, FlagsInv, WireInv, SyncInv, HandledAt
  <2>. QED
    BY <2>1, <2>2
<1>. QED
  BY <1>1, <1>2

\* The lists a sleeping handler sends or skips.
LEMMA ListsKeep == ChronoInv /\ (SendList \/ SendRanking \/ SkipList) => ChronoInv'
<1>. SUFFICES ASSUME ChronoInv, SendList \/ SendRanking \/ SkipList PROVE ChronoInv'
  OBVIOUS
<1>. USE DEF ChronoInv, clockVars, runVars, syncVars, ghostVars
<1>1. UNCHANGED <<clockVars, wire, up, runVars, syncVars, m_bJustLoaded, ghostVars>>
  BY DEF SendList, SendRanking, SkipList
<1>2. todo \in Seq(Lists) /\ todo # <<>>
  BY DEF SendList, SendRanking, SkipList, TypeOK
<1>3. Tail(todo) \in Seq(Lists) /\ <<"cc-ranking">> \o Tail(todo) \in Seq(Lists)
  BY <1>2 DEF Lists
<1>4. todo' \in Seq(Lists) /\ up
  BY <1>2, <1>3 DEF SendList, SendRanking, SkipList, TypeOK
<1>5. TypeOK'
  BY <1>1, <1>4 DEF TypeOK
<1>6. FlagsInv' /\ WireInv' /\ SyncInv'
  BY <1>1 DEF FlagsInv, WireInv, SyncInv, HandledAt
<1>. QED
  BY <1>5, <1>6

\* A handler takes the first packet.
LEMMA Takes ==
    ASSUME ChronoInv, NEW c, Receives(c), UNCHANGED <<now, offset>>
    PROVE  /\ Head(wire) \in Packet /\ Head(wire).cmd = c
           /\ wire' \in Seq(Packet) /\ Len(wire') <= MaxWire
           /\ up /\ todo = <<>>
           /\ c = "SYNC" => /\ Head(wire).sent \in 0..now
                           /\ Head(wire).time = Head(wire).sent + offset
           /\ WireInv'
<1>1. wire # <<>> /\ wire' = Tail(wire) /\ Head(wire).cmd = c /\ todo = <<>>
  BY DEF Receives
<1>2. WireInv /\ TypeOK
  BY DEF ChronoInv
<1>3. WireInv'
  <2>. SUFFICES ASSUME NEW i \in 1..Len(wire'), wire'[i].cmd = "SYNC"
                PROVE  wire'[i].sent \in 0..now /\ wire'[i].time = wire'[i].sent + offset
    BY DEF WireInv
  <2>1. wire'[i] = wire[i + 1] /\ i + 1 \in 1..Len(wire)
    BY <1>1, <1>2, WireTaken
  <2>. QED
    BY <1>2, <2>1 DEF WireInv
<1>4. c = "SYNC" => /\ Head(wire).sent \in 0..now
                    /\ Head(wire).time = Head(wire).sent + offset
  BY <1>1, <1>2, WireTaken DEF WireInv
<1>. QED
  BY <1>1, <1>2, <1>3, <1>4, WireTaken

\* The handlers that keep flags and clocks: those of the announcements by
\* number, of TI0, of cross, and of packets nobody handles.
LEMMA PassingOnKeeps ==
    ASSUME ChronoInv, NEW c, Receives(c), todo' \in Seq(Lists),
           UNCHANGED <<clockVars, up, runVars, syncVars, m_bJustLoaded, ghostVars>>
    PROVE  ChronoInv'
<1>. USE DEF ChronoInv, clockVars, runVars, syncVars, ghostVars
<1>1. wire' \in Seq(Packet) /\ Len(wire') <= MaxWire /\ up /\ WireInv'
  BY Takes
<1>2. TypeOK'
  BY <1>1 DEF TypeOK
<1>3. FlagsInv' /\ SyncInv'
  BY DEF FlagsInv, SyncInv, HandledAt
<1>. QED
  BY <1>1, <1>2, <1>3

\* A RUN moves the flags.
LEMMA RunKeeps ==
    ASSUME ChronoInv, OnRunFinal \/ OnRunStarted \/ OnRunWaiting
    PROVE  ChronoInv'
<1>. USE DEF ChronoInv, clockVars, runVars, syncVars, ghostVars
<1>1. /\ Receives("RUN") /\ m_nNumber' = Head(wire).num
      /\ UNCHANGED <<clockVars, up, todo, syncVars>>
  BY DEF OnRunFinal, OnRunStarted, OnRunWaiting
<1>2. /\ wire' \in Seq(Packet) /\ Len(wire') <= MaxWire /\ up /\ WireInv'
      /\ Head(wire).num \in Numbers
  BY <1>1, Takes, PacketFields
<1>3. /\ m_bRunning' \in BOOLEAN /\ m_bJustLoaded' \in BOOLEAN
      /\ announced' \in BOOLEAN
      /\ lastRun' \in {"none", "waiting", "started", "final"}
      /\ FlagsInv'
  BY DEF OnRunFinal, OnRunStarted, OnRunWaiting, TypeOK, FlagsInv
<1>4. TypeOK'
  BY <1>1, <1>2, <1>3 DEF TypeOK
<1>5. SyncInv'
  BY <1>1 DEF SyncInv, HandledAt
<1>. QED
  BY <1>2, <1>3, <1>4, <1>5

\* A SYNC copies the two clocks.
LEMMA SyncKeeps == ChronoInv /\ OnSync => ChronoInv'
<1>. SUFFICES ASSUME ChronoInv, OnSync PROVE ChronoInv'
  OBVIOUS
<1>. USE ChronoAssumption DEF ChronoInv, clockVars, runVars, ghostVars
<1>0. /\ Receives("SYNC") /\ UNCHANGED <<now, offset>>
      /\ m_nCurTime' = Head(wire).time /\ m_nSyncUpdatedTick' = GetTickCount
      /\ sync' = [done |-> TRUE, delay |-> now - Head(wire).sent]
  BY DEF OnSync
<1>1. /\ wire' \in Seq(Packet) /\ Len(wire') <= MaxWire /\ up /\ WireInv'
      /\ Head(wire).sent \in 0..now /\ Head(wire).time = Head(wire).sent + offset
      /\ Head(wire).time \in Nat
  BY <1>0, Takes, PacketFields
<1>2. now \in Nat /\ offset \in Nat /\ GetTickCount \in 0..(Wrap - 1)
  BY TickCountType DEF TypeOK
<1>3. sync' \in [done : BOOLEAN, delay : Nat]
  BY <1>0, <1>1, <1>2
<1>4. TypeOK'
  BY <1>0, <1>1, <1>2, <1>3 DEF TypeOK, OnSync
<1>5. HandledAt' = now
  BY <1>0, <1>1, <1>2 DEF HandledAt
<1>6. boot' = boot
  BY DEF OnSync
<1>7. SyncInv'
  BY <1>0, <1>2, <1>5, <1>6 DEF SyncInv, GetTickCount
<1>8. FlagsInv'
  BY DEF OnSync, FlagsInv
<1>. QED
  BY <1>1, <1>4, <1>7, <1>8

LEMMA ProcessKeeps == ChronoInv /\ (Process \/ ProcessCross \/ Ignore) => ChronoInv'
<1>. SUFFICES ASSUME ChronoInv, Process \/ ProcessCross \/ Ignore PROVE ChronoInv'
  OBVIOUS
<1>0. todo \in Seq(Lists)
  BY DEF ChronoInv, TypeOK
<1>1. CASE OnLoadTI
  <2>. USE <1>1 DEF ChronoInv, OnLoadTI, clockVars, runVars, syncVars
  <2>1. todo' \in Seq(Lists)
    BY DEF Lists
  <2>2. wire' \in Seq(Packet) /\ Len(wire') <= MaxWire /\ up /\ WireInv'
    BY Takes
  <2>3. TypeOK'
    BY <2>1, <2>2 DEF TypeOK
  <2>4. FlagsInv' /\ SyncInv'
    BY DEF FlagsInv, SyncInv, HandledAt
  <2>. QED
    BY <2>2, <2>3, <2>4
<1>2. CASE OnSync
  BY <1>2, SyncKeeps
<1>3. CASE OnRunFinal \/ OnRunStarted \/ OnRunWaiting
  BY <1>3, RunKeeps
<1>4. CASE OnAtStart
  BY <1>0, <1>4, PassingOnKeeps DEF OnAtStart
<1>5. CASE OnDNF
  BY <1>0, <1>5, PassingOnKeeps DEF OnDNF
<1>6. CASE OnTI1
  BY <1>0, <1>6, PassingOnKeeps DEF OnTI1
<1>7. CASE OnTI0
  <2>1. todo' \in Seq(Lists)
    BY <1>7 DEF OnTI0, Lists
  <2>. QED
    BY <1>7, <2>1, PassingOnKeeps DEF OnTI0
<1>8. CASE ProcessCross
  BY <1>0, <1>8, PassingOnKeeps DEF ProcessCross
<1>9. CASE Ignore
  BY <1>0, <1>9, PassingOnKeeps DEF Ignore
<1>. QED
  BY <1>1, <1>2, <1>3, <1>4, <1>5, <1>6, <1>7, <1>8, <1>9 DEF Process

LEMMA ChronoStep == ChronoInv /\ [Next]_vars => ChronoInv'
<1>. SUFFICES ASSUME ChronoInv, [Next]_vars PROVE ChronoInv'
  OBVIOUS
<1>1. CASE UNCHANGED vars
  BY <1>1 DEF vars, clockVars, runVars, syncVars, ghostVars, ChronoInv, TypeOK,
              FlagsInv, WireInv, SyncInv, HandledAt
<1>. QED
  BY <1>1, TickKeeps, DeviceKeeps, LinkKeeps, ListsKeep, ProcessKeeps DEF Next

\* The inductive invariant of the handlers of MsgProcessor.
THEOREM ChronoInvariant == Spec => []ChronoInv
  BY ChronoInit, ChronoStep, PTL DEF Spec

\* Every member keeps its type, over reconnects and changes of discipline.
THEOREM ChronoTypeCorrect == Spec => []TypeOK
<1>1. ChronoInv => TypeOK
  BY DEF ChronoInv
<1>. QED
  BY <1>1, ChronoInvariant, PTL

-----------------------------------------------------------------------------
(* What is handed to SendToWebSocket                                        *)

\* No statement is made about a message of another kind.
LEMMA OtherMessages ==
    ASSUME out'.cmd \notin {"run", "ready", "atstart"}
    PROVE  /\ RunTimeNeverAhead' /\ RunTimeLateBySyncDelay'
           /\ ReadyOncePerLoad' /\ AtStartOnlyDuringRun'
  BY DEF RunTimeNeverAhead, RunTimeLateBySyncDelay, ReadyOncePerLoad,
         AtStartOnlyDuringRun

\* The ticks counted since the last SYNC are the time since it was handled,
\* until they are too many for an int; then they count as fewer than none.
LEMMA TicksSinceSync ==
    ASSUME ChronoInv, sync.done, m_nSyncUpdatedTick # 0
    PROVE  /\ TimeDelta <= now - HandledAt
           /\ now - HandledAt < Wrap \div 2 => TimeDelta = now - HandledAt
           /\ TimeDelta \in Int
<1>. USE ChronoAssumption
<1>1. /\ boot \in Nat /\ now \in Nat /\ HandledAt \in 0..now /\ now < Wrap
      /\ m_nSyncUpdatedTick = (boot + HandledAt) % Wrap
  BY DEF ChronoInv, TypeOK, SyncInv
<1>. DEFINE a == boot + HandledAt
            d == now - HandledAt
<1>2. a \in Nat /\ d \in Nat /\ d < Wrap /\ a + d = boot + now
  BY <1>1
<1>. HIDE DEF a, d
<1>3. (((a + d) % Wrap) - (a % Wrap)) % Wrap = d
  BY <1>2, TickDifference
<1>4. ((GetTickCount - m_nSyncUpdatedTick) % Wrap) = d
  BY <1>1, <1>2, <1>3 DEF GetTickCount, a
<1>5. /\ TimeDelta = IF d < Wrap \div 2 THEN d ELSE d - Wrap
  BY <1>4 DEF TimeDelta, AsInt
<1>. QED
  BY <1>2, <1>5 DEF d

\* The running time of the message, against the chronometer's clock.
LEMMA RunTime ==
    ASSUME ChronoInv, OnRunStarted
    PROVE  RunTimeNeverAhead' /\ RunTimeLateBySyncDelay'
<1>. DEFINE start == Head(wire).start
<1>0. /\ out'.cmd = "run" /\ out'.time = m_nCurTime - start + TimeDelta
      /\ out'.start = start /\ out'.clock = now + offset
      /\ out'.sync = sync /\ out'.tick = m_nSyncUpdatedTick
      /\ out'.age = now - HandledAt
  BY DEF OnRunStarted, DeviceClock
<1>1. start \in Nat
  <2>1. Receives("RUN") /\ UNCHANGED <<now, offset>>
    BY DEF OnRunStarted, clockVars
  <2>. QED
    BY <2>1, Takes, PacketFields
<1>2. /\ now \in Nat /\ offset \in Nat /\ m_nCurTime \in Nat
      /\ sync.delay \in Nat
  BY ChronoAssumption DEF ChronoInv, TypeOK
<1>3. SUFFICES ASSUME sync.done PROVE RunTimeNeverAhead' /\ RunTimeLateBySyncDelay'
  BY <1>0 DEF RunTimeNeverAhead, RunTimeLateBySyncDelay
<1>4. HandledAt \in 0..now
  BY <1>3 DEF ChronoInv, SyncInv
<1>5. CASE m_nSyncUpdatedTick # 0
  <2>1. /\ TimeDelta <= now - HandledAt /\ TimeDelta \in Int
        /\ now - HandledAt < Wrap \div 2 => TimeDelta = now - HandledAt
    BY <1>3, <1>5, TicksSinceSync
  <2>2. m_nCurTime - start + (now - HandledAt) = now + offset - start - sync.delay
    BY <1>1, <1>2 DEF HandledAt
  <2>3. out'.clock - out'.start = now + offset - start
    BY <1>0, <1>1, <1>2
  <2>4. out'.time <= m_nCurTime - start + (now - HandledAt)
    BY <1>0, <1>1, <1>2, <1>4, <2>1
  <2>5. now - HandledAt < Wrap \div 2
           => out'.time = m_nCurTime - start + (now - HandledAt)
    BY <1>0, <2>1
  <2>6. out'.time \in Int
    BY <1>0, <1>1, <1>2, <2>1
  <2>7. RunTimeNeverAhead'
    BY <1>1, <1>2, <2>2, <2>3, <2>4, <2>6 DEF RunTimeNeverAhead, Elapsed
  <2>8. RunTimeLateBySyncDelay'
    <3>1. SUFFICES ASSUME now - HandledAt < Wrap \div 2
                   PROVE  out'.time = (out'.clock - out'.start) - out'.sync.delay
      BY <1>0 DEF RunTimeLateBySyncDelay, Elapsed
    <3>2. out'.time = now + offset - start - sync.delay
      BY <2>2, <2>5, <3>1
    <3>3. now + offset - start - sync.delay = (now + offset - start) - sync.delay
      BY <1>1, <1>2
    <3>4. out'.sync.delay = sync.delay
      BY <1>0
    <3>. QED
      BY <2>3, <3>2, <3>3, <3>4
  <2>. QED
    BY <2>7, <2>8
<1>6. CASE m_nSyncUpdatedTick = 0
  <2>1. TimeDelta = 0
    BY <1>6 DEF TimeDelta
  <2>2. out'.time = m_nCurTime - start /\ m_nCurTime <= now + offset
    BY <1>0, <1>1, <1>2, <1>4, <2>1 DEF HandledAt
  <2>3. out'.clock - out'.start = now + offset - start
    BY <1>0, <1>1, <1>2
  <2>. QED
    BY <1>0, <1>1, <1>2, <1>6, <2>2, <2>3
    DEF RunTimeNeverAhead, RunTimeLateBySyncDelay, Elapsed
<1>. QED
  BY <1>5, <1>6

\* Every message a step hands over satisfies the four properties.
LEMMA MessagesStep ==
    ASSUME ChronoInv, [Next]_vars,
           RunTimeNeverAhead, RunTimeLateBySyncDelay, ReadyOncePerLoad,
           AtStartOnlyDuringRun
    PROVE  /\ RunTimeNeverAhead' /\ RunTimeLateBySyncDelay'
           /\ ReadyOncePerLoad' /\ AtStartOnlyDuringRun'
<1>0. Silent.cmd = "none"
  BY DEF Silent
<1>1. CASE Tick \/ DeviceSends \/ Connected \/ Disconnected \/ SkipList
  <2>1. CASE DeviceSends
    <3>1. \E p : Send(p)
      BY <2>1 DEF DeviceSends
    <3>. QED
      BY <1>0, <3>1, OtherMessages DEF Send
  <2>2. CASE Disconnected
    BY <2>2, OtherMessages DEF Disconnected
  <2>3. CASE Tick \/ Connected \/ SkipList
    BY <1>0, <2>3, OtherMessages DEF Tick, Connected, SkipList
  <2>. QED
    BY <1>1, <2>1, <2>2, <2>3
<1>2. CASE SendList \/ SendRanking
  <2>1. Head(todo) \in Lists
    BY <1>2 DEF SendList, SendRanking, ChronoInv, TypeOK
  <2>. QED
    BY <1>2, <2>1, OtherMessages DEF SendList, SendRanking, Lists
<1>3. CASE OnLoadTI \/ OnSync \/ OnRunFinal \/ OnDNF \/ OnTI1 \/ OnTI0 \/ Ignore
  BY <1>0, <1>3, OtherMessages DEF OnLoadTI, OnSync, OnRunFinal, OnDNF, OnTI1, OnTI0, Ignore
<1>4. CASE ProcessCross
  <2>1. \A p : \A r \in CrossReply(p) : r \notin {"run", "ready", "atstart"}
    BY DEF CrossReply
  <2>. QED
    BY <1>0, <1>4, <2>1, OtherMessages DEF ProcessCross
<1>5. CASE OnRunStarted
  <2>1. ReadyOncePerLoad' /\ AtStartOnlyDuringRun'
    BY <1>5 DEF OnRunStarted, ReadyOncePerLoad, AtStartOnlyDuringRun
  <2>. QED
    BY <1>5, <2>1, RunTime
<1>6. CASE OnRunWaiting
  <2>1. CASE m_bJustLoaded
    <3>1. ~announced
      BY <2>1 DEF ChronoInv, FlagsInv
    <3>2. out'.cmd = "ready" /\ ~out'.again
      BY <1>6, <2>1, <3>1 DEF OnRunWaiting
    <3>. QED
      BY <3>2 DEF RunTimeNeverAhead, RunTimeLateBySyncDelay, ReadyOncePerLoad,
                  AtStartOnlyDuringRun
  <2>2. CASE ~m_bJustLoaded
    BY <1>0, <1>6, <2>2, OtherMessages DEF OnRunWaiting
  <2>. QED
    BY <2>1, <2>2
<1>7. CASE OnAtStart
  <2>1. CASE m_bRunning
    <3>1. out'.cmd = "atstart" /\ out'.during = "started"
      BY <1>7, <2>1 DEF OnAtStart, ChronoInv, FlagsInv
    <3>. QED
      BY <3>1 DEF RunTimeNeverAhead, RunTimeLateBySyncDelay, ReadyOncePerLoad,
                  AtStartOnlyDuringRun
  <2>2. CASE ~m_bRunning
    BY <1>0, <1>7, <2>2, OtherMessages DEF OnAtStart
  <2>. QED
    BY <2>1, <2>2
<1>8. CASE UNCHANGED vars
  BY <1>8 DEF vars, RunTimeNeverAhead, RunTimeLateBySyncDelay, ReadyOncePerLoad,
              AtStartOnlyDuringRun, Elapsed
<1>. QED
  BY <1>1, <1>2, <1>3, <1>4, <1>5, <1>6, <1>7, <1>8 DEF Next, Process

Messages ==
    RunTimeNeverAhead /\ RunTimeLateBySyncDelay /\ ReadyOncePerLoad
        /\ AtStartOnlyDuringRun

LEMMA MessagesHold == Spec => []Messages
<1>1. Init => Messages
  BY DEF Init, Silent, Messages, RunTimeNeverAhead, RunTimeLateBySyncDelay,
         ReadyOncePerLoad, AtStartOnlyDuringRun
<1>2. ChronoInv /\ Messages /\ [Next]_vars => Messages'
  BY MessagesStep DEF Messages
<1>. QED
  BY <1>1, <1>2, ChronoInvariant, PTL DEF Spec

\* The running time shown to the public (OnRun) is never ahead of the
\* chronometer, for any word size of GetTickCount and any boot time.
THEOREM RunTimeIsNeverAhead == Spec => []RunTimeNeverAhead
<1>1. Messages => RunTimeNeverAhead
  BY DEF Messages
<1>. QED
  BY <1>1, MessagesHold, PTL

\* It is late by exactly the time the last SYNC waited to be handled, across a
\* wrap of GetTickCount.
THEOREM RunTimeIsLateBySyncDelay == Spec => []RunTimeLateBySyncDelay
<1>1. Messages => RunTimeLateBySyncDelay
  BY DEF Messages
<1>. QED
  BY <1>1, MessagesHold, PTL

\* "ready" is announced at most once per LOADTI (m_bJustLoaded).
THEOREM ReadyIsSentOnce == Spec => []ReadyOncePerLoad
<1>1. Messages => ReadyOncePerLoad
  BY DEF Messages
<1>. QED
  BY <1>1, MessagesHold, PTL

\* "atstart" is passed on only during a run (m_bRunning).
THEOREM AtStartDuringRun == Spec => []AtStartOnlyDuringRun
<1>1. Messages => AtStartOnlyDuringRun
  BY DEF Messages
<1>. QED
  BY <1>1, MessagesHold, PTL
=============================================================================
