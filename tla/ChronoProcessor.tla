-------------------------- MODULE ChronoProcessor --------------------------
(***************************************************************************)
(* MsgProcessor: what the chrono client thread does with the packets of    *)
(* the chronometer, once AddToStream has cut and decrypted them.           *)
(*                                                                         *)
(* Time is explicit, because the time of a running competitor is computed  *)
(* from two clocks: the chronometer's, copied by SYNC, and GetTickCount,   *)
(* which wraps.  A handler that sleeps (LOADTI and Connected) leaves the   *)
(* messages it has still to send in "todo" and packets wait on the wire.   *)
(***************************************************************************)
EXTENDS Integers, Sequences

CONSTANTS
    Numbers,       \* competitor numbers
    Disciplines,   \* values of m_discipline (0 jumping, 2 cross, 3 dressage)
    Offsets,       \* what a chronometer's clock may be ahead of "now"
    Boots,         \* tick counts the program may start at
    Wrap,          \* GetTickCount is taken modulo Wrap (2^32 in the code)
    MaxTime,       \* bound on time
    MaxWire        \* bound on packets in flight

ASSUME ChronoAssumption ==
    /\ Numbers \subseteq Nat \ {0}
    /\ Disciplines \subseteq Nat
    /\ Offsets \subseteq Nat \ {0} /\ Offsets # {}
    /\ Wrap \in Nat \ {0}
    /\ Boots \subseteq 0..(Wrap - 1) /\ Boots # {}
    /\ MaxTime \in Nat /\ MaxTime < Wrap   \* a SYNC is never a whole wrap old
    /\ MaxWire \in Nat

VARIABLES
    now,           \* time since the start of the program
    boot,          \* GetTickCount at the start of the program
    offset,        \* clock of the connected chronometer minus now
    wire,          \* packets sent by the chronometer and not yet processed
    up,            \* the client thread is in its receive loop
    todo,          \* messages the sleeping handler has still to send
    m_nNumber,     \* number of the last RUN
    m_bRunning,
    m_nCurTime,    \* the chronometer's clock at the last SYNC
    m_nSyncUpdatedTick,   \* GetTickCount at the last SYNC, 0 for none
    m_bJustLoaded, \* LOADTI seen, "ready" not sent yet
    out,           \* message the last step handed to SendToWebSocket
    announced,     \* ghost: no LOADTI since the last "ready"
    lastRun,       \* ghost: what the last RUN processed said
    sync           \* ghost: the last SYNC processed on this connection

clockVars == <<now, boot, offset>>
runVars   == <<m_nNumber, m_bRunning>>
syncVars  == <<m_nCurTime, m_nSyncUpdatedTick, sync>>
ghostVars == <<announced, lastRun>>
vars == <<clockVars, wire, up, todo, runVars, syncVars, m_bJustLoaded, out,
          ghostVars>>

-----------------------------------------------------------------------------
\* Mutant of GetTickCount: a tick count that does not wrap.
TickCount64 == boot + now

GetTickCount == (boot + now) % Wrap
DeviceClock == now + offset

Lists == {"info", "startlist", "teamlist", "horses", "riders", "judges",
          "ranking", "cc-ranking"}

\* Packets with no field the model tells apart.
PlainPackets == {"LOADTI", "ATSTART", "TI0", "START_I", "END_I", "RUNC", "R",
                 "F", "NR"}

NumberPackets == {"DNF", "TI1"}

SyncPacket(t) == [cmd |-> "SYNC", time |-> t, sent |-> now]
RunPacket(n, s, f) == [cmd |-> "RUN", num |-> n, start |-> s, final |-> f]

\* The step hands nothing to SendToWebSocket.
Silent == [cmd |-> "none"]

NoSync == [done |-> FALSE, delay |-> 0]

Init ==
    /\ now = 0
    /\ boot \in Boots
    /\ offset \in Offsets
    /\ wire = <<>>
    /\ up = FALSE
    /\ todo = <<>>
    /\ m_nNumber = 0 /\ m_bRunning = FALSE
    /\ m_nCurTime = 0 /\ m_nSyncUpdatedTick = 0 /\ m_bJustLoaded = FALSE
    /\ out = Silent
    /\ announced = TRUE /\ lastRun = "none"
    /\ sync = NoSync

-----------------------------------------------------------------------------
(* The world around the thread                                              *)

Tick ==
    /\ now < MaxTime
    /\ now' = now + 1
    /\ out' = Silent
    /\ UNCHANGED <<boot, offset, wire, up, todo, runVars, syncVars,
                   m_bJustLoaded, ghostVars>>

Send(p) ==
    /\ up
    /\ Len(wire) < MaxWire
    /\ wire' = Append(wire, p)
    /\ out' = Silent
    /\ UNCHANGED <<clockVars, up, todo, runVars, syncVars, m_bJustLoaded,
                   ghostVars>>

\* The chronometer sends its clock, a run (waiting at the start, started when
\* its clock was offset, started now; running or final), or another packet.
DeviceSends ==
    \/ Send(SyncPacket(DeviceClock))
    \/ \E n \in Numbers, s \in {0, offset, DeviceClock}, f \in BOOLEAN :
          Send(RunPacket(n, s, f))
    \/ \E c \in PlainPackets : Send([cmd |-> c])
    \/ \E c \in NumberPackets, n \in Numbers : Send([cmd |-> c, num |-> n])
    \/ \E k \in {"0", "1", "2"} : Send([cmd |-> "S", section |-> k])

\* Connected: a chronometer, maybe another one, with its own clock.  Nothing
\* of the last connection is reset.
Connected ==
    /\ ~up
    /\ up' = TRUE
    /\ offset' \in Offsets
    /\ sync' = NoSync
    /\ todo' = <<"info", "startlist", "teamlist", "horses", "riders", "judges",
                 "ranking">>
    /\ out' = Silent
    /\ UNCHANGED <<now, boot, wire, runVars, m_nCurTime, m_nSyncUpdatedTick,
                   m_bJustLoaded, ghostVars>>

\* The connection is lost: "exit" is sent and what was on the wire is gone.
Disconnected ==
    /\ up
    /\ todo = <<>>
    /\ up' = FALSE
    /\ wire' = <<>>
    /\ out' = [cmd |-> "exit"]
    /\ UNCHANGED <<clockVars, todo, runVars, syncVars, m_bJustLoaded, ghostVars>>

-----------------------------------------------------------------------------
(* Handlers                                                                 *)

\* The database is read with no lock while the UI thread may load another one:
\* a handler may find any discipline, and the database loaded or not.
Finds(ds) == Disciplines \cap ds # {}

\* One Send function, the database being loaded; "judges" are for dressage only.
SendList ==
    /\ todo # <<>>
    /\ Head(todo) # "ranking"
    /\ Head(todo) = "judges" => Finds({3})
    /\ out' = [cmd |-> Head(todo)]
    /\ todo' = Tail(todo)
    /\ UNCHANGED <<clockVars, wire, up, runVars, syncVars, m_bJustLoaded, ghostVars>>

\* SendRankingList: in an eventing competition the combined ranking follows.
SendRanking ==
    /\ todo # <<>>
    /\ Head(todo) = "ranking"
    /\ out' = [cmd |-> "ranking"]
    /\ \/ todo' = Tail(todo)
       \/ todo' = <<"cc-ranking">> \o Tail(todo)
    /\ UNCHANGED <<clockVars, wire, up, runVars, syncVars, m_bJustLoaded, ghostVars>>

\* The early return of the Send functions: not loaded, or not dressage.
SkipList ==
    /\ todo # <<>>
    /\ todo' = Tail(todo)
    /\ out' = Silent
    /\ UNCHANGED <<clockVars, wire, up, runVars, syncVars, m_bJustLoaded,
                   ghostVars>>

\* AddToStream takes the next packet; it is free to, no handler sleeps.
Receives(c) ==
    /\ up
    /\ todo = <<>>
    /\ wire # <<>>
    /\ Head(wire).cmd = c
    /\ wire' = Tail(wire)

Jumping == Finds({0, 3})
Cross == Finds({2})

\* LOADTI: the database is read again and the lists are sent once more.
OnLoadTI ==
    /\ Receives("LOADTI") /\ Jumping
    /\ m_bJustLoaded' = TRUE
    /\ announced' = FALSE
    /\ todo' = <<"info", "startlist", "teamlist", "horses", "riders", "ranking">>
    /\ out' = Silent
    /\ UNCHANGED <<clockVars, up, runVars, syncVars, lastRun>>

\* Mutant of OnSync: the tick count is taken at the first SYNC only.
OnSyncFirstTick ==
    /\ Receives("SYNC") /\ Jumping
    /\ m_nCurTime' = Head(wire).time
    /\ m_nSyncUpdatedTick' = IF m_nSyncUpdatedTick = 0 THEN GetTickCount
                             ELSE m_nSyncUpdatedTick
    /\ out' = Silent
    /\ sync' = [done |-> TRUE, delay |-> now - Head(wire).sent]
    /\ UNCHANGED <<clockVars, up, todo, runVars, m_bJustLoaded, ghostVars>>

OnSync ==
    /\ Receives("SYNC") /\ Jumping
    /\ m_nCurTime' = Head(wire).time
    /\ m_nSyncUpdatedTick' = GetTickCount
    /\ out' = Silent
    /\ sync' = [done |-> TRUE, delay |-> now - Head(wire).sent]
    /\ UNCHANGED <<clockVars, up, todo, runVars, m_bJustLoaded, ghostVars>>

\* Time at which the last SYNC of this connection was handled.
HandledAt == m_nCurTime - offset + sync.delay

\* A 32-bit word read as an int.
AsInt(word) == IF word < Wrap \div 2 THEN word ELSE word - Wrap

\* Mutant of TimeDelta: the difference is not taken modulo the word size.
SignedDelta ==
    IF m_nSyncUpdatedTick # 0 THEN GetTickCount - m_nSyncUpdatedTick ELSE 0

\* Ticks since the last SYNC; 0 stands for "no SYNC yet".
TimeDelta ==
    IF m_nSyncUpdatedTick # 0
      THEN AsInt((GetTickCount - m_nSyncUpdatedTick) % Wrap) ELSE 0

\* Mutant of OnRunFinal: m_bRunning is not reset.
OnRunFinalRunning ==
    /\ Receives("RUN") /\ Jumping
    /\ Head(wire).final
    /\ m_nNumber' = Head(wire).num
    /\ out' = [cmd |-> "final", num |-> Head(wire).num]
    /\ lastRun' = "final"
    /\ UNCHANGED <<clockVars, up, todo, m_bRunning, syncVars, m_bJustLoaded,
                   announced>>

OnRunFinal ==
    /\ Receives("RUN") /\ Jumping
    /\ Head(wire).final
    /\ m_nNumber' = Head(wire).num
    /\ m_bRunning' = FALSE
    /\ out' = [cmd |-> "final", num |-> Head(wire).num]
    /\ lastRun' = "final"
    /\ UNCHANGED <<clockVars, up, todo, syncVars, m_bJustLoaded, announced>>

OnRunStarted ==
    /\ Receives("RUN") /\ Jumping
    /\ ~Head(wire).final
    /\ Head(wire).start # 0
    /\ m_nNumber' = Head(wire).num
    /\ m_bRunning' = TRUE
    /\ out' = [cmd |-> "run", num |-> Head(wire).num,
               time |-> m_nCurTime - Head(wire).start + TimeDelta,
               start |-> Head(wire).start,
               clock |-> DeviceClock, sync |-> sync,
               tick |-> m_nSyncUpdatedTick, age |-> now - HandledAt]
    /\ lastRun' = "started"
    /\ UNCHANGED <<clockVars, up, todo, syncVars, m_bJustLoaded, announced>>

\* Mutant of OnRunWaiting: m_bJustLoaded is not reset.
OnRunWaitingAgain ==
    /\ Receives("RUN") /\ Jumping
    /\ ~Head(wire).final
    /\ Head(wire).start = 0
    /\ m_nNumber' = Head(wire).num
    /\ m_bRunning' = FALSE
    /\ lastRun' = "waiting"
    /\ out' = IF m_bJustLoaded THEN [cmd |-> "ready", num |-> Head(wire).num, again |-> announced]
              ELSE Silent
    /\ announced' = (announced \/ m_bJustLoaded)
    /\ UNCHANGED <<clockVars, up, todo, syncVars, m_bJustLoaded>>

OnRunWaiting ==
    /\ Receives("RUN") /\ Jumping
    /\ ~Head(wire).final
    /\ Head(wire).start = 0
    /\ m_nNumber' = Head(wire).num
    /\ m_bRunning' = FALSE
    /\ lastRun' = "waiting"
    /\ m_bJustLoaded' = FALSE
    /\ out' = IF m_bJustLoaded THEN [cmd |-> "ready", num |-> Head(wire).num, again |-> announced]
              ELSE Silent
    /\ announced' = (announced \/ m_bJustLoaded)
    /\ UNCHANGED <<clockVars, up, todo, syncVars>>

OnAtStart ==
    /\ Receives("ATSTART") /\ Jumping
    /\ out' = IF m_bRunning THEN [cmd |-> "atstart", during |-> lastRun] ELSE Silent
    /\ UNCHANGED <<clockVars, up, todo, runVars, syncVars, m_bJustLoaded, ghostVars>>

OnDNF ==
    /\ Receives("DNF") /\ Jumping
    /\ out' = [cmd |-> "dnf", num |-> Head(wire).num, pos |-> Head(wire).num]
    /\ UNCHANGED <<clockVars, up, todo, runVars, syncVars, m_bJustLoaded, ghostVars>>

\* TI1: the number is the one of the last RUN, the position is looked up with
\* the number of the packet.
OnTI1 ==
    /\ Receives("TI1") /\ Jumping
    /\ out' = [cmd |-> "timer1", num |-> m_nNumber, pos |-> Head(wire).num]
    /\ UNCHANGED <<clockVars, up, todo, runVars, syncVars, m_bJustLoaded, ghostVars>>

\* TI0: in cross a message of its own, and in every discipline the ranking.
OnTI0 ==
    /\ Receives("TI0")
    /\ \/ Jumping /\ out' = Silent
       \/ Cross /\ out' = [cmd |-> "CrossTI0"]
    /\ todo' = <<"ranking">>
    /\ UNCHANGED <<clockVars, up, runVars, syncVars, m_bJustLoaded, ghostVars>>

\* The message each cross packet is answered with; RUNC and NR have none, and
\* S only for sections 0 (start list) and 1 (running list).
CrossReply(p) ==
    CASE p.cmd = "START_I" -> {"CrossSTART_I"}
      [] p.cmd = "END_I"   -> {"CrossEND_I"}
      [] p.cmd = "SYNC"    -> {"CrossSYNC"}
      [] p.cmd = "R"       -> {"CrossR"}
      [] p.cmd = "F"       -> {"CrossF"}
      [] p.cmd = "S"       -> IF p.section \in {"0", "1"} THEN {"CrossS"} ELSE {}
      [] OTHER             -> {}

ProcessCross ==
    /\ \E c \in {"START_I", "END_I", "SYNC", "R", "F", "S"} : Receives(c)
    /\ Cross
    /\ \/ \E r \in CrossReply(Head(wire)) : out' = [cmd |-> r]
       \/ CrossReply(Head(wire)) = {} /\ out' = Silent
    /\ UNCHANGED <<clockVars, up, todo, runVars, syncVars, m_bJustLoaded, ghostVars>>

JumpingCommands == {"LOADTI", "RUN", "SYNC", "TI0", "TI1", "ATSTART", "DNF"}
CrossCommands == {"START_I", "END_I", "SYNC", "R", "F", "S", "TI0"}

\* No handler for the command, or no branch for the discipline.
Ignore ==
    /\ wire # <<>>
    /\ Receives(Head(wire).cmd)
    /\ \E d \in Disciplines :
          /\ d \in {0, 3} => Head(wire).cmd \notin JumpingCommands
          /\ d = 2 => Head(wire).cmd \notin CrossCommands
    /\ out' = Silent
    /\ UNCHANGED <<clockVars, up, todo, runVars, syncVars, m_bJustLoaded, ghostVars>>

Process ==
    \/ OnLoadTI \/ OnSync \/ OnRunFinal \/ OnRunStarted \/ OnRunWaiting
    \/ OnAtStart \/ OnDNF \/ OnTI1 \/ OnTI0

Next ==
    \/ Tick \/ DeviceSends
    \/ Connected \/ Disconnected
    \/ SendList \/ SendRanking \/ SkipList \/ Process \/ ProcessCross \/ Ignore

Spec == Init /\ [][Next]_vars

-----------------------------------------------------------------------------
(* Properties                                                               *)

Packet ==
    [cmd : {"SYNC"}, time : Nat, sent : Nat]
        \cup [cmd : {"RUN"}, num : Numbers, start : Nat, final : BOOLEAN]
        \cup [cmd : PlainPackets] \cup [cmd : NumberPackets, num : Numbers]
        \cup [cmd : {"S"}, section : {"0", "1", "2"}]

\* Every variable has its type, a tick count is below the wrap, and messages
\* are left to send only on a live connection.
TypeOK ==
    /\ now \in 0..MaxTime
    /\ boot \in Boots /\ offset \in Offsets
    /\ wire \in Seq(Packet) /\ Len(wire) <= MaxWire
    /\ todo \in Seq(Lists)
    /\ up \in BOOLEAN
    /\ todo # <<>> \/ wire # <<>> => up
    /\ m_nNumber \in Numbers \cup {0}
    /\ m_bRunning \in BOOLEAN /\ m_bJustLoaded \in BOOLEAN
    /\ m_nCurTime \in Nat
    /\ m_nSyncUpdatedTick \in 0..(Wrap - 1)
    /\ announced \in BOOLEAN
    /\ lastRun \in {"none", "waiting", "started", "final"}
    /\ sync \in [done : BOOLEAN, delay : Nat]

\* True time of the run a "run" message is about, when it was sent.
Elapsed(r) == r.clock - r.start

\* The running time shown to the public is never ahead of the chronometer:
\* packets that waited during the sleeps of Connected and LOADTI, a wrap of
\* GetTickCount and the value 0 standing for "no SYNC" only make it late.
\* It is claimed from the first SYNC of a connection on; before it OnRun uses
\* the clock of the last connection.
RunTimeNeverAhead ==
    out.cmd = "run" /\ out.sync.done => out.time <= Elapsed(out)

\* It is late by exactly the time the last SYNC waited before it was handled,
\* across a wrap of GetTickCount, unless that SYNC was handled at tick 0 or half
\* a wrap (25 days) ago, when nTimeDelta, an int, turns negative.
RunTimeLateBySyncDelay ==
    out.cmd = "run" /\ out.sync.done /\ out.tick # 0 /\ out.age < Wrap \div 2 =>
        out.time = Elapsed(out) - out.sync.delay

\* "ready" announces a competitor at most once per LOADTI, over every order of
\* RUN packets, changes of discipline and reconnects.
ReadyOncePerLoad == out.cmd = "ready" => ~out.again

\* "atstart" is passed on only while the last RUN handled says the clock runs,
\* also when the discipline changed to cross and back in between.
AtStartOnlyDuringRun == out.cmd = "atstart" => out.during = "started"

\* A TI1 packet is about the competitor it names ("TI1; 15; 1; final_time"):
\* number and position of the message are that competitor's.
Timer1AboutItsCompetitor == out.cmd = "timer1" => out.num = out.pos
=============================================================================
