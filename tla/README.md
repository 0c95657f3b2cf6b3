# Live-Equestre-Pro: a TLA+ verification project

Live-Equestre-Pro runs beside an equestrian competition. It receives the
packets of a chronometer over TCP, completes them with the SQLite files of the
competition software, and pushes JSON messages over socket.io to a web server
from which the public sees running times, start lists and rankings.

The modules here model the program's concurrent core. Sources are named
relative to `src/`: `app/` stands for `Live-Equestre-Pro/`, `sio/` for
`SocketIO-poco/`. `PROJECT.json` maps each definition to its lines.

## The system

    chronometer --TCP--> client thread --AddToSendQueue--> web thread --socket.io--> web server
                              |                                |
                              +------- EquestreDb <------------+  (no lock)
                                           ^
                 UI thread: load, START/STOP, address, upload, shutdown

| component | state | operations | talks to |
|---|---|---|---|
| `ClientSocketRunnable` (client thread) | run flag, connected flag, server address, its copy, socket | `run`, `SetServerAddress` | calls `MsgProcessor`; the UI writes the address |
| `MsgProcessor` | byte buffer, last number and lane, running flag, clock and tick of the last SYNC, just-loaded flag | `AddToStream`, `Connected`, `Disconnected`, one handler per packet, `Send...` | reads `EquestreDb`, calls `AddToSendQueue` |
| `EquestreDb` | competition, riders, horses, teams, rankings, discipline, folder | `Load`, `Reload`, `UpdateRanking`, `GetUploadedPdfInfo` | called by the UI, client and web threads |
| `WebSocketRunnable` (web thread) | run, connected and send flags, queue under a mutex, `SIOClient` | `run`, `FlushSendBuffer`, `AddToSendQueue`, `ClearSendQueue` | uses `SIOClient`; polls `SendPdf` |
| `SIOClient`, `SIOClientImpl`, `SIOClientRegistry` | two maps, objects, WebSocket, monitor thread, heartbeat timer | `connect`, `disconnect`, `emit`, `receive` | the web thread and two threads per object |
| `EquestreLogic` | the two threads | start, stop and join | used by the dialog |
| main dialog (UI thread) | settings, timers 1 to 3 | START/STOP, address, folder, discipline, upload, export | everything above |
| `res/ranking.html` | scores | rows of the ranking, sorting | called by the export |
| panels, controls, helpers, logging | display only | | |

What is hard here, and what makes each component correct:

- **Outgoing feed.** `m_bConnected` is read before the mutex is taken; the
  queue is cleared by the web thread before and after each session; a popped
  message is lost if `emit` throws; START/STOP drops messages at the push. Correct
  means: nothing reordered or repeated, nothing old in a new session, a queue
  that stays short while the feed is down, messages that do move on while it is
  up, and a shutdown that ends.
- **Chronometer connection.** TCP cuts the stream anywhere; the buffer survives
  a reconnect; some calls are outside every `try`; the address is shared without a
  lock. Correct means: every packet handled once, in order; a dead connection
  given up; the thread joinable; the user's address followed.
- **Chronometer protocol.** Handlers combine what several earlier packets left
  behind, handlers that sleep let packets wait, `GetTickCount` wraps. Correct
  means: running times that are right or late by a known amount, and announcements
  at the right moment, about the right competitor.
- **socket.io client.** Objects own threads and are found through a registry.
  Correct means: no thread outlives its object, events find their client,
  `connect` returns what is really connected, and `disconnect` returns.
- **Database.** No lock; three threads. Correct means: what is sent together is
  of one competition, the user's choice of folder stands, a failed load is not
  taken for a success, and the newest published file is sent.
- **Ranking and export.** The maps of ranks are cleared and filled by two threads;
  the export copies cells by fixed columns from rows whose width depends on what
  was loaded. Correct means: the sheet says what the tables say, and no cell is read
  that is not there.
- **Both halves together.** Nobody tells the client thread that a session of the web
  thread began. Correct means: what a session shows of a series of lists has no
  hole, and a series begun in a session arrives.

`PROJECT.json` lists every hazard at its line with the properties that cover it.

## The modules

### FeedChannel, WebFeed, WebFeed_proofs

`FeedChannel` is the abstract promise of the feed: a channel with sessions, that
delivers what it accepted in order and at most once, may lose messages, and
forgets what is pending whenever a session begins.

`WebFeed` is `app/WebSocketRunnable.cpp` with its callers. `pc` has one value per call
`run` makes: `connect` (79), `dial` (inside `SIOClient::connect`, which may succeed
after the run flag was cleared), `clear` (89), `open` (92), `subscribe` (96), `pdf` (103),
`stuck` (a published file that cannot be opened: the read loop of
`app/EquestreDb.cpp:82` waits for an `eof()` that never comes), `flush` (138), `emit`
(144), `beat` (110), `close` (120, 124), `down` (128), `reset` (129), `done`. `queue` is
`m_sendMessage`, `held` the message between `GetFromSendQueue` and `emit`. A producer's
`AddToSendQueue` is `CheckConnected` and then `Push`, since other threads may run
between line 161 and the lock of line 164; the web thread's own call from `SendPdf` is
one step, as nobody else changes `m_bConnected`. `app` follows the UI thread through
`~EquestreLogic`. `call`, `calls`, `session` and `sent` are ghosts: they record which
call of which thread a message came from, in which session it was checked, pushed and
emitted.

A message's text is left out. `EventOf` is the choice of event by the discipline at
the moment of the emit. `ChangeDiscipline` stands for any load by any thread. The
send flag and the run flag are single words that one thread writes and others read
without a lock; the model takes such a read as one step that returns the value of
now.

### Bridge, Bridge_proofs

The composition of `WebFeed` with the client thread that announces a competition:
`Connected` (`app/MsgProcessor.cpp:1105`) and `OnLoadTI` hand over a series of lists, one
`AddToSendQueue` each. `todo` counts the lists of the series still to come, `offers`
(ghost) what became of each: not built because the database is not loaded
(`LeaveOutList`), turned away because there is no session (`SkipList`), kept, or dropped
by STOP. `RankingThrows` is the exception of `UpdateRanking` that ends the client thread
at the last list. Every step is a step of `WebFeed` or leaves its variables alone, so
the theorems of `WebFeed` carry over. The discipline is one that has an event
(`BridgeAssumption`); the others, which emit nothing, are in `WebFeed`.

### ChronoProcessor, ChronoProcessor_proofs

The handlers of `app/MsgProcessor.cpp`, with `now` (time), `boot` (the tick count at
the start), `offset` (the chronometer's clock minus `now`; another one may answer
after a reconnect), `wire` (packets waiting), and `todo`, the messages a sleeping
handler (`Connected`, `OnLoadTI`) has still to send. `out` is the message the last
step handed to `SendToWebSocket`; what becomes of it is `WebFeed`. Names of
variables are those of the members. The database may be reloaded by the UI thread
at any moment, so each handler may find any discipline and the database loaded or
not: `Finds`, `SkipList`, `Ignore`. Lists are their command names. Fields no
property reads (points, lanes, penalties) are left out. The difference of two tick
counts is unsigned and kept in an int (`AsInt`): half a wrap after a SYNC it turns
negative.

### ChronoLink, PacketStream, ChronoLink_proofs

`app/ClientSocketRunnable.cpp` and the framing of `AddToStream`. A packet is a body
byte and the terminator; bytes carry the connection and packet they belong to, as
ghosts, so that "handled as sent" can be said. `cut` (ghost) counts the packets of
the connection that were split off, and a handled packet records that number as
`nth`. `pc` is where `run` is: `connect` (the address is read), `dial` (inside the
connect of line 31), `up` (`m_bConnected` is set), `copy` (the address is read again),
`announce` (41), `loop`, `split` (inside `AddToStream`), `close`, `ended`, and
`dead` when an exception left `run`: `poll` and everything called from
`Connected` and `AddToStream` are outside the `try` blocks. Between any two of them the
user may enter another address or stop the thread. Decryption shifts the
bytes of a packet after it was cut and is left out.

`PacketStream` is what the connection promises the handlers, without bytes, buffer and
thread: one connection after another, the packets of each delivered in order; what a
connection did not deliver is lost with it, and a piece left over spoils the first packet
of a later one at most. `ImplementsStream` maps to it: a connection is `Up` from
the connect to the close, `cut` packets are delivered, something is `Left` while old bytes
stand in front of the connection's own (or, between connections, while the buffer is not
empty), and `Packets` is `handled` with the bytes reduced to "whole or not".

### EquestreDb, EquestreDb_proofs

`app/EquestreDb.cpp` as three threads use it. `load[t]` is where thread t is in
`Load`, one step per group of shared members: `online` (149-155), `open` (158),
`main` (200), `eventing` (202: until then `m_eventing` holds the raw DISCIPLINE of the
event), `manual` (214-227), `lists` (264-380), `commit` (390-391), `marker` and
`store` (393). `Fail` is every way to the two `return false`, `Escape` the
`std::invalid_argument` of `stoi` in `LoadJudges`, which only Poco exceptions are caught
for: the client thread ends. On the UI thread it ends the program, so there is
no such step. `poll` is where the web thread is in its session: `GetUploadedPdfInfo` is
called in the loop of a session only (`app/WebSocketRunnable.cpp:102-103`), so
`SessionBegins` goes to the first poll, `flush` is the rest of a turn of the loop, and
`SessionEnds` leaves it when something cannot be sent; `offline` is everything else. A
competition file is represented by its competition (event, show, discipline, eventing or
not), a list by the file, event and discipline it was selected with; when another load is
running, the list may also be `Torn`, as two threads then write one container. The members
of one group are taken to be written together, and reading a string another thread writes
gives the old or the new one; what else such a race may do, a crash included, ends the
behaviour. Published files are numbered by folder and show, as `m_showNo` selects the rows
that are counted and sent. `chosen`, `raced`, `alone`, `seen` and `due` are ghosts.

Of two files published between two polls, or while there is no session, the code sends
only the newest (`app/EquestreDb.cpp:60`). `due` is therefore the newest file if it has to
be sent: a file that follows it takes its place, and the earlier one is lost. No text of
the repository speaks of it, so it is not a finding. `NewestFileIsSent` is about the
newest; `DueIsUnmarked` is the part of it that is safety, and proved.

The two stores of the publish marker limit what can be claimed further. A poll that read
the counter of one folder or show may store it as the marker after another was loaded. If
the next file there has that number, it is never sent. `NewestFileIsSent` is therefore
about files published while the marker belongs to what is loaded.

### RankingExport, RankingExport_proofs

`UpdateRanking` (`app/EquestreDb.cpp:582`), `generateRanking` (`app/res/ranking.html`)
and `OnBnClickedBtnExport` (`app/Live-Equestre-ProDlg.cpp:550`). A slot is a round or a
jump-off, rounds first. `task[t]` is where thread t is in `UpdateRanking`: `clear`,
`params` (the parameters are read, the total of the judges among them in dressage), `fill`
(one step per table), and `read`, where its caller goes through the maps: the client
thread in `SendRankingList`, the UI thread in `GetRankingList` and the rest of the export.
The client thread comes there by TI0 and with every series of lists, the UI thread by the
export, and nothing keeps them apart. `Displayed`, `RiderCount`,
`HasRow`, `Width` and `PageRow` are the rows of the page, with the code's columns; `Copied`
and `Pasted` what the dialog takes from them. Of points and times only the slot they
belong to is kept, of a result its status. `quiet` (ghost) holds while nothing has crossed
the last export and every table could be read.

What is assumed: a competitor has a result in a slot only after one in every slot
before, as the competition program enters them (`EnterResult`). Two threads in one
`std::map` at once is undefined behaviour: the model lets it end the program at any
moment from the clear until both callers have gone through the maps (`MapsRace`; two that
only read are no race), and lets it lose or keep entries as the steps interleave. Events
of three rounds and more have no columns for their rounds in the sheet, which is what
the code does; `Written` leaves them out of the claim.

The file is opened to write without being truncated (line 751). When a correction makes
its text shorter, the rest of the longer text stays behind it, and the next export reads
it as one more line, which may lack the columns that lines 694 to 740 index. `ragged` says
that the file may have such a line; it may also come so from the organiser. Whether a text
gets shorter depends on the wording of points and times, which is left out, so any paste
over a cell that had one may set it (`Shortens`). `SheetAsTables` is about the lines of
the competitors, not about such a rest; `CrashHasCause` names it as a cause.
`WriteFails` is the file that cannot be opened to write: a message, and no result is
written.

`OnChangeDbDirectoryEdit` (line 450) calls `UpdateRanking` on the UI thread as the export
does, and is not a second action.

### SioClient, SioClient_proofs

`sio/SIOClient.cpp`, `SIOClientImpl.cpp` and `SIOClientRegistry.cpp` as the web
thread drives them. Objects are records (alive or deleted, WebSocket made,
`_connected`, timer and monitor running, references). `NewImpl` gives `_connected`
an arbitrary value because no constructor sets it. Using a NULL or deleted object
is `pc = "crash"`, with `crash` saying what was used and when. The URI is read
once, so each map has one key of interest for each of the two ways the keys are
built, with and without the path. The default URI (`http://127.0.0.1:21741`) has no
path; `eqconfig.ini` may give one that has.

`receive` appends whatever stands before the bracket of an event to the key it looks up
(`SIOClientImpl.cpp:549-558`): the namespace of a URI with a path, which is in the key
already, or an ack id, with or without a path. Such an event finds no client at any time,
and line 582 uses the NULL (`ReceivePrefixed`). A plain event finds none between the start
of the monitor thread and `addClient`, all inside `connect`. No text of the repository
speaks of either, so neither is a finding; `EventsFindTheirClient` says that for plain
events this window is the only one.

## The runs

| run | asks | bounds | states |
|---|---|---|---|
| `feed` | order, freshness, late calls, queue length while down, refinement of `FeedChannel` | client and web thread, 2 calls each, 2 sessions, 3 disciplines | 1.51 M |
| `bridge` | no hole in a series of lists, a series arrives, the shutdown completes | a series of 3 lists, 3 calls of the client and 1 of the web or the UI thread from the second on, 2 sessions, 1 discipline | 620 k |
| `auto_start` | does "Auto Start" start? No | 1 session | |
| `chrono` | running time, `ready`, `atstart` | 2 numbers, disciplines 0, 2, 3, 4, clocks 1 and 3 ahead, time 0..3, tick count modulo 6 from 0 or 5, 1 packet in flight | 2.16 M |
| `timer1` | is TI1 about its competitor? No | as `chrono` | |
| `link` | framing, giving up, joining, refinement of `PacketStream` | 3 connections, 3 packets each, 1 edit | 114 k |
| `server_address` | is the new address followed? No | 2 addresses, 1 connection, 1 edit | |
| `db` | the choice of folder, coherence of what is loaded, is the newest published file sent | 2 folders, 2 competitions in 2 shows (jumping, eventing in dressage), manual discipline off or cross, 2 loads, 1 change of the competition, 2 files, any number of sessions | 925 k |
| `ranking` | does the sheet say what the tables say, and what can crash an export | 5 formats (2 rounds and a jump-off, cross, dressage, two phases of either kind, with optimum time), 2 competitors, statuses OK and DNS, 2 exports, 1 ranking of the client thread, 3 results, 2 in the events of two phases | 2.28 M |
| `sio` | threads, events, `disconnect`, the registry without a path | 3 objects, with and without path | 0.9 k |
| `sio_no_websocket` | does a returned client have a WebSocket? No | 1 object | |
| `sio_registry` | is a registered socket a live one? No | 1 object | |

Why the bounds are enough. Two sessions are what a message needs to be late for the first
and pushed into the second; two calls of one thread make an order and a "second late
call". Both producers run the same code: `feed` has one, `bridge` both, the theorems any
number. Three lists are the fewest that can have a hole between two others; a series of
them spans the two sessions in every way; another thread's call comes between the second
and third list or later (`OthersFrom`), and `SeriesHasNoHole` covers any number and any
moment. A tick count of six values that starts at 0 or 5 has a SYNC at tick 0, one just
before the wrap, a RUN after it, and a difference of half a wrap within three units of
time; `ChronoAssumption` keeps time below one wrap (49.7 days), as a SYNC arrives every
second. Three connections with three packets give every cut of a packet, several packets
in one read, a part left over at a reconnect, and one that outlives a whole connection or
is left twice. Three connection objects give two reconnects. Two loads overlap, or one
succeeds and the other fails or is cut short after it; `LoadedIsCoherent` and
`ChoiceIsKept` cover any number. The dressage event is the one whose judges may break a
load, and as an eventing one the one in which the manual discipline counts, and is of
another show. Two files are one in each of two folders or shows, whose counters are then
equal, the case in which a marker of one is taken for the other's; or two of the same,
between two polls or around one. Two competitors make an order of rows and lists of
different length, three results a correction after both have one, two exports one over the
sheet of another; the statuses are the points and the mark `ns`, and `SheetShowsTables`
covers the mark `hc` with all others.

`CHECK_DEADLOCK FALSE` stands in every run whose system may stop: the program ends
(`feed`, `bridge`, `ranking`), a thread may end by an exception or its bound of
connections (`link`, `sio`), the user and the competition software may do nothing more
(`db`), and the violation runs. `chrono` never stops: at the bound of time a
chronometer still reconnects.

### Fairness

- `bridge`: `WF(WebStep)`, the web thread goes on wherever it is not inside
  `SIOClient::connect`; `WF(ConnectReturns)`: the connect ends one way or another, as the
  request of the handshake has a time-out and `openSocket` gives up after its attempts,
  but nothing says it succeeds; `WF` of the client
  thread's lists and pushes, which wait for a sleep and for a mutex held for a few
  instructions; `WF` of the two steps of the destructor that follow a join. None on
  the user, the server, the start of a series, or the discipline. That an emit returns
  is part of `WF(WebStep)`: a socket with a
  timeout either accepts the bytes or throws. `PdfReadHangs` is not in `WebStep`, and
  the two properties allow `stuck`, where the thread never comes back: they say that
  this is the only place it does not come back from.
- `db`: `WF(Turn)`: in a session the web thread goes on with the turns of its loop, each
  of which polls. Nothing says that a session begins or lasts, so the property has it as
  its condition: `[]<>InSession`, sessions recur. None on loads. A read that fails or
  hangs gives the file up (`due` becomes 0).
- `link`: `WF(ThreadStep)` and `WF(Receive)`: the thread goes on, and bytes that have
  arrived are read; `WF(Connect \/ ConnectFails)`: a TCP connect returns or throws. Nothing
  is assumed about which, about other exceptions, or the user.
- `sio`: `WF` of the destructor's steps, and of `ReceiveThrows`: a server that was
  told goodbye closes, or stays silent until the session's 3 second timeout.
- `feed`, `chrono`, `ranking`: safety only, no fairness.

### What the violation runs show

- `auto_start`: START clicked within the first second is undone by timer 2, which
  calls the same toggling handler. Trace: threads start, click, timer: the send
  flag is off and the timer is gone.
- `timer1`: `RUN` of competitor 1, `TI1` of competitor 2: the message has number 1
  and the position of 2.
- `server_address`: `a1` is dialled, edit to `a2` during the connect or before line 40: the copy is `a2`,
  equal to the entered address, and the socket stays with `a1` as long as it lives.
- `sio_no_websocket`: the constructor leaves `_connected` arbitrary, `openSocket`
  fails and returns it, and `connect` returns a client without WebSocket.
- `sio_registry`: with a path in the URI, the deleted object stays under host:port.

### Mutants

Each property of a passing run has a mutant, an operator beside the definition it
replaces, commented `Mutant of`: a dropped clear, a push at the wrong end, a reset
that is missing, a join that does not wait. With the mutant in place TLC finds the
property violated.

## What is proved

For every value of the constants the named assumption allows. Each component's
proofs stand in a module of their own; the inductive invariants are defined, in named
parts, at the end of the component's module.

| module | theorem | states | assumes |
|---|---|---|---|
| `WebFeed_proofs` | `FeedTypeCorrect` | `TypeOK` | `FeedAssumption`: the client is a producer, the web thread is not, producers are finitely many |
| | `FeedInvariant` | `FeedInv` | |
| | `SentInOrder` | `SentInCallOrder` | |
| | `NothingStaleIsSent` | `NoStaleBacklog` | |
| | `OnlyFirstCallIsLate` | `OneLateCallPerThread` | |
| | `QueueIsBoundedWhileDown` | `BoundedWhileDown` | |
| | `FeedRefinesChannel` | `ImplementsChannel` | |
| `Bridge_proofs` | `BridgeRefinesFeed` | `BridgeSpec => Spec` of `WebFeed` | `BridgeAssumption`: every discipline has an event |
| | `BridgeImplementsChannel` | `ImplementsChannel` of the composition | |
| | `BridgeInvariant`, `BridgeTypeCorrect` | `BridgeInv`, `BridgeTypeOK` | |
| | `SeriesHasNoHole` | `NoHoleInSeries` | |
| `ChronoProcessor_proofs` | `ChronoInvariant`, `ChronoTypeCorrect` | `ChronoInv`, `TypeOK` | `ChronoAssumption`: start numbers are not 0, an offset and a boot tick exist, time stays below one wrap |
| | `RunTimeIsNeverAhead` | `RunTimeNeverAhead` | |
| | `RunTimeIsLateBySyncDelay` | `RunTimeLateBySyncDelay` | |
| | `ReadyIsSentOnce` | `ReadyOncePerLoad` | |
| | `AtStartDuringRun` | `AtStartOnlyDuringRun` | |
| `ChronoLink_proofs` | `LinkInvariant`, `LinkTypeCorrect` | `LinkInv`, `TypeOK` | `LinkAssumption`: an address exists, `NoAddress` is none |
| | `PacketsArriveAsSent` | `PacketsAsSent` | |
| | `NoPacketIsLeft` | `NoPacketWaits` | |
| | `LinkImplementsStream` | `ImplementsStream` | |
| `EquestreDb_proofs` | `DbInvariant`, `DbTypeCorrect` | `DbInv`, `TypeOK` | `DbAssumption`: some folder, some competition |
| | `ChoiceIsKept` | `ChoiceStands` | |
| | `LoadedIsCoherent` | `CoherentWhenAlone` | |
| | `DueIsNoticed` | `DueIsUnmarked` | |
| `SioClient_proofs` | `SioInvariant`, `SioTypeCorrect` | `SioInv`, `TypeOK` | `SioAssumption`: the bound on objects is a natural number |
| | `ThreadsEndFirst` | `NoThreadOutlivesImpl` | |
| | `OneReceiver` | `OneReceiverAtATime` | |
| | `EventsAreDelivered` | `EventsFindTheirClient` | |
| | `RegistryIsExact` | `RegistryExactWithoutPath` | |
| `RankingExport_proofs` | `ExportInvariant`, `ExportTypeCorrect` | `ExportInv`, `TypeOK` | `ExportAssumption`: 1 to 4 rounds, 0 to 4 jump-offs |
| | `CrashesHaveCause` | `CrashHasCause` | |
| | `SheetInvariant`, `SheetShowsTables` | `SheetInv`, `SheetAsTables` | |

The arguments:

- **Feed, order.** `SentInCallOrder` is not inductive: whether an emit keeps the order
  depends on what is in hand and in the queue. `OrderedThroughout` says that emitted,
  held and queued messages form one ordered sequence. A push keeps it because the
  message in progress is the newest of its thread (`CallIsLast`), and all that was
  pushed comes from finished calls (`PushedFinished`).
- **Feed, freshness.** `FreshInSession`: from the opening `ClearSendQueue` to the
  close, the queue holds messages of this session only, because a late push is
  stamped with the session it is pushed in. `LateIsFirst` adds that a message of a
  thread behind another one, and the call in progress once a message of its thread
  is there, saw this session: the late call is the first.
- **Feed, length.** `OnePushEach`: while nobody can start a call, queued messages and
  calls in progress together are at most one per producer. A push moves one from the
  second to the first, a clear starts again.
- **Feed, refinement.** `pending` is the held message followed by the queue, so that
  `Pop` is a stutter; `ConnectedInSession` gives the guard `open` of the abstract
  steps, and `TypeOK` that something is held at an emit.
- **Bridge.** Each step is a step of the feed or a stutter, so `FeedInv` may be used. A
  list missing between two that a session shows was skipped, pushed, or left out. If it
  was skipped, the session the lists before it saw was over (`SkippedWhileDown`, which
  needs `OpenUnseen`: no call has seen a session still to be opened), so the list after
  it saw a later one (`SkippedParts`). If it was pushed, it is sent, in hand or queued
  as long as the session lasts (`KeptIsThere`), and as the queue is in order it is sent
  when the one after it is (`KeptBetween`).
- **Protocol.** `SyncInv` ties the clock and the tick of the last SYNC to the moment it
  was sent and handled, `WireInv` the packets on the way to the run they are about; a
  lemma on the difference of two tick counts, for any width, does the wrap; as an int it is
  that difference, or less by a whole wrap. `FlagsInv`
  ties the ready and running flags to what was sent since.
- **Framing.** `LinkInv`: buffer and wire together are bytes of earlier connections with
  no terminator, the rest of a packet that was cut, and whole packets. The first
  terminator is therefore where the next packet ends.
- **Framing, refinement.** The old bytes are those in front of what this connection sent
  and has not handled (`Old`). A receive or a send leaves them alone; the first packet
  cut takes them all, so `left` falls with the first delivery. `WireNew` says that none of
  them is on the wire: losing the wire at a close therefore loses this connection's bytes
  only, and the buffer that stays is empty, the old bytes, or these and the beginning of a
  packet that was not delivered, which is the choice `PacketStream` gives `Close`.
- **Database.** `TypeOK` needs `FolderIsReal`: past the test for `Online.scdb` a load has
  a real folder and a real main file, so only these are ever committed. `ChoiceStands`
  needs `ReloadOfChoice`: as long as no Reload ran across the user's load, the one that
  may be in progress was begun with the chosen folder, so its commit changes nothing.
  `CoherentWhenAlone` needs what a load alone has read at each of its steps.
  `DueIsUnmarked` is inductive as it stands, but for the type of `due`: a load that is
  running has nothing due, the file due is the newest of what is loaded, a poll that
  stores a marker goes on to read it, and a poll that stores none found a marker below.
- **Client library.** `SioInv` gives, for each place the web thread may be in, the stage
  of the current object and of those left behind: which threads they have, what refers
  to them. Only the current object receives. `RegistryStage` adds where the socket map
  has its entry: from `addSocket`, which is given a live object, to the step of the
  destructor that deletes it, and nowhere on the ways out of a connect that failed.
- **Export.** `QuietAlone`: while nothing crosses an export one thread at most is in the
  maps, its caller's reading of them included; `QuietTotal`: that thread has read the
  total it divides by. The columns copied are below `5 + 2 * SlotCount`
  (`CopiedColumns`), the width of a row that displays every slot.
- **Export, the sheet.** `SheetInv`: results are nested (`ResultsNested`), so the list of
  the first slot is the longest and a competitor with any result has a row; what has
  begun was there at the Reload (`LoadedAll`); and while nothing crosses the export the
  maps hold the tables read so far and are empty for the others (`MapsAsTables`). When
  all are read, the maps are the tables. What is left is about operators: in which
  columns a row has the points and time of a slot (`SlotColumns`), which of them the
  dialog copies to which cells (`PastedCell`, `SlotPasted`), and that the marks of the
  status go where the status says (`MarksPasted`).

Every safety and action property and every refinement that a passing run checks is a
theorem. Only model-checked is everything under fairness (`SeriesArrives`,
`ShutdownCompletes`, `LeavesClosedPeer`, `StopJoins`, `NewestFileIsSent`,
`DisconnectReturns`), which is out of the prover's reach. `ShutdownCompletes` is checked
in `bridge`, where the client thread is the real caller. That the queue drains is not
stated: with a bounded number of calls it always does, and without one it need not, as
`FlushSendBuffer` goes on as long as producers push.

## Not modelled

Of the repository's lines of C and C++ more than nine tenths are vendored headers of
the POCO library (`includes/`); the program itself has about 9,600. What the code uses
of the library (sockets that throw, joins, a mutex) is part of the actions that call it.

- socket.io frames and their dispatch (`sio/SIOPacket.cpp`, `SIOEventRegistry.cpp`,
  `SIONotificationHandler.cpp`): formatting, and callbacks the program does not register
  (`app/WebSocketRunnable.cpp:98` and 99 are comments).
- The text of lists, xlsx and pdf files, of points and times: `SendXlsData`, the
  upload of `SendPdf(eventId, ...)`, `LoadCoursePoints` (its answer is a choice in
  `ChronoProcessor`), `UpdateCCRanking` (read and sent by one thread).
- `UpdateTeamRanking`, which nothing calls, and the sorting of `res/ranking.html`, which
  the export does not reach.
- Two threads inside one third-party WebSocket at once, and what a data race in a
  container does beyond losing entries or ending the program.
- Dialog widgets, panels, logging, string helpers.

## Plan

Done, in this order: `FeedChannel`, `WebFeed`, its theorems, `ChronoProcessor`,
`ChronoLink`, `SioClient`, `EquestreDb`, `Bridge`, `RankingExport`, theorems for each of
them, and `PacketStream`. What is left, most important first:

1. `Bridge` with the loads of `EquestreDb` in place of the choice `LeaveOutList`: a
   series of lists against the generation of the data.
2. The sorting of `res/ranking.html` and the pair lists of `OnCrossR` and `OnCrossF`, as
   operators checked against reference orders.
