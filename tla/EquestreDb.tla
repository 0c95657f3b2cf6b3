----------------------------- MODULE EquestreDb -----------------------------
(***************************************************************************)
(* EquestreDb: the competition database in memory.  The UI thread loads a  *)
(* folder or reloads with another manual discipline, the client thread     *)
(* reloads when the chronometer says so, and the web thread, as long as it *)
(* is in a session, polls for newly published files.  No lock protects any *)
(* member.                                                                 *)
(*                                                                         *)
(* A load is the steps of Load that read or write shared members.  The     *)
(* tables of a file are known by the file, the event and the discipline    *)
(* they were selected with; published files are numbered from 1 on in each *)
(* show of a folder, and the number of the newest is the update counter of *)
(* the table.                                                              *)
(***************************************************************************)
EXTENDS Naturals, FiniteSets

CONSTANTS
    Folders,       \* folders the user may choose
    NoFolder,      \* m_szDbFolder before the first load
    Competitions,  \* what Online.scdb and the file it names may say
    Manuals,       \* selections of the discipline box: 0 is "Auto"
    MaxLoads,      \* bound on loads begun
    MaxSwitches,   \* bound on changes of the competition in Online.scdb
    MaxFiles       \* bound on published files

ASSUME DbAssumption ==
    /\ Folders # {} /\ NoFolder \notin Folders
    /\ Competitions # {}
    /\ \A c \in Competitions :
          /\ DOMAIN c = {"event", "show", "discipline", "kind"}
          /\ c.event \in Nat \ {0} /\ c.show \in Nat \ {0}
          /\ c.discipline \in Nat /\ c.kind \in 0..4
    /\ Manuals \subseteq 0..3 /\ 0 \in Manuals
    /\ MaxLoads \in Nat /\ MaxSwitches \in Nat /\ MaxFiles \in Nat

VARIABLES
    online,        \* what each folder's Online.scdb and main file say
    newest,        \* update counter of the published files, by folder and show
    m_szDbFolder, m_bLoaded, m_mainFile, m_eventNo, m_showNo, m_discipline,
    m_eventing, m_manualDiscipline,
    m_startlist,   \* what riders, horses, start list and teams were read from
    m_publishUploadFiles,
    load,          \* load[t]: where thread t is in Load, and its locals
    poll,          \* where the web thread is in its session and the poll
    chosen,        \* ghost: folder of the user's last load that succeeded
    raced,         \* ghost: a Reload was running when that load took effect
    alone,         \* ghost: nothing else touched what the last load read
    seen,          \* ghost: what the files said when the last load began
    due,           \* ghost: newest file, if it has to be sent, or 0
    loads, switches, published   \* counters of the bounds

diskVars  == <<online, newest, switches, published>>
dataVars  == <<m_mainFile, m_eventNo, m_showNo, m_discipline, m_eventing,
               m_startlist>>
stateVars == <<m_szDbFolder, m_bLoaded>>
ghostVars == <<chosen, raced, alone, seen, due>>
vars == <<diskVars, dataVars, stateVars, m_manualDiscipline, ghostVars,
          m_publishUploadFiles, load, poll, loads>>

-----------------------------------------------------------------------------
Threads == {"ui", "client"}

Events == {c.event : c \in Competitions}
Shows == {c.show : c \in Competitions}
Sources == Folders \X Shows
Disciplines == {c.discipline : c \in Competitions} \cup {0, 2, 3}

\* Two threads fill the same containers: what they hold is undefined.
Torn == [main |-> NoFolder, event |-> 0, discipline |-> 0]

Tables == [main : Folders \cup {NoFolder}, event : Events \cup {0},
           discipline : Disciplines]

NothingSeen == [folder |-> NoFolder]

Idle == [pc |-> "idle", folder |-> NoFolder, main |-> NoFolder, marker |-> 0]
Resting(t) == load[t].pc \in {"idle", "dead"}
Others(t) == Threads \ {t}

\* Both singletons have static storage: members no constructor sets are 0.
Init ==
    /\ online \in [Folders -> Competitions]
    /\ newest = [s \in Sources |-> 0]
    /\ switches = 0 /\ published = 0
    /\ m_szDbFolder = NoFolder /\ m_bLoaded = FALSE
    /\ m_mainFile = NoFolder /\ m_eventNo = 0 /\ m_showNo = 0
    /\ m_discipline = 0 /\ m_eventing = 0
    /\ m_startlist = Torn
    /\ m_manualDiscipline = 0
    /\ m_publishUploadFiles = 0
    /\ load = [t \in Threads |-> Idle]
    /\ poll = [pc |-> "offline", marker |-> 0]
    /\ chosen = NoFolder /\ raced = FALSE /\ alone = FALSE
    /\ seen = NothingSeen /\ due = 0
    /\ loads = 0

-----------------------------------------------------------------------------
(* Load, one step per group of shared members                               *)

Entering(f) == [pc |-> "online", folder |-> f, main |-> NoFolder, marker |-> 0]

\* Thread t enters Load(f).
Begin(t, f) ==
    /\ load[t].pc = "idle"
    /\ loads < MaxLoads
    /\ loads' = loads + 1
    /\ load' = [load EXCEPT ![t] = Entering(f)]
    /\ alone' = \A u \in Others(t) : Resting(u)
    /\ seen' = IF f = NoFolder THEN NothingSeen
               ELSE [folder |-> f, competition |-> online[f]]
    /\ due' = 0
    /\ UNCHANGED <<diskVars, dataVars, stateVars, chosen, raced,
                   m_publishUploadFiles, poll>>

\* The user types or browses to a folder.
ChooseFolder ==
    /\ \E f \in Folders : Begin("ui", f)
    /\ UNCHANGED m_manualDiscipline

\* The user selects a discipline: the selection is stored, then Reload.  An
\* upload reloads with the selection as it is.
ChooseDiscipline ==
    /\ Begin("ui", m_szDbFolder)
    /\ m_manualDiscipline' \in Manuals

\* LOADTI, or the chronometer connected: Reload by the client thread.
ClientReload ==
    /\ Begin("client", m_szDbFolder)
    /\ UNCHANGED m_manualDiscipline

Goes(t, from, to) ==
    /\ load[t].pc = from
    /\ load' = [load EXCEPT ![t].pc = to]

\* The parameters of Online.scdb: main file, event, show, discipline.
ReadOnline(t) ==
    /\ load[t].folder # NoFolder
    /\ Goes(t, "online", "open")
    /\ m_mainFile' = load[t].folder
    /\ m_eventNo' = online[load[t].folder].event
    /\ m_showNo' = online[load[t].folder].show
    /\ m_discipline' = online[load[t].folder].discipline
    /\ UNCHANGED <<diskVars, m_eventing, m_startlist, stateVars, m_manualDiscipline,
                   ghostVars, m_publishUploadFiles, poll, loads>>

\* The main file is opened under the shared name and stays open.
OpenMain(t) ==
    /\ load[t].pc = "open"
    /\ load' = [load EXCEPT ![t].pc = "main", ![t].main = m_mainFile]
    /\ UNCHANGED <<diskVars, dataVars, stateVars, m_manualDiscipline, ghostVars,
                   m_publishUploadFiles, poll, loads>>

\* m_eventing first holds the DISCIPLINE of the event, in which 4 is eventing,
\* and is made a flag afterwards.
ReadEventing(t) ==
    /\ Goes(t, "main", "eventing")
    /\ m_eventing' = online[load[t].main].kind
    /\ UNCHANGED <<diskVars, m_mainFile, m_eventNo, m_showNo, m_discipline,
                   m_startlist, stateVars, m_manualDiscipline, ghostVars,
                   m_publishUploadFiles, poll, loads>>

Flag(kind) == IF kind = 4 THEN 1 ELSE 0

MakeFlag(t) ==
    /\ Goes(t, "eventing", "manual")
    /\ m_eventing' = Flag(m_eventing)
    /\ UNCHANGED <<diskVars, m_mainFile, m_eventNo, m_showNo, m_discipline,
                   m_startlist, stateVars, m_manualDiscipline, ghostVars,
                   m_publishUploadFiles, poll, loads>>

\* The discipline the user selected, of "Jumping", "Cross" and "Dressage".
Selected == CASE m_manualDiscipline = 1 -> 0
              [] m_manualDiscipline = 2 -> 2
              [] m_manualDiscipline = 3 -> 3

\* In an eventing competition the user's selection overrides the file.
ApplyManual(t) ==
    /\ Goes(t, "manual", "lists")
    /\ m_discipline' = IF m_eventing # 0 /\ m_manualDiscipline # 0
                       THEN Selected ELSE m_discipline
    /\ UNCHANGED <<diskVars, m_mainFile, m_eventNo, m_showNo, m_eventing,
                   m_startlist, stateVars, m_manualDiscipline, ghostVars,
                   m_publishUploadFiles, poll, loads>>

\* Riders, horses, numbers, start list, teams and judges, cleared and read.
ReadLists(t) ==
    /\ Goes(t, "lists", "commit")
    /\ \/ m_startlist' = [main |-> load[t].main, event |-> m_eventNo,
                          discipline |-> m_discipline]
       \/ ~(\A u \in Others(t) : Resting(u)) /\ m_startlist' = Torn
    /\ UNCHANGED <<diskVars, m_mainFile, m_eventNo, m_showNo, m_discipline, m_eventing,
                   stateVars, m_manualDiscipline, ghostVars, m_publishUploadFiles, poll,
                   loads>>

\* Mutant of Fail: copied from the success path, it says loaded.
FailSaysLoaded(t) ==
    /\ load[t].pc \in {"online", "open", "main", "eventing", "manual", "lists"}
    /\ load' = [load EXCEPT ![t] = Idle]
    /\ m_bLoaded' = TRUE
    /\ UNCHANGED <<diskVars, dataVars, m_szDbFolder, m_manualDiscipline, ghostVars,
                   m_publishUploadFiles, poll, loads>>

\* Mutant of Fail: the folder is remembered though it could not be loaded.
FailRemembers(t) ==
    /\ load[t].pc \in {"online", "open", "main", "eventing", "manual", "lists"}
    /\ load' = [load EXCEPT ![t] = Idle]
    /\ m_bLoaded' = FALSE
    /\ m_szDbFolder' = load[t].folder
    /\ UNCHANGED <<diskVars, dataVars, m_manualDiscipline, ghostVars,
                   m_publishUploadFiles, poll, loads>>

\* Mutant of Fail: what was loaded before still counts as loaded.
FailStaysLoaded(t) ==
    /\ load[t].pc \in {"online", "open", "main", "eventing", "manual", "lists"}
    /\ load' = [load EXCEPT ![t] = Idle]
    /\ UNCHANGED <<diskVars, dataVars, stateVars, m_manualDiscipline, ghostVars,
                   m_publishUploadFiles, poll, loads>>

\* No Online.scdb in the folder, or a Poco exception on the way: not loaded,
\* and the folder of the last success stays.
Fail(t) ==
    /\ load[t].pc \in {"online", "open", "main", "eventing", "manual", "lists"}
    /\ load' = [load EXCEPT ![t] = Idle]
    /\ m_bLoaded' = FALSE
    /\ UNCHANGED <<diskVars, dataVars, m_szDbFolder, m_manualDiscipline, ghostVars,
                   m_publishUploadFiles, poll, loads>>

\* LoadJudges lets the exception of stoi pass, which nobody on the client
\* thread catches: the thread ends, and m_bLoaded is what it was.
Escape ==
    /\ load["client"].pc = "lists" /\ m_discipline = 3
    /\ load' = [load EXCEPT !["client"] = [Idle EXCEPT !.pc = "dead"]]
    /\ m_startlist' = Torn
    /\ alone' = FALSE
    /\ UNCHANGED <<diskVars, m_mainFile, m_eventNo, m_showNo, m_discipline, m_eventing,
                   stateVars, m_manualDiscipline, chosen, raced, seen, due,
                   m_publishUploadFiles, poll, loads>>

\* The load succeeded: only now is its folder the current one.  The ghosts note
\* the loads of the UI thread, which the user asked for.
Commit(t) ==
    /\ Goes(t, "commit", "marker")
    /\ m_szDbFolder' = load[t].folder
    /\ m_bLoaded' = TRUE
    /\ IF t = "ui"
       THEN /\ chosen' = load[t].folder
            /\ raced' = \E u \in Others(t) : ~Resting(u)
       ELSE UNCHANGED <<chosen, raced>>
    /\ UNCHANGED <<diskVars, dataVars, m_manualDiscipline, alone, seen, due,
                   m_publishUploadFiles, poll, loads>>

\* GetPublishFilesUpload: 0 if not loaded, or if the file cannot be read.
Current == <<m_szDbFolder, m_showNo>>
Counters == {0} \cup (IF m_bLoaded THEN {newest[Current]} ELSE {})

ReadMarker(t) ==
    /\ load[t].pc = "marker"
    /\ \E c \in Counters : load' = [load EXCEPT ![t].pc = "store", ![t].marker = c]
    /\ UNCHANGED <<diskVars, dataVars, stateVars, m_manualDiscipline, ghostVars,
                   m_publishUploadFiles, poll, loads>>

StoreMarker(t) ==
    /\ load[t].pc = "store"
    /\ m_publishUploadFiles' = load[t].marker
    /\ load' = [load EXCEPT ![t] = Idle]
    /\ UNCHANGED <<diskVars, dataVars, stateVars, m_manualDiscipline, ghostVars, poll, loads>>

Loading(t) ==
    \/ ReadOnline(t) \/ OpenMain(t) \/ ReadEventing(t) \/ MakeFlag(t)
    \/ ApplyManual(t) \/ ReadLists(t) \/ Fail(t) \/ Commit(t) \/ ReadMarker(t) \/ StoreMarker(t)

-----------------------------------------------------------------------------
(* A session of the web thread: in every turn of the inner loop of run,     *)
(* GetUploadedPdfInfo, then the queue is emptied and the heartbeat sent     *)

InSession == poll.pc # "offline"

At(pc) == [pc |-> pc, marker |-> 0]

\* The counter of the published files is read.
ReadCounter ==
    /\ \E c \in Counters :
          /\ poll' = [pc |-> "compare", marker |-> c]
          /\ due' = IF due # 0 /\ c # newest[Current] THEN 0 ELSE due
    /\ UNCHANGED <<diskVars, dataVars, stateVars, m_manualDiscipline, chosen, raced, alone,
                   seen, m_publishUploadFiles, load, loads>>

\* A session that reaches its loop begins with a poll.
SessionBegins == poll.pc = "offline" /\ ReadCounter

\* A message of the queue, or the heartbeat, could not be sent.
SessionEnds ==
    /\ poll.pc = "flush"
    /\ poll' = At("offline")
    /\ UNCHANGED <<diskVars, dataVars, stateVars, m_manualDiscipline, ghostVars,
                   m_publishUploadFiles, load, loads>>

PollRead == poll.pc = "flush" /\ ReadCounter

PollSame ==
    /\ poll.pc = "compare"
    /\ m_publishUploadFiles = poll.marker
    /\ poll' = At("flush")
    /\ UNCHANGED <<diskVars, dataVars, stateVars, m_manualDiscipline, ghostVars,
                   m_publishUploadFiles, load, loads>>

\* Mutant of PollNew: a marker of 0 counts as not known yet, and is only stored.
PollNewFromKnown ==
    /\ poll.pc = "compare"
    /\ m_publishUploadFiles # poll.marker
    /\ m_publishUploadFiles' = poll.marker
    /\ poll' = At(IF m_bLoaded /\ m_publishUploadFiles # 0 THEN "query" ELSE "flush")
    /\ UNCHANGED <<diskVars, dataVars, stateVars, m_manualDiscipline, ghostVars, load, loads>>

\* The marker is stored before anything is read or sent.
PollNew ==
    /\ poll.pc = "compare"
    /\ m_publishUploadFiles # poll.marker
    /\ m_publishUploadFiles' = poll.marker
    /\ poll' = At(IF m_bLoaded THEN "query" ELSE "flush")
    /\ UNCHANGED <<diskVars, dataVars, stateVars, m_manualDiscipline, ghostVars, load, loads>>

\* The newest file is read and handed to AddToSendQueue, which keeps it or not:
\* one file, whatever number of files the counter went up by.
PollSend ==
    /\ poll.pc = "query"
    /\ newest[Current] > 0
    /\ poll' = At("flush")
    /\ due' = 0
    /\ UNCHANGED <<diskVars, dataVars, stateVars, m_manualDiscipline, chosen, raced, alone,
                   seen, m_publishUploadFiles, load, loads>>

\* The table cannot be read: the caught exception loses the file for good.
PollFails ==
    /\ poll.pc = "query"
    /\ poll' = At("flush")
    /\ due' = 0
    /\ UNCHANGED <<diskVars, dataVars, stateVars, m_manualDiscipline, chosen, raced, alone,
                   seen, m_publishUploadFiles, load, loads>>

\* The file is not there, or the table has no row: the stream is not open, and
\* while (!in.eof()) never ends.
PollHangs ==
    /\ poll.pc = "query"
    /\ poll' = At("stuck")
    /\ due' = 0
    /\ UNCHANGED <<diskVars, dataVars, stateVars, m_manualDiscipline, chosen, raced, alone,
                   seen, m_publishUploadFiles, load, loads>>

Poll == PollRead \/ PollSame \/ PollNew \/ PollSend \/ PollFails \/ PollHangs

\* The steps of the web thread from the beginning of a session to its end.
Turn == Poll \/ SessionEnds

-----------------------------------------------------------------------------
(* The other programs that write the files, and the START button            *)

\* The competition program goes to another event of the folder.
SwitchCompetition ==
    /\ switches < MaxSwitches
    /\ switches' = switches + 1
    /\ \E f \in Folders, c \in Competitions : online' = [online EXCEPT ![f] = c]
    /\ online' # online
    /\ alone' = (alone /\ \A t \in Threads : Resting(t))
    /\ UNCHANGED <<newest, published, dataVars, stateVars, m_manualDiscipline, chosen, raced,
                   seen, due, m_publishUploadFiles, load, poll, loads>>

\* A file is published.  It has to be sent if its folder and show are loaded and
\* nobody loads, and the marker is that of the file before (a poll that read the
\* counter of the last folder may have stored that one); and if it follows a file
\* that has to be sent, which it takes the place of: of several files published
\* between two polls the code sends the newest only.
Publish ==
    \E s \in Sources :
        /\ published < MaxFiles
        /\ published' = published + 1
        /\ newest' = [newest EXCEPT ![s] = @ + 1]
        /\ due' = IF /\ s = Current
                     /\ \/ due # 0
                        \/ /\ m_bLoaded /\ m_publishUploadFiles \in {0, newest[s]}
                           /\ poll.pc # "stuck" /\ \A t \in Threads : Resting(t)
                  THEN newest[s] + 1 ELSE due
        /\ UNCHANGED <<online, switches, dataVars, stateVars, m_manualDiscipline, chosen,
                       raced, alone, seen, m_publishUploadFiles, load, poll, loads>>

-----------------------------------------------------------------------------
Next ==
    \/ ChooseFolder \/ ChooseDiscipline \/ ClientReload
    \/ \E t \in Threads : Loading(t)
    \/ Escape
    \/ SessionBegins \/ Turn
    \/ SwitchCompetition \/ Publish

Spec == Init /\ [][Next]_vars

\* In a session the web thread goes on with its loop; nothing says that a session
\* begins, or lasts.
FairSpec == Spec /\ WF_vars(Turn)

-----------------------------------------------------------------------------
(* Properties                                                               *)

LoadPcs == {"idle", "online", "open", "main", "eventing", "manual", "lists", "commit",
            "marker", "store", "dead"}

LoadState == [pc : LoadPcs, folder : Folders \cup {NoFolder},
              main : Folders \cup {NoFolder}, marker : 0..MaxFiles]

\* Every member holds a value its declaration and the files allow, and only a
\* folder that was loaded is ever called loaded.
TypeOK ==
    /\ online \in [Folders -> Competitions]
    /\ newest \in [Sources -> 0..published] /\ published \in 0..MaxFiles
    /\ m_szDbFolder \in Folders \cup {NoFolder}
    /\ m_bLoaded \in BOOLEAN /\ m_eventing \in 0..4
    /\ m_bLoaded => Current \in Sources
    /\ m_showNo \in Shows \cup {0}
    /\ m_mainFile \in Folders \cup {NoFolder}
    /\ m_eventNo \in Events \cup {0}
    /\ m_discipline \in Disciplines
    /\ m_manualDiscipline \in Manuals
    /\ m_startlist \in Tables
    /\ m_publishUploadFiles \in 0..MaxFiles
    /\ load \in [Threads -> LoadState]
    /\ poll \in [pc : {"offline", "compare", "query", "flush", "stuck"},
                 marker : 0..MaxFiles]

\* The current folder is the one of the user's last load that succeeded, unless
\* a Reload of the client thread was running when that load took effect: a
\* Reload reads the folder when it begins and writes it back when it ends.
ChoiceStands == ~raced => m_szDbFolder = chosen

\* The competition the last load found.
Found(f) ==
    LET c == seen.competition IN
    /\ f = seen.folder
    /\ m_mainFile = f /\ m_eventNo = c.event /\ m_showNo = c.show
    /\ m_eventing = Flag(c.kind)
    /\ m_discipline = IF c.kind = 4 /\ m_manualDiscipline # 0 THEN Selected
                      ELSE c.discipline
    /\ m_startlist = [main |-> f, event |-> m_eventNo, discipline |-> m_discipline]

\* What is marked as loaded is one competition: after a load that nothing else
\* disturbed, folder, event, discipline and every list are those its files gave,
\* whatever loads failed, were cut short or overlapped before it.
CoherentWhenAlone ==
    alone /\ m_bLoaded /\ (\A t \in Threads : Resting(t)) => Found(m_szDbFolder)

\* The part of NewestFileIsSent that is safety: the file that is due is the newest
\* of the folder and show that are loaded, so it is the one a poll hands over; as
\* long as it is due nobody loads, the web thread is not stuck, and the marker is
\* below the file's number or the web thread is about to read the file.  So no
\* poll can find nothing new and leave it unsent.
DueIsUnmarked ==
    due # 0 =>
        /\ Current \in Sources /\ m_bLoaded
        /\ \A t \in Threads : Resting(t)
        /\ poll.pc # "stuck"
        /\ due = newest[Current]
        /\ poll.pc = "query" \/ m_publishUploadFiles < due

\* If the web thread is in a session again and again, the newest file published
\* while its competition is loaded and nobody loads it is handed to AddToSendQueue,
\* whether it was published in a session, between two, or between two polls of
\* one.  A file that is followed by another before the poll is not sent, as
\* the code does; only a read that fails or a new load gives up what is due.
NewestFileIsSent == []<>InSession => (due # 0) ~> (due = 0)
=============================================================================
