-------------------------- MODULE EquestreDb_proofs --------------------------
(***************************************************************************)
(* Theorems about EquestreDb for any folders, competitions and bounds: its *)
(* type invariant, the folder the user chose, the one competition that an  *)
(* undisturbed load leaves, and the newest published file, which a poll    *)
(* hands over.                                                             *)
(***************************************************************************)
EXTENDS EquestreDb, TLAPS

USE DbAssumption

\* What Online.scdb of a folder and its main file say.
LEMMA CompetitionType ==
    ASSUME NEW c \in Competitions
    PROVE  /\ c.event \in Events /\ c.show \in Shows
           /\ c.discipline \in Disciplines /\ c.kind \in 0..4
  BY DEF Events, Shows, Disciplines

\* Past the test for Online.scdb the folder is a real one, the show one of a
\* competition, and the main file that was opened is a real one too.
FolderIsReal ==
    \A t \in Threads :
        /\ load[t].pc \in {"open", "main", "eventing", "manual", "lists", "commit"}
               => /\ load[t].folder \in Folders /\ m_mainFile \in Folders
                  /\ m_showNo \in Shows
        /\ load[t].pc \in {"main", "eventing", "manual", "lists"}
               => load[t].main \in Folders

\* A Reload of the client thread that did not run across the user's load is a
\* load of the folder the user chose.
ReloadOfChoice ==
    ~raced =>
        /\ m_szDbFolder = chosen
        /\ load["client"].pc \notin {"idle", "dead"}
               => load["client"].folder = chosen

DbInv == TypeOK /\ FolderIsReal /\ ReloadOfChoice

LEMMA DbInit == Init => DbInv
<1>. SUFFICES ASSUME Init PROVE DbInv
  OBVIOUS
<1>. USE DEF Init
<1>1. Idle \in LoadState
  BY DEF Idle, LoadState, LoadPcs
<1>2. TypeOK
  <2>1. load \in [Threads -> LoadState]
    BY <1>1
  <2>2. Torn \in Tables
    BY DEF Torn, Tables, Disciplines
  <2>3. m_discipline \in Disciplines
    BY DEF Disciplines
  <2>4. /\ 0 \in 0..MaxFiles /\ m_manualDiscipline \in Manuals
        /\ newest \in [Sources -> 0..published]
    OBVIOUS
  <2>5. poll \in [pc : {"offline", "compare", "query", "flush", "stuck"},
                 marker : 0..MaxFiles]
    BY <2>4
  <2>6. /\ m_bLoaded = FALSE /\ m_eventing \in 0..4 /\ published \in 0..MaxFiles
        /\ m_publishUploadFiles \in 0..MaxFiles
        /\ m_showNo \in Shows \cup {0} /\ m_eventNo \in Events \cup {0}
    OBVIOUS
  <2>7. /\ online \in [Folders -> Competitions] /\ m_startlist = Torn
        /\ m_szDbFolder = NoFolder /\ m_mainFile = NoFolder
    OBVIOUS
  <2>. HIDE DEF Init
  <2>. QED
    BY <2>1, <2>2, <2>3, <2>4, <2>5, <2>6, <2>7 DEF TypeOK
<1>3. FolderIsReal /\ ReloadOfChoice
  BY DEF FolderIsReal, ReloadOfChoice, Threads, Idle
<1>. QED
  BY <1>2, <1>3 DEF DbInv

\* What the counter of the published files is read as.
LEMMA CounterType ==
    ASSUME TypeOK, NEW c \in Counters
    PROVE  c \in 0..MaxFiles
<1>1. CASE c = 0
  BY <1>1
<1>2. CASE m_bLoaded /\ c = newest[Current]
  <2>1. newest[Current] \in 0..published
    BY <1>2 DEF TypeOK
  <2>. QED
    BY <1>2, <2>1 DEF TypeOK
<1>. QED
  BY <1>1, <1>2 DEF Counters

\* A load that goes from one program counter to another keeps its folder.
LEMMA GoesType ==
    ASSUME TypeOK, NEW t \in Threads, NEW from, NEW to \in LoadPcs, Goes(t, from, to)
    PROVE  /\ load' \in [Threads -> LoadState]
           /\ load[t].pc = from /\ load'[t].pc = to
           /\ load'[t].folder = load[t].folder /\ load'[t].main = load[t].main
           /\ \A u \in Threads \ {t} : load'[u] = load[u]
  BY DEF Goes, TypeOK, LoadState

\* The beginning of a load, by any thread and for any folder.
LEMMA BeginKeeps ==
    ASSUME DbInv, NEW t \in Threads, NEW f \in Folders \cup {NoFolder}, Begin(t, f),
           m_manualDiscipline' \in Manuals,
           t = "client" => f = m_szDbFolder
    PROVE  DbInv'
<1>1. /\ Entering(f) \in LoadState
      /\ Entering(f).pc = "online" /\ Entering(f).folder = f
  BY DEF Entering, LoadState, LoadPcs
<1>2. load \in [Threads -> LoadState] /\ load' = [load EXCEPT ![t] = Entering(f)]
  BY DEF Begin, DbInv, TypeOK
<1>3. TypeOK'
  BY <1>1, <1>2 DEF DbInv, TypeOK, Begin, diskVars, dataVars, stateVars, Current
<1>4. FolderIsReal'
  BY <1>1, <1>2 DEF DbInv, FolderIsReal, Begin, dataVars
<1>5. ReloadOfChoice'
  BY <1>1, <1>2 DEF DbInv, ReloadOfChoice, Begin, stateVars, Threads
<1>. QED
  BY <1>3, <1>4, <1>5 DEF DbInv

\* One step of a load.
LEMMA LoadingKeeps ==
    ASSUME DbInv, NEW t \in Threads, Loading(t)
    PROVE  DbInv'
<1>. USE DEF DbInv, diskVars, dataVars, stateVars, ghostVars
<1>0. /\ {"open", "main", "eventing", "manual", "lists", "commit", "marker",
          "store", "idle"} \subseteq LoadPcs
      /\ load \in [Threads -> LoadState]
  BY DEF LoadPcs, TypeOK
<1>1. CASE ReadOnline(t)
  <2>1. /\ load[t].folder \in Folders
        /\ online[load[t].folder] \in Competitions
    BY <1>0, <1>1 DEF ReadOnline, TypeOK, LoadState
  <2>2. Goes(t, "online", "open")
    BY <1>1 DEF ReadOnline
  <2>3. TypeOK'
    <3>1. m_bLoaded => m_szDbFolder \in Folders
      BY DEF TypeOK, Current, Sources
    <3>2. m_showNo' \in Shows /\ m_eventNo' \in Events /\ m_discipline' \in Disciplines
      BY <1>1, <2>1, CompetitionType DEF ReadOnline
    <3>3. (m_bLoaded => Current \in Sources)'
      BY <1>1, <3>1, <3>2 DEF ReadOnline, Current, Sources
    <3>. QED
      BY <1>0, <1>1, <2>1, <2>2, <3>2, <3>3, GoesType DEF ReadOnline, TypeOK
  <2>4. FolderIsReal'
    BY <1>0, <1>1, <2>1, <2>2, GoesType, CompetitionType DEF ReadOnline, FolderIsReal
  <2>5. ReloadOfChoice'
    BY <1>0, <1>1, <2>2, GoesType DEF ReadOnline, ReloadOfChoice, Threads
  <2>. QED
    BY <2>3, <2>4, <2>5
<1>2. CASE OpenMain(t)
  <2>1. m_mainFile \in Folders
    BY <1>2 DEF OpenMain, FolderIsReal
  <2>2. load' = [load EXCEPT ![t] = [load[t] EXCEPT !.pc = "main", !.main = m_mainFile]]
    BY <1>2, <1>0 DEF OpenMain, LoadState
  <2>3. load' \in [Threads -> LoadState]
    BY <1>0, <2>1, <2>2 DEF LoadState
  <2>4. TypeOK'
    BY <1>2, <2>3 DEF OpenMain, TypeOK, Current
  <2>5. /\ load[t].pc = "open" /\ load'[t].pc = "main"
        /\ load'[t].folder = load[t].folder /\ load'[t].main = m_mainFile
        /\ \A u \in Threads \ {t} : load'[u] = load[u]
    BY <1>0, <1>2, <2>2 DEF LoadState, OpenMain
  <2>6. FolderIsReal'
    BY <1>2, <2>1, <2>5 DEF OpenMain, FolderIsReal
  <2>7. ReloadOfChoice'
    BY <1>2, <2>5 DEF OpenMain, ReloadOfChoice, Threads
  <2>. QED
    BY <2>4, <2>6, <2>7
<1>3. CASE ReadEventing(t)
  <2>1. online[load[t].main] \in Competitions
    BY <1>3 DEF ReadEventing, Goes, FolderIsReal, TypeOK
  <2>2. Goes(t, "main", "eventing")
    BY <1>3 DEF ReadEventing
  <2>3. m_eventing' \in 0..4
    BY <1>3, <2>1, CompetitionType DEF ReadEventing
  <2>4. TypeOK'
    BY <1>0, <1>3, <2>2, <2>3, GoesType DEF ReadEventing, TypeOK, Current
  <2>5. FolderIsReal'
    BY <1>0, <1>3, <2>2, GoesType DEF ReadEventing, FolderIsReal
  <2>6. ReloadOfChoice'
    BY <1>0, <1>3, <2>2, GoesType DEF ReadEventing, ReloadOfChoice, Threads
  <2>. QED
    BY <2>4, <2>5, <2>6
<1>10. CASE MakeFlag(t)
  <2>1. Goes(t, "eventing", "manual")
    BY <1>10 DEF MakeFlag
  <2>2. m_eventing' \in 0..4
    BY <1>10 DEF MakeFlag, Flag
  <2>3. TypeOK'
    BY <1>0, <1>10, <2>1, <2>2, GoesType DEF MakeFlag, TypeOK, Current
  <2>4. FolderIsReal'
    BY <1>0, <1>10, <2>1, GoesType DEF MakeFlag, FolderIsReal
  <2>5. ReloadOfChoice'
    BY <1>0, <1>10, <2>1, GoesType DEF MakeFlag, ReloadOfChoice, Threads
  <2>. QED
    BY <2>3, <2>4, <2>5
<1>4. CASE ApplyManual(t)
  <2>1. Goes(t, "manual", "lists")
    BY <1>4 DEF ApplyManual
  <2>2. m_discipline' \in Disciplines
    <3>1. m_manualDiscipline # 0 => m_manualDiscipline \in {1, 2, 3}
      BY DEF TypeOK
    <3>. QED
      BY <1>4, <3>1 DEF ApplyManual, Selected, Disciplines, TypeOK
  <2>3. TypeOK'
    BY <1>0, <1>4, <2>1, <2>2, GoesType DEF ApplyManual, TypeOK, Current
  <2>4. FolderIsReal'
    BY <1>0, <1>4, <2>1, GoesType DEF ApplyManual, FolderIsReal
  <2>5. ReloadOfChoice'
    BY <1>0, <1>4, <2>1, GoesType DEF ApplyManual, ReloadOfChoice, Threads
  <2>. QED
    BY <2>3, <2>4, <2>5
<1>5. CASE ReadLists(t)
  <2>1. Goes(t, "lists", "commit")
    BY <1>5 DEF ReadLists
  <2>2. m_startlist' \in Tables
    <3>1. load[t].main \in Folders
      BY <1>5 DEF ReadLists, Goes, FolderIsReal
    <3>2. m_eventNo \in Events \cup {0} /\ m_discipline \in Disciplines
      BY DEF TypeOK
    <3>3. [main |-> load[t].main, event |-> m_eventNo, discipline |-> m_discipline] \in Tables
      BY <3>1, <3>2 DEF Tables
    <3>4. Torn \in Tables
      BY DEF Torn, Tables, Disciplines
    <3>. QED
      BY <1>5, <3>3, <3>4 DEF ReadLists
  <2>3. TypeOK'
    BY <1>0, <1>5, <2>1, <2>2, GoesType DEF ReadLists, TypeOK, Current
  <2>4. FolderIsReal'
    BY <1>0, <1>5, <2>1, GoesType DEF ReadLists, FolderIsReal
  <2>5. ReloadOfChoice'
    BY <1>0, <1>5, <2>1, GoesType DEF ReadLists, ReloadOfChoice, Threads
  <2>. QED
    BY <2>3, <2>4, <2>5
<1>6. CASE Fail(t)
  <2>1. Idle \in LoadState /\ Idle.pc = "idle"
    BY <1>0 DEF Idle, LoadState
  <2>2. load' = [load EXCEPT ![t] = Idle]
    BY <1>6 DEF Fail
  <2>3. TypeOK'
    BY <1>0, <1>6, <2>1, <2>2 DEF Fail, TypeOK, Current
  <2>4. FolderIsReal'
    BY <1>0, <1>6, <2>1, <2>2 DEF Fail, FolderIsReal
  <2>5. ReloadOfChoice'
    BY <1>0, <1>6, <2>1, <2>2 DEF Fail, ReloadOfChoice, Threads
  <2>. QED
    BY <2>3, <2>4, <2>5
<1>7. CASE Commit(t)
  <2>1. Goes(t, "commit", "marker")
    BY <1>7 DEF Commit
  <2>2. load[t].folder \in Folders /\ m_showNo \in Shows
    BY <2>1 DEF Goes, FolderIsReal
  <2>3. TypeOK'
    BY <1>0, <1>7, <2>1, <2>2, GoesType DEF Commit, TypeOK, Current, Sources
  <2>4. FolderIsReal'
    BY <1>0, <1>7, <2>1, GoesType DEF Commit, FolderIsReal
  <2>5. ReloadOfChoice'
    <3>1. CASE t = "client"
      BY <1>0, <1>7, <2>1, <3>1, GoesType DEF Commit, ReloadOfChoice
    <3>2. CASE t = "ui"
      <4>1. raced' = (load["client"].pc \notin {"idle", "dead"})
        BY <1>7, <3>2 DEF Commit, Others, Threads, Resting
      <4>2. load'["client"] = load["client"]
        BY <1>0, <2>1, <3>2, GoesType DEF Threads
      <4>. QED
        BY <1>7, <3>2, <4>1, <4>2 DEF Commit, ReloadOfChoice
    <3>. QED
      BY <3>1, <3>2 DEF Threads
  <2>. QED
    BY <2>3, <2>4, <2>5
<1>8. CASE ReadMarker(t)
  <2>1. PICK c \in Counters : load' = [load EXCEPT ![t].pc = "store", ![t].marker = c]
    BY <1>8 DEF ReadMarker
  <2>2. load' = [load EXCEPT ![t] = [load[t] EXCEPT !.pc = "store", !.marker = c]]
    BY <1>0, <2>1 DEF LoadState
  <2>3. load' \in [Threads -> LoadState]
    BY <1>0, <2>2, CounterType DEF LoadState
  <2>4. /\ load[t].pc = "marker" /\ load'[t].pc = "store"
        /\ load'[t].folder = load[t].folder
        /\ \A u \in Threads \ {t} : load'[u] = load[u]
    BY <1>0, <1>8, <2>2 DEF LoadState, ReadMarker
  <2>5. TypeOK'
    BY <1>8, <2>3 DEF ReadMarker, TypeOK, Current
  <2>6. FolderIsReal'
    BY <1>8, <2>4 DEF ReadMarker, FolderIsReal
  <2>7. ReloadOfChoice'
    BY <1>8, <2>4 DEF ReadMarker, ReloadOfChoice, Threads
  <2>. QED
    BY <2>5, <2>6, <2>7
<1>9. CASE StoreMarker(t)
  <2>1. Idle \in LoadState /\ Idle.pc = "idle"
    BY <1>0 DEF Idle, LoadState
  <2>2. load' = [load EXCEPT ![t] = Idle]
    BY <1>9 DEF StoreMarker
  <2>3. load[t].marker \in 0..MaxFiles
    BY <1>0 DEF LoadState
  <2>4. TypeOK'
    BY <1>0, <1>9, <2>1, <2>2, <2>3 DEF StoreMarker, TypeOK, Current
  <2>5. FolderIsReal'
    BY <1>0, <1>9, <2>1, <2>2 DEF StoreMarker, FolderIsReal
  <2>6. ReloadOfChoice'
    BY <1>0, <1>9, <2>1, <2>2 DEF StoreMarker, ReloadOfChoice, Threads
  <2>. QED
    BY <2>4, <2>5, <2>6
<1>. QED
  BY <1>1, <1>2, <1>3, <1>4, <1>5, <1>6, <1>7, <1>8, <1>9, <1>10 DEF Loading

\* The web thread, the files and the thread that ends touch
\* neither the folder nor the loads that go on.
LEMMA OthersKeep ==
    ASSUME DbInv, SessionBegins \/ Turn \/ SwitchCompetition \/ Publish \/ Escape
    PROVE  DbInv'
<1>. USE DEF DbInv, diskVars, dataVars, stateVars
<1>1. CASE SessionBegins \/ Turn
  <2>1. TypeOK'
    <3>1. CASE ReadCounter
      <4>1. PICK c \in Counters : poll' = [pc |-> "compare", marker |-> c]
        BY <3>1 DEF ReadCounter
      <4>. QED
        BY <3>1, <4>1, CounterType DEF ReadCounter, TypeOK, Current
    <3>2. CASE PollSame \/ SessionEnds
      BY <3>2 DEF PollSame, SessionEnds, At, TypeOK, Current, ghostVars
    <3>3. CASE PollNew
      BY <3>3 DEF PollNew, At, TypeOK, Current, ghostVars
    <3>4. CASE PollSend \/ PollFails \/ PollHangs
      BY <3>4 DEF PollSend, PollFails, PollHangs, At, TypeOK, Current
    <3>. QED
      BY <1>1, <3>1, <3>2, <3>3, <3>4 DEF SessionBegins, Turn, Poll, PollRead
  <2>2. UNCHANGED <<load, m_mainFile, m_showNo, m_szDbFolder, chosen, raced>>
    BY <1>1 DEF SessionBegins, Turn, SessionEnds, Poll, PollRead, ReadCounter, PollSame,
                PollNew, PollSend, PollFails, PollHangs, ghostVars
  <2>. QED
    BY <2>1, <2>2 DEF FolderIsReal, ReloadOfChoice
<1>2. CASE SwitchCompetition \/ Publish
  <2>1. online' \in [Folders -> Competitions]
    BY <1>2 DEF SwitchCompetition, Publish, TypeOK
  <2>2. newest' \in [Sources -> 0..published'] /\ published' \in 0..MaxFiles
    <3>1. CASE Publish
      <4>1. PICK s \in Sources : newest' = [newest EXCEPT ![s] = @ + 1]
        BY <3>1 DEF Publish
      <4>2. published < MaxFiles /\ published' = published + 1
        BY <3>1 DEF Publish
      <4>3. newest \in [Sources -> 0..published] /\ published \in 0..MaxFiles
        BY DEF TypeOK
      <4>4. /\ newest[s] + 1 \in 0..published'
            /\ \A q \in Sources : newest[q] \in 0..published'
        BY <4>2, <4>3
      <4>. QED
        BY <4>1, <4>2, <4>3, <4>4
    <3>2. CASE SwitchCompetition
      BY <3>2 DEF SwitchCompetition, TypeOK
    <3>. QED
      BY <1>2, <3>1, <3>2
  <2>3. UNCHANGED <<load, poll, m_publishUploadFiles, dataVars, stateVars,
                    m_manualDiscipline, chosen, raced>>
    BY <1>2 DEF SwitchCompetition, Publish
  <2>4. TypeOK'
    BY <2>1, <2>2, <2>3 DEF TypeOK, Current
  <2>. QED
    BY <2>3, <2>4 DEF FolderIsReal, ReloadOfChoice
<1>3. CASE Escape
  <2>. DEFINE ended == [Idle EXCEPT !.pc = "dead"]
  <2>1. ended \in LoadState /\ ended.pc = "dead"
    BY DEF Idle, LoadState, LoadPcs
  <2>2. load \in [Threads -> LoadState] /\ load' = [load EXCEPT !["client"] = ended]
    BY <1>3 DEF Escape, TypeOK
  <2>3. Torn \in Tables
    BY DEF Torn, Tables, Disciplines
  <2>4. TypeOK'
    BY <1>3, <2>1, <2>2, <2>3 DEF Escape, TypeOK, Threads, Current
  <2>5. FolderIsReal' /\ ReloadOfChoice'
    BY <1>3, <2>1, <2>2 DEF Escape, FolderIsReal, ReloadOfChoice, Threads
  <2>. QED
    BY <2>4, <2>5
<1>. QED
  BY <1>1, <1>2, <1>3

\* Every step keeps the invariant.
LEMMA DbStep == DbInv /\ [Next]_vars => DbInv'
<1>. SUFFICES ASSUME DbInv, [Next]_vars PROVE DbInv'
  OBVIOUS
<1>0. m_manualDiscipline \in Manuals /\ m_szDbFolder \in Folders \cup {NoFolder}
  BY DEF DbInv, TypeOK
<1>1. CASE ChooseFolder
  <2>1. PICK f \in Folders : Begin("ui", f)
    BY <1>1 DEF ChooseFolder
  <2>2. m_manualDiscipline' \in Manuals
    BY <1>0, <1>1 DEF ChooseFolder
  <2>. QED
    BY <2>1, <2>2, BeginKeeps DEF Threads
<1>2. CASE ChooseDiscipline
  BY <1>0, <1>2, BeginKeeps DEF ChooseDiscipline, Threads
<1>3. CASE ClientReload
  BY <1>0, <1>3, BeginKeeps DEF ClientReload, Threads
<1>4. CASE \E t \in Threads : Loading(t)
  BY <1>4, LoadingKeeps
<1>5. CASE SessionBegins \/ Turn \/ SwitchCompetition \/ Publish \/ Escape
  BY <1>5, OthersKeep
<1>6. CASE UNCHANGED vars
  BY <1>6 DEF vars, diskVars, dataVars, stateVars, ghostVars, DbInv,
              TypeOK, FolderIsReal, ReloadOfChoice, Current
<1>. QED
  BY <1>1, <1>2, <1>3, <1>4, <1>5, <1>6 DEF Next

\* The inductive invariant of loads by two threads without a lock (Load, Reload).
THEOREM DbInvariant == Spec => []DbInv
  BY DbInit, DbStep, PTL DEF Spec

\* Every member keeps its type, and what is called loaded is a real folder,
\* however loads overlap, fail or end a thread.
THEOREM DbTypeCorrect == Spec => []TypeOK
<1>1. DbInv => TypeOK
  BY DEF DbInv
<1>. QED
  BY <1>1, DbInvariant, PTL

\* The folder the user chose stands, unless a Reload of the client thread ran
\* while the choice took effect.
THEOREM ChoiceIsKept == Spec => []ChoiceStands
<1>1. DbInv => ChoiceStands
  BY DEF DbInv, ReloadOfChoice, ChoiceStands
<1>. QED
  BY <1>1, DbInvariant, PTL

-----------------------------------------------------------------------------
(* Loads that nothing else disturbs                                         *)

\* How far thread t, alone since it began, has read the competition it found.
ReadSoFar(t) ==
    LET pc == load[t].pc
        c == seen.competition
        final == IF c.kind = 4 /\ m_manualDiscipline # 0 THEN Selected
                 ELSE c.discipline
    IN
    /\ pc # "online" => /\ m_mainFile = seen.folder
                        /\ m_eventNo = c.event /\ m_showNo = c.show
    /\ pc \in {"open", "main", "eventing", "manual"} => m_discipline = c.discipline
    /\ pc \in {"main", "eventing", "manual", "lists"} => load[t].main = seen.folder
    /\ pc = "eventing" => m_eventing = c.kind
    /\ pc \in {"manual", "lists", "commit"} => m_eventing = Flag(c.kind)
    /\ pc \in {"lists", "commit"} => m_discipline = final
    /\ pc = "commit" => m_startlist = [main |-> seen.folder, event |-> m_eventNo,
                                       discipline |-> m_discipline]
    /\ pc \in {"marker", "store"} => Found(m_szDbFolder)

\* While nothing else touches what the last load reads, that load is the only
\* one, its folder says what it said when the load began, and every member it
\* has been through is read from there; at rest, what is loaded was found.
AloneInv ==
    alone =>
        /\ \A t \in Threads : ~Resting(t) =>
              /\ \A u \in Others(t) : Resting(u)
              /\ load[t].folder = seen.folder
              /\ seen.folder # NoFolder => online[seen.folder] = seen.competition
              /\ ReadSoFar(t)
        /\ CoherentWhenAlone

\* A thread in the middle of a load is the only one, and goes on.
LEMMA Proceeds ==
    ASSUME DbInv, AloneInv, NEW t \in Threads,
           ~Resting(t), load'[t].pc \notin {"idle", "dead"},
           load'[t].folder = load[t].folder,
           \A u \in Threads \ {t} : load'[u] = load[u],
           UNCHANGED <<online, alone, seen>>,
           alone => ReadSoFar(t)'
    PROVE  AloneInv'
<1>. SUFFICES ASSUME alone PROVE AloneInv'
  BY DEF AloneInv
<1>1. \A u \in Others(t) : Resting(u) /\ Resting(u)'
  BY DEF AloneInv, Others, Resting
<1>2. ASSUME NEW u \in Threads, ~Resting(u)'
      PROVE  u = t
  BY <1>1, <1>2 DEF Others
<1>3. /\ load'[t].folder = seen.folder
      /\ seen.folder # NoFolder => online[seen.folder] = seen.competition
  BY DEF AloneInv
<1>4. ~Resting(t)'
  BY DEF Resting
<1>5. CoherentWhenAlone'
  BY <1>4 DEF CoherentWhenAlone
<1>. QED
  BY <1>1, <1>2, <1>3, <1>5 DEF AloneInv, Others

\* A load that begins finds what the files say then.
LEMMA BeginAlone ==
    ASSUME DbInv, AloneInv, NEW t \in Threads, NEW f \in Folders \cup {NoFolder},
           Begin(t, f)
    PROVE  AloneInv'
<1>1. load \in [Threads -> LoadState] /\ load' = [load EXCEPT ![t] = Entering(f)]
  BY DEF Begin, DbInv, TypeOK
<1>2. load'[t] = Entering(f) /\ Entering(f).pc = "online" /\ Entering(f).folder = f
  BY <1>1 DEF Entering
<1>3. SUFFICES ASSUME alone' PROVE AloneInv'
  BY DEF AloneInv
<1>4. \A u \in Others(t) : Resting(u) /\ Resting(u)'
  BY <1>1, <1>3 DEF Begin, Others, Resting
<1>5. ~Resting(t)'
  BY <1>2 DEF Resting
<1>6. /\ seen'.folder = f
      /\ f # NoFolder => online'[f] = seen'.competition
  BY DEF Begin, NothingSeen, diskVars
<1>7. ReadSoFar(t)'
  BY <1>2 DEF ReadSoFar
<1>8. CoherentWhenAlone'
  BY <1>5 DEF CoherentWhenAlone
<1>9. \A u \in Threads : ~Resting(u)' => u = t
  BY <1>4 DEF Others
<1>. QED
  BY <1>2, <1>4, <1>6, <1>7, <1>8, <1>9 DEF AloneInv, Others

\* One step of a load reads what the load found when it began.
LEMMA LoadingAlone ==
    ASSUME DbInv, AloneInv, NEW t \in Threads, Loading(t)
    PROVE  AloneInv'
<1>. USE DEF diskVars, dataVars, stateVars, ghostVars
<1>0. /\ load \in [Threads -> LoadState]
      /\ {"open", "main", "eventing", "manual", "lists", "commit", "marker",
          "store", "idle"} \subseteq LoadPcs
  BY DEF DbInv, TypeOK, LoadPcs
<1>a. TypeOK
  BY DEF DbInv
<1>b. alone /\ ~Resting(t) =>
         /\ load[t].folder = seen.folder
         /\ seen.folder # NoFolder => online[seen.folder] = seen.competition
         /\ ReadSoFar(t)
         /\ \A u \in Others(t) : Resting(u)
  BY DEF AloneInv
<1>1. CASE ReadOnline(t)
  <2>1. Goes(t, "online", "open")
    BY <1>1 DEF ReadOnline
  <2>2. /\ ~Resting(t) /\ load'[t].pc = "open" /\ load'[t].folder = load[t].folder
        /\ \A u \in Threads \ {t} : load'[u] = load[u]
    BY <1>0, <1>a, <2>1, GoesType DEF Resting
  <2>3. alone => ReadSoFar(t)'
    BY <1>1, <1>b, <2>2 DEF ReadSoFar, ReadOnline
  <2>. QED
    BY <1>1, <2>2, <2>3, Proceeds DEF ReadOnline
<1>2. CASE OpenMain(t)
  <2>1. load' = [load EXCEPT ![t] = [load[t] EXCEPT !.pc = "main", !.main = m_mainFile]]
    BY <1>2, <1>0 DEF OpenMain, LoadState
  <2>2. /\ load[t].pc = "open" /\ load'[t].pc = "main"
        /\ load'[t].folder = load[t].folder /\ load'[t].main = m_mainFile
        /\ \A u \in Threads \ {t} : load'[u] = load[u]
    BY <1>0, <1>2, <2>1 DEF LoadState, OpenMain
  <2>3. ~Resting(t)
    BY <2>2 DEF Resting
  <2>4. alone => ReadSoFar(t)'
    BY <1>2, <1>b, <2>2, <2>3 DEF ReadSoFar, OpenMain
  <2>. QED
    BY <1>2, <2>2, <2>3, <2>4, Proceeds DEF OpenMain
<1>3. CASE ReadEventing(t)
  <2>1. Goes(t, "main", "eventing")
    BY <1>3 DEF ReadEventing
  <2>2. /\ ~Resting(t) /\ load[t].pc = "main" /\ load'[t].pc = "eventing"
        /\ load'[t].folder = load[t].folder /\ load'[t].main = load[t].main
        /\ \A u \in Threads \ {t} : load'[u] = load[u]
    BY <1>0, <1>a, <2>1, GoesType DEF Resting
  <2>3. seen.folder = NoFolder => load[t].main # seen.folder
    BY <2>2, DbAssumption DEF DbInv, FolderIsReal
  <2>4. alone => ReadSoFar(t)'
    BY <1>3, <1>b, <2>2, <2>3 DEF ReadSoFar, ReadEventing
  <2>. QED
    BY <1>3, <2>2, <2>4, Proceeds DEF ReadEventing
<1>10. CASE MakeFlag(t)
  <2>1. Goes(t, "eventing", "manual")
    BY <1>10 DEF MakeFlag
  <2>2. /\ ~Resting(t) /\ load[t].pc = "eventing" /\ load'[t].pc = "manual"
        /\ load'[t].folder = load[t].folder /\ load'[t].main = load[t].main
        /\ \A u \in Threads \ {t} : load'[u] = load[u]
    BY <1>0, <1>a, <2>1, GoesType DEF Resting
  <2>3. alone => ReadSoFar(t)'
    BY <1>10, <1>b, <2>2 DEF ReadSoFar, MakeFlag
  <2>. QED
    BY <1>10, <2>2, <2>3, Proceeds DEF MakeFlag
<1>4. CASE ApplyManual(t)
  <2>1. Goes(t, "manual", "lists")
    BY <1>4 DEF ApplyManual
  <2>2. /\ ~Resting(t) /\ load[t].pc = "manual" /\ load'[t].pc = "lists"
        /\ load'[t].folder = load[t].folder /\ load'[t].main = load[t].main
        /\ \A u \in Threads \ {t} : load'[u] = load[u]
    BY <1>0, <1>a, <2>1, GoesType DEF Resting
  <2>3. UNCHANGED <<online, alone, seen, m_mainFile, m_eventNo, m_showNo, m_eventing,
                    m_manualDiscipline>>
    BY <1>4 DEF ApplyManual
  <2>4. Selected' = Selected
    BY <2>3 DEF Selected
  <2>5. m_discipline' = IF m_eventing # 0 /\ m_manualDiscipline # 0 THEN Selected
                        ELSE m_discipline
    BY <1>4 DEF ApplyManual
  <2>6. alone => ReadSoFar(t)'
    BY <1>b, <2>2, <2>3, <2>4, <2>5 DEF ReadSoFar, Flag
  <2>. QED
    BY <2>2, <2>3, <2>6, Proceeds
<1>5. CASE ReadLists(t)
  <2>1. Goes(t, "lists", "commit")
    BY <1>5 DEF ReadLists
  <2>2. /\ ~Resting(t) /\ load[t].pc = "lists" /\ load'[t].pc = "commit"
        /\ load'[t].folder = load[t].folder
        /\ \A u \in Threads \ {t} : load'[u] = load[u]
    BY <1>0, <1>a, <2>1, GoesType DEF Resting
  <2>3. ASSUME alone
        PROVE  m_startlist' = [main |-> seen.folder, event |-> m_eventNo,
                               discipline |-> m_discipline]
    <3>1. (\A u \in Others(t) : Resting(u)) /\ load[t].main = seen.folder
      BY <1>b, <2>2, <2>3 DEF ReadSoFar
    <3>. QED
      BY <1>5, <3>1 DEF ReadLists
  <2>4. alone => ReadSoFar(t)'
    BY <1>5, <1>b, <2>2, <2>3 DEF ReadSoFar, ReadLists, Selected
  <2>. QED
    BY <1>5, <2>2, <2>4, Proceeds DEF ReadLists
<1>6. CASE Fail(t)
  <2>1. SUFFICES ASSUME alone PROVE AloneInv'
    BY <1>6 DEF AloneInv, Fail
  <2>2. ~Resting(t) /\ load' = [load EXCEPT ![t] = Idle]
    BY <1>6 DEF Fail, Resting
  <2>3. \A u \in Threads : Resting(u)'
    BY <1>0, <1>b, <2>1, <2>2 DEF Resting, Idle, Others
  <2>4. CoherentWhenAlone'
    BY <1>6 DEF Fail, CoherentWhenAlone
  <2>. QED
    BY <2>3, <2>4 DEF AloneInv
<1>7. CASE Commit(t)
  <2>1. Goes(t, "commit", "marker")
    BY <1>7 DEF Commit
  <2>2. /\ ~Resting(t) /\ load[t].pc = "commit" /\ load'[t].pc = "marker"
        /\ load'[t].folder = load[t].folder
        /\ \A u \in Threads \ {t} : load'[u] = load[u]
    BY <1>0, <1>a, <2>1, GoesType DEF Resting
  <2>3. m_szDbFolder' = load[t].folder /\ UNCHANGED <<online, alone, seen, dataVars, m_manualDiscipline>>
    BY <1>7 DEF Commit
  <2>4. ASSUME alone PROVE Found(m_szDbFolder)'
    BY <1>b, <2>2, <2>3, <2>4 DEF ReadSoFar, Found, Selected
  <2>5. alone => ReadSoFar(t)'
    BY <2>2, <2>3, <2>4, <1>b DEF ReadSoFar
  <2>. QED
    BY <2>2, <2>3, <2>5, Proceeds
<1>8. CASE ReadMarker(t)
  <2>1. PICK c \in Counters : load' = [load EXCEPT ![t].pc = "store", ![t].marker = c]
    BY <1>8 DEF ReadMarker
  <2>2. load' = [load EXCEPT ![t] = [load[t] EXCEPT !.pc = "store", !.marker = c]]
    BY <1>0, <2>1 DEF LoadState
  <2>3. /\ load[t].pc = "marker" /\ load'[t].pc = "store"
        /\ load'[t].folder = load[t].folder
        /\ \A u \in Threads \ {t} : load'[u] = load[u]
    BY <1>0, <1>8, <2>2 DEF LoadState, ReadMarker
  <2>4. ~Resting(t)
    BY <2>3 DEF Resting
  <2>5. UNCHANGED <<online, alone, seen, dataVars, stateVars, m_manualDiscipline>>
    BY <1>8 DEF ReadMarker
  <2>6. ASSUME alone PROVE Found(m_szDbFolder)'
    BY <1>b, <2>3, <2>4, <2>5, <2>6 DEF ReadSoFar, Found, Selected
  <2>7. alone => ReadSoFar(t)'
    BY <1>b, <2>3, <2>4, <2>5, <2>6 DEF ReadSoFar
  <2>. QED
    BY <2>3, <2>4, <2>5, <2>7, Proceeds
<1>9. CASE StoreMarker(t)
  <2>1. SUFFICES ASSUME alone PROVE AloneInv'
    BY <1>9 DEF AloneInv, StoreMarker
  <2>2. load[t].pc = "store" /\ ~Resting(t) /\ load' = [load EXCEPT ![t] = Idle]
    BY <1>9 DEF StoreMarker, Resting
  <2>3. \A u \in Threads : Resting(u)'
    BY <1>0, <1>b, <2>1, <2>2 DEF Resting, Idle, Others
  <2>4. Found(m_szDbFolder)
    BY <1>b, <2>1, <2>2 DEF ReadSoFar
  <2>5. Found(m_szDbFolder)'
    BY <1>9, <2>4 DEF StoreMarker, Found, Selected
  <2>. QED
    BY <2>3, <2>5 DEF AloneInv, CoherentWhenAlone
<1>. QED
  BY <1>1, <1>2, <1>3, <1>4, <1>5, <1>6, <1>7, <1>8, <1>9, <1>10 DEF Loading

\* The web thread, the files, the START button and the thread that ends leave a
\* load that nothing disturbs as it was, or disturb it.
LEMMA OthersAlone ==
    ASSUME DbInv, AloneInv, SessionBegins \/ Turn \/ SwitchCompetition \/ Publish \/ Escape
    PROVE  AloneInv'
<1>. USE DEF dataVars, stateVars, ghostVars
<1>1. CASE SwitchCompetition
  <2>1. SUFFICES ASSUME alone, \A t \in Threads : Resting(t) PROVE AloneInv'
    BY <1>1 DEF SwitchCompetition, AloneInv
  <2>2. \A t \in Threads : Resting(t)'
    BY <1>1, <2>1 DEF SwitchCompetition, Resting
  <2>3. CoherentWhenAlone'
    BY <1>1, <2>1 DEF SwitchCompetition, AloneInv, CoherentWhenAlone, Found, Selected
  <2>. QED
    BY <2>2, <2>3 DEF AloneInv
<1>2. CASE Escape
  BY <1>2 DEF Escape, AloneInv
<1>3. CASE SessionBegins \/ Turn \/ Publish
  <2>1. UNCHANGED <<online, alone, seen, load, dataVars, stateVars,
                    m_manualDiscipline>>
    <3>1. CASE SessionBegins \/ Turn
      BY <3>1 DEF SessionBegins, Turn, SessionEnds, Poll, PollRead, ReadCounter, PollSame,
                  PollNew, PollSend, PollFails, PollHangs, diskVars
    <3>2. CASE Publish
      BY <3>2 DEF Publish
    <3>. QED
      BY <1>3, <3>1, <3>2
  <2>. QED
    BY <2>1 DEF AloneInv, ReadSoFar, CoherentWhenAlone, Found, Selected, Resting
<1>. QED
  BY <1>1, <1>2, <1>3

\* What is marked as loaded after an undisturbed load is the one competition its
\* files gave (Load, Reload), for any folders, competitions and number of loads.
THEOREM LoadedIsCoherent == Spec => []CoherentWhenAlone
<1>1. Init => AloneInv
  BY DEF Init, AloneInv
<1>2. DbInv /\ AloneInv /\ [Next]_vars => AloneInv'
  <2>. SUFFICES ASSUME DbInv, AloneInv, [Next]_vars PROVE AloneInv'
    OBVIOUS
  <2>1. CASE ChooseFolder \/ ChooseDiscipline \/ ClientReload
    <3>1. \E t \in Threads, f \in Folders \cup {NoFolder} : Begin(t, f)
      BY <2>1 DEF ChooseFolder, ChooseDiscipline, ClientReload, Threads, DbInv, TypeOK
    <3>. QED
      BY <3>1, BeginAlone
  <2>2. CASE \E t \in Threads : Loading(t)
    BY <2>2, LoadingAlone
  <2>3. CASE SessionBegins \/ Turn \/ SwitchCompetition \/ Publish \/ Escape
    BY <2>3, OthersAlone
  <2>4. CASE UNCHANGED vars
    BY <2>4 DEF vars, diskVars, dataVars, stateVars, ghostVars, AloneInv,
                ReadSoFar, CoherentWhenAlone, Found, Selected, Resting
  <2>. QED
    BY <2>1, <2>2, <2>3, <2>4 DEF Next
<1>3. DbInv /\ AloneInv => CoherentWhenAlone
  BY DEF AloneInv, CoherentWhenAlone
<1>. QED
  BY <1>1, <1>2, <1>3, DbInvariant, PTL DEF Spec

-----------------------------------------------------------------------------
(* A published file that is due                                             *)

DueInv == due \in Nat /\ DueIsUnmarked

\* A step that leaves nothing due.
LEMMA DueCleared ==
    ASSUME due' = 0
    PROVE  DueInv'
  BY DEF DueInv, DueIsUnmarked

\* A step that leaves what a due file depends on as it was, and the marker below
\* its number or the web thread about to read it.
LEMMA DueKept ==
    ASSUME DueInv, UNCHANGED <<due, newest, m_szDbFolder, m_showNo, m_bLoaded, load>>,
           due # 0 => poll'.pc # "stuck"
                      /\ (poll'.pc = "query" \/ m_publishUploadFiles' < due)
    PROVE  DueInv'
  BY DEF DueInv, DueIsUnmarked, Resting, Current

\* A load only goes on when nothing is due, and makes nothing due.
LEMMA LoadingDue ==
    ASSUME DueInv, NEW t \in Threads, Loading(t)
    PROVE  DueInv'
<1>1. ~Resting(t)
  BY DEF Loading, ReadOnline, OpenMain, ReadEventing, MakeFlag, ApplyManual,
         ReadLists, Fail, Commit, ReadMarker, StoreMarker, Goes, Resting
<1>2. due = 0
  BY <1>1 DEF DueInv, DueIsUnmarked
<1>3. due' = due
  BY DEF Loading, ReadOnline, OpenMain, ReadEventing, MakeFlag, ApplyManual,
         ReadLists, Fail, Commit, ReadMarker, StoreMarker, ghostVars
<1>. QED
  BY <1>2, <1>3, DueCleared

\* A poll either stores another marker and then reads the newest file, or finds
\* the marker unchanged, which is below the file's number.
LEMMA TurnDue ==
    ASSUME DbInv, DueInv, SessionBegins \/ Turn
    PROVE  DueInv'
<1>. USE DEF diskVars, dataVars, stateVars, ghostVars
<1>1. due # 0 => m_bLoaded /\ (poll.pc = "query" \/ m_publishUploadFiles < due)
  BY DEF DueInv, DueIsUnmarked
<1>2. CASE SessionBegins \/ PollRead
  <2>1. /\ poll.pc # "query" /\ poll'.pc = "compare" /\ due' \in {0, due}
        /\ UNCHANGED <<newest, m_szDbFolder, m_showNo, m_bLoaded, load,
                       m_publishUploadFiles>>
    BY <1>2 DEF SessionBegins, PollRead, ReadCounter
  <2>2. CASE due' = 0
    BY <2>2, DueCleared
  <2>3. CASE due' = due
    BY <1>1, <2>1, <2>3, DueKept
  <2>. QED
    BY <2>1, <2>2, <2>3
<1>3. CASE PollSame \/ SessionEnds
  <2>1. /\ poll.pc # "query" /\ poll'.pc # "stuck"
        /\ UNCHANGED <<due, newest, m_szDbFolder, m_showNo, m_bLoaded, load,
                       m_publishUploadFiles>>
    BY <1>3 DEF PollSame, SessionEnds, At
  <2>. QED
    BY <1>1, <2>1, DueKept
<1>4. CASE PollNew
  <2>1. /\ m_bLoaded => poll'.pc = "query"
        /\ UNCHANGED <<due, newest, m_szDbFolder, m_showNo, m_bLoaded, load>>
    BY <1>4 DEF PollNew, At
  <2>. QED
    BY <1>1, <2>1, DueKept
<1>5. CASE PollSend \/ PollFails \/ PollHangs
  BY <1>5, DueCleared DEF PollSend, PollFails, PollHangs
<1>. QED
  BY <1>2, <1>3, <1>4, <1>5 DEF Turn, Poll

\* A file that becomes due has a number above the marker, and so has the one that
\* takes its place.
LEMMA PublishDue ==
    ASSUME DbInv, DueInv, Publish
    PROVE  DueInv'
<1>. DEFINE becomes(s) == /\ s = Current
                          /\ \/ due # 0
                             \/ /\ m_bLoaded
                                /\ m_publishUploadFiles \in {0, newest[s]}
                                /\ poll.pc # "stuck" /\ \A t \in Threads : Resting(t)
<1>1. PICK s \in Sources :
        /\ newest' = [newest EXCEPT ![s] = @ + 1]
        /\ due' = IF becomes(s) THEN newest[s] + 1 ELSE due
        /\ UNCHANGED <<dataVars, stateVars, m_publishUploadFiles, load, poll>>
  BY Zenon DEF Publish
<1>2. /\ newest \in [Sources -> 0..published] /\ published \in Nat
      /\ newest'[s] = newest[s] + 1 /\ newest[s] \in Nat
      /\ \A q \in Sources \ {s} : newest'[q] = newest[q]
      /\ m_publishUploadFiles \in Nat
  BY <1>1 DEF DbInv, TypeOK
<1>3. /\ UNCHANGED <<m_bLoaded, m_publishUploadFiles, load, poll>>
      /\ Current' = Current
      /\ \A t \in Threads : Resting(t)' <=> Resting(t)
  BY <1>1 DEF dataVars, stateVars, Current, Resting
<1>4. CASE becomes(s)
  <2>1. due' = newest'[Current'] /\ due' \in Nat /\ due' = newest[Current] + 1
    BY <1>1, <1>2, <1>3, <1>4
  <2>2. /\ m_bLoaded /\ poll.pc # "stuck" /\ \A t \in Threads : Resting(t)
        /\ \/ poll.pc = "query"
           \/ m_publishUploadFiles < due /\ due = newest[Current]
           \/ m_publishUploadFiles \in {0, newest[Current]}
    BY <1>4 DEF DueInv, DueIsUnmarked
  <2>3. poll.pc = "query" \/ m_publishUploadFiles < due'
    BY <1>2, <1>4, <2>1, <2>2
  <2>. QED
    BY <1>1, <1>3, <1>4, <2>1, <2>2, <2>3 DEF DueInv, DueIsUnmarked
<1>5. CASE ~becomes(s)
  <2>1. due' = due
    BY <1>1, <1>5
  <2>2. due # 0 => Current \in Sources \ {s}
    BY <1>5 DEF DueInv, DueIsUnmarked
  <2>3. due # 0 => newest'[Current] = newest[Current]
    BY <1>2, <2>2
  <2>. QED
    BY <1>3, <2>1, <2>3 DEF DueInv, DueIsUnmarked
<1>. QED
  BY <1>4, <1>5

\* What is due is the newest file of the loaded folder and show, so the one that a
\* poll reads, and no poll finds nothing new as long as it is due: the marker of
\* GetUploadedPdfInfo is below its number until the file is being read.  A file
\* that is followed by another before the poll is not due any more.
THEOREM DueIsNoticed == Spec => []DueIsUnmarked
<1>1. Init => DueInv
  BY DEF Init, DueInv, DueIsUnmarked
<1>2. DbInv /\ DueInv /\ [Next]_vars => DueInv'
  <2>. SUFFICES ASSUME DbInv, DueInv, [Next]_vars PROVE DueInv'
    OBVIOUS
  <2>1. CASE ChooseFolder \/ ChooseDiscipline \/ ClientReload
    BY <2>1, DueCleared DEF ChooseFolder, ChooseDiscipline, ClientReload, Begin
  <2>2. CASE \E t \in Threads : Loading(t)
    BY <2>2, LoadingDue
  <2>3. CASE Escape
    <3>1. ~Resting("client") /\ due' = due
      BY <2>3 DEF Escape, Resting
    <3>2. due = 0
      BY <3>1 DEF DueInv, DueIsUnmarked, Threads
    <3>. QED
      BY <3>1, <3>2, DueCleared
  <2>4. CASE SessionBegins \/ Turn
    BY <2>4, TurnDue
  <2>5. CASE Publish
    BY <2>5, PublishDue
  <2>6. CASE SwitchCompetition \/ UNCHANGED vars
    <3>1. UNCHANGED <<due, newest, m_szDbFolder, m_showNo, m_bLoaded, load, poll,
                      m_publishUploadFiles>>
      BY <2>6 DEF SwitchCompetition, vars, diskVars, dataVars, stateVars, ghostVars
    <3>. QED
      BY <3>1 DEF DueInv, DueIsUnmarked, Resting, Current
  <2>. QED
    BY <2>1, <2>2, <2>3, <2>4, <2>5, <2>6 DEF Next
<1>3. DueInv => DueIsUnmarked
  BY DEF DueInv
<1>. QED
  BY <1>1, <1>2, <1>3, DbInvariant, PTL DEF Spec
=============================================================================
